---------------------------- MODULE CoinWindows ----------------------------
(***************************************************************************)
(* CoinWindowAggregator and Bucket of src/feature_store/features.py: three *)
(* tumbling windows per coin. A fill past the end of an open bucket closes *)
(* it; a fill for a bucket already behind the open one is skipped, window  *)
(* by window.                                                              *)
(***************************************************************************)
EXTENDS Fills, WindowSizes

CONSTANT LargeNotional    \* LARGE_NOTIONAL, in the unit of px * sz

ASSUME LargeNotionalAssumption == LargeNotional \in Nat

VARIABLES open,     \* (coin, window) -> the open bucket, a dict that starts empty
          closed    \* (coin, window) -> snapshots of its closed buckets, oldest first

windowVars == <<open, closed>>

Keys == Coins \X Windows

BucketTs(f, w) == ((f.ms \div 1000) \div Size(w)) * Size(w)

NewBucket(ts) ==
    [bucket_ts |-> ts, volume |-> 0, taker_buy |-> 0, taker_sell |-> 0, wallet_flow |-> <<>>]

Flow(flows, a) == IF a \in DOMAIN flows THEN flows[a] ELSE 0

AddFlow(flows, f) ==
    [a \in DOMAIN flows \cup {f.addr} |->
        IF a = f.addr THEN Flow(flows, a) + SignedNotional(f) ELSE flows[a]]

TakerBuy(f) == IF f.crossed /\ f.buy THEN Notional(f) ELSE 0
TakerEither(f) == IF f.crossed THEN Notional(f) ELSE 0    \* mutant: the side is ignored
TakerSell(f) == IF f.crossed /\ ~f.buy THEN Notional(f) ELSE 0

AddFill(b, f) ==
    [bucket_ts |-> b.bucket_ts,
     volume |-> b.volume + Notional(f),
     taker_buy |-> b.taker_buy + TakerBuy(f),
     taker_sell |-> b.taker_sell + TakerSell(f),
     wallet_flow |-> AddFlow(b.wallet_flow, f)]

-----------------------------------------------------------------------------
(* Bucket.snapshot. Ratios are pairs <<numerator, denominator>>; weights   *)
(* are in eighths, the finest grain wallet_weight produces.                *)

Ratio(num, den) == IF den > 0 THEN <<num, den>> ELSE <<0, 1>>
SumOver(S, g(_)) == MapThenSumSet(g, S)

Gross(b) == SumOver(DOMAIN b.wallet_flow, LAMBDA a : AbsVal(b.wallet_flow[a]))

IsLarge(v) == AbsVal(v) >= LargeNotional

Snapshot(b, weight) ==
    LET flows == b.wallet_flow
        addrs == DOMAIN flows
    IN  [bucket_ts |-> b.bucket_ts,
         volume |-> b.volume,
         taker_buy |-> b.taker_buy,
         taker_sell |-> b.taker_sell,
         imbalance |-> Ratio(b.taker_buy - b.taker_sell, b.taker_buy + b.taker_sell),
         active_wallets |-> Cardinality(addrs),
         hhi |-> Ratio(SumOver(addrs, LAMBDA a : flows[a] * flows[a]), Gross(b) * Gross(b)),
         large_flow |-> SumOver({a \in addrs : IsLarge(flows[a])}, LAMBDA a : flows[a]),
         smart_flow |-> SumOver(addrs, LAMBDA a : flows[a] * weight[a])]

NoWeights == [a \in Addrs |-> 0]      \* snapshot(wallets=None)

-----------------------------------------------------------------------------
WindowsInit ==
    /\ open = <<>>
    /\ closed = [k \in Keys |-> <<>>]

(* Mutants: any other bucket rolls; the same bucket rolls too.             *)
StartsOther(f, k) == k \in DOMAIN open => BucketTs(f, k[2]) # open[k].bucket_ts
StartsSame(f, k) == k \in DOMAIN open => BucketTs(f, k[2]) >= open[k].bucket_ts

(* The fill opens a bucket for the key, or rolls it forward.               *)
StartsBucket(f, k) ==
    k \in DOMAIN open => BucketTs(f, k[2]) > open[k].bucket_ts

(* The key's bucket is one the fill closes.                                *)
Closes(f, k) ==
    /\ k[1] = f.coin
    /\ k \in DOMAIN open
    /\ StartsBucket(f, k)

(* Mutants: a late fill is added; a fill of the open bucket is skipped.    *)
NeverLate(f, k) == FALSE
LateOrSame(f, k) == k \in DOMAIN open /\ BucketTs(f, k[2]) <= open[k].bucket_ts

(* A fill for a past bucket: `continue', nothing is added for this window. *)
IsLate(f, k) ==
    /\ k \in DOMAIN open
    /\ BucketTs(f, k[2]) < open[k].bucket_ts

(* Mutant: a late fill reopens its bucket.                                 *)
BucketReopened(f, k) ==
    IF k[1] # f.coin THEN open[k]
    ELSE IF StartsOther(f, k) THEN AddFill(NewBucket(BucketTs(f, k[2])), f)
    ELSE AddFill(open[k], f)

BucketAfter(f, k) ==
    IF k[1] # f.coin \/ IsLate(f, k) THEN open[k]
    ELSE IF StartsBucket(f, k) THEN AddFill(NewBucket(BucketTs(f, k[2])), f)
    ELSE AddFill(open[k], f)

(* CoinWindowAggregator.update(f, wallets); its return value, the buckets  *)
(* the fill closed, is what `closed' gains.                                *)
UpdateWindows(f, weight) ==
    /\ open' = [k \in DOMAIN open \cup ({f.coin} \X Windows) |-> BucketAfter(f, k)]
    /\ closed' = [k \in Keys |->
                    IF Closes(f, k) THEN Append(closed[k], Snapshot(open[k], weight))
                    ELSE closed[k]]

(* The aggregator alone, called without wallets, as `update' allows: fills *)
(* arrive in any order.                                                    *)
Init ==
    /\ applied = <<>>
    /\ WindowsInit

Update(f) == Arrive(f) /\ UpdateWindows(f, NoWeights)

Next == \E f \in Fills : Update(f)

windowsVars == <<applied, windowVars>>

Spec == Init /\ [][Next]_windowsVars

-----------------------------------------------------------------------------
IsFlows(flows) ==
    /\ DOMAIN flows \subseteq Addrs
    /\ flows = [a \in DOMAIN flows |-> flows[a]]
    /\ \A a \in DOMAIN flows : flows[a] \in Int

IsBucket(b) ==
    /\ b = [bucket_ts |-> b.bucket_ts, volume |-> b.volume, taker_buy |-> b.taker_buy,
            taker_sell |-> b.taker_sell, wallet_flow |-> b.wallet_flow]
    /\ {b.bucket_ts, b.volume, b.taker_buy, b.taker_sell} \subseteq Nat
    /\ IsFlows(b.wallet_flow)

WindowsTypeOK ==
    /\ DOMAIN open \subseteq Keys
    /\ \A k \in DOMAIN open : IsBucket(open[k])
    /\ DOMAIN closed = Keys

(* The arrivals whose time lies in the bucket of key k that starts at ts.  *)
InBucket(k, ts) ==
    {i \in ArrivalsOn(k[1]) : /\ ts * 1000 <= applied[i].ms
                              /\ applied[i].ms < (ts + Size(k[2])) * 1000}

(* What a bucket with exactly the arrivals I holds.                        *)
BucketOf(ts, I) ==
    LET takers(buy) == {i \in I : applied[i].crossed /\ applied[i].buy = buy}
        addrs == {applied[i].addr : i \in I}
    IN  [bucket_ts |-> ts,
         volume |-> Total(Notional, I),
         taker_buy |-> Total(Notional, takers(TRUE)),
         taker_sell |-> Total(Notional, takers(FALSE)),
         wallet_flow |-> [a \in addrs |-> Total(SignedNotional, I \cap ArrivalsOf(a))]]

(* In whatever order fills arrive, an open bucket holds exactly the fills  *)
(* of its coin that fall in its interval: none twice, none of another      *)
(* bucket, none missing because it came after a fill of the next minute    *)
(* of the same hour.                                                       *)
OpenBucketsExact ==
    \A k \in DOMAIN open : open[k] = BucketOf(open[k].bucket_ts, InBucket(k, open[k].bucket_ts))

(* A row (coin, window, bucket) is closed at most once, oldest first, and  *)
(* before the bucket that is open now: the final write of a bucket is      *)
(* never followed by another write of it, however late fills arrive.       *)
ClosedOnce ==
    \A k \in Keys :
        /\ \A i, j \in DOMAIN closed[k] :
              i < j => closed[k][i].bucket_ts < closed[k][j].bucket_ts
        /\ \A i \in DOMAIN closed[k] :
              k \in DOMAIN open /\ closed[k][i].bucket_ts < open[k].bucket_ts

(* A stream in time order loses nothing: for every window, the closed rows *)
(* and the open bucket are exactly the buckets the fills fall in, and each *)
(* closed row is the complete aggregate of its interval.                   *)
OrderedLosesNothing ==
    InOrder =>
        \A k \in DOMAIN open :
            /\ \A j \in DOMAIN closed[k] :
                  LET row == closed[k][j]
                      b == BucketOf(row.bucket_ts, InBucket(k, row.bucket_ts))
                  IN  [row EXCEPT !.smart_flow = 0] = Snapshot(b, NoWeights)
            /\ \A i \in ArrivalsOn(k[1]) :
                  \/ i \in InBucket(k, open[k].bucket_ts)
                  \/ \E j \in DOMAIN closed[k] : i \in InBucket(k, closed[k][j].bucket_ts)

(* The three windows of a coin are opened together, and the open minute    *)
(* lies in the open five minutes, which lie in the open hour, with no more *)
(* volume and no more wallets than the longer window has, although each    *)
(* window decides by itself to roll, to add or to skip.                    *)
Nested(short, long) ==
    /\ long.bucket_ts <= short.bucket_ts
    /\ short.volume <= long.volume
    /\ short.taker_buy <= long.taker_buy
    /\ short.taker_sell <= long.taker_sell
    /\ DOMAIN short.wallet_flow \subseteq DOMAIN long.wallet_flow

Covers(w, long, short) == short.bucket_ts + Size("1m") <= long.bucket_ts + Size(w)

WindowsNested ==
    \A c \in Coins :
        \/ \A w \in Windows : <<c, w>> \notin DOMAIN open
        \/ /\ \A w \in Windows : <<c, w>> \in DOMAIN open
           /\ Nested(open[<<c, "1m">>], open[<<c, "5m">>])
           /\ Nested(open[<<c, "5m">>], open[<<c, "1h">>])
           /\ Covers("5m", open[<<c, "5m">>], open[<<c, "1m">>])
           /\ Covers("1h", open[<<c, "1h">>], open[<<c, "1m">>])

(* An open bucket never moves back in time, and never loses volume while   *)
(* it stays open.                                                          *)
BucketAdvances(k) ==
    k \in DOMAIN open =>
        /\ k \in DOMAIN open'
        /\ \/ open'[k].bucket_ts > open[k].bucket_ts
           \/ /\ open'[k].bucket_ts = open[k].bucket_ts
              /\ open'[k].volume >= open[k].volume

BucketsAdvance == [][\A k \in Keys : BucketAdvances(k)]_windowsVars
=============================================================================
