------------------------------- MODULE Scorer -------------------------------
(***************************************************************************)
(* src/feature_store/scorer.py, unusual_accumulation, and what the         *)
(* dashboard's reader adds to it: functions of the three window rows of a  *)
(* coin. What a SELECT ... LIMIT 1 returned is a set of at most one row,   *)
(* empty where the code has None.                                          *)
(*                                                                         *)
(* Scores and their parts are in thousandths, rounded down. Rows are those *)
(* of Bucket.snapshot (CoinWindows.tla).                                   *)
(***************************************************************************)
EXTENDS Integers, FiniteSetsExt

PerMille(num, den) == (1000 * num) \div den
Clamp(low, x, high) == Max({low, Min({x, high})})

(* (row or {}).get("volume", 0.0)                                          *)
Volume(result) == MapThenSumSet(LAMBDA r : r.volume, result)

(* short_rate / base_rate, in whole multiples, all from Limit on alike:    *)
(* a minute's volume per second against an hour's. Without an hour's       *)
(* volume the base is 1e-9 and any volume at all is beyond the limit.      *)
Limit == 10
RateMultiple(w1m, w1h) ==
    IF Volume(w1m) = 0 THEN 0
    ELSE IF Volume(w1h) = 0 THEN Limit
    ELSE Min({Limit, (60 * Volume(w1m)) \div Volume(w1h)})

(* _sig(x, k=1.0, mid=3.0) at 0, 1, 2, ...                                  *)
Squash(x) == <<47, 119, 268, 500, 731, 880, 952, 982, 993, 997, 999>>[x + 1]

VolSpike(w1m, w1h) == Squash(RateMultiple(w1m, w1h))

ImbalanceEitherSide(w1m) ==      \* mutant: selling counts as accumulation
    MapThenSumSet(LAMBDA r : (1000 * Max({r.imbalance[1], -r.imbalance[1]})) \div r.imbalance[2],
                  w1m)

(* Only buy-side imbalance counts.                                         *)
Imbalance(w1m) ==
    Max({0, MapThenSumSet(LAMBDA r : PerMille(r.imbalance[1], r.imbalance[2]), w1m)})

(* HHI 0.2 counts as 1.0.                                                  *)
Concentration(w1m) ==
    Min({1000, 5 * MapThenSumSet(LAMBDA r : PerMille(r.hhi[1], r.hhi[2]), w1m)})

(* A volume of 0 is taken as 1e-9.                                         *)
FlowShare(flow, volume) ==
    IF volume # 0 THEN PerMille(flow, volume)
    ELSE IF flow = 0 THEN 0 ELSE IF flow > 0 THEN 1000 ELSE -1000

BigFlow(w1m) ==
    Clamp(0, FlowShare(MapThenSumSet(LAMBDA r : r.large_flow, w1m), Volume(w1m)), 1000)

Score(w1m, w1h) ==
    (35 * VolSpike(w1m, w1h) + 30 * Imbalance(w1m) + 20 * Concentration(w1m)
       + 15 * BigFlow(w1m)) \div 100

Label(score) ==
    IF score >= 600 THEN "unusual-accumulation"
    ELSE IF score >= 400 THEN "elevated" ELSE "normal"

(* The reader's smart-money bar, -1 to 1, from a flow in eighths.          *)
SmartFlow(w5m) == FlowShare(MapThenSumSet(LAMBDA r : r.smart_flow, w5m), 8 * Volume(w5m))
SmartNorm(w5m) == Clamp(-1000, SmartFlow(w5m), 1000)

Signal(score, smart) ==
    IF score >= 500 /\ smart > 50 THEN "LONG"
    ELSE IF smart < -150 THEN "SHORT" ELSE "none"
=============================================================================
