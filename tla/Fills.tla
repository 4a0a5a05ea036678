------------------------------- MODULE Fills -------------------------------
(***************************************************************************)
(* The events of the system: Fill of src/feature_store/replay.py, and the  *)
(* stream of fills a feature engine has been given so far.                 *)
(*                                                                         *)
(* Prices, sizes and realized PnL are integers (the floats of the code,    *)
(* counted in some small unit), so sums are exact; a fill's time keeps its *)
(* milliseconds, because the bucket arithmetic divides them.               *)
(***************************************************************************)
EXTENDS Integers, Sequences, FiniteSetsExt

CONSTANTS Addrs,      \* wallet addresses
          Coins,
          Fills,      \* the fills that may occur
          MaxFills    \* bound: fills in a behaviour

ASSUME FillsAssumption ==
    /\ Fills \subseteq [addr : Addrs, coin : Coins, px : Nat, sz : Nat, buy : BOOLEAN,
                        ms : Nat, pnl : Int, crossed : BOOLEAN]
    /\ MaxFills \in Nat

VARIABLE applied      \* the fills applied so far, in the order they arrived

AbsVal(x) == IF x < 0 THEN -x ELSE x

SignedSz(f) == IF f.buy THEN f.sz ELSE -f.sz
Notional(f) == f.px * f.sz
SignedNotional(f) == IF f.buy THEN Notional(f) ELSE -Notional(f)

(* Sum of g over the arrivals in I, a set of indices of `applied'.         *)
Total(g(_), I) == MapThenSumSet(LAMBDA i : g(applied[i]), I)

ArrivalsOf(addr) == {i \in DOMAIN applied : applied[i].addr = addr}
ArrivalsOn(coin) == {i \in DOMAIN applied : applied[i].coin = coin}

InOrder == \A i, j \in DOMAIN applied : i < j => applied[i].ms <= applied[j].ms

Arrive(f) ==
    /\ Len(applied) < MaxFills
    /\ applied' = Append(applied, f)
=============================================================================
