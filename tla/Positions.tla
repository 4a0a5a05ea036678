----------------------------- MODULE Positions -----------------------------
(***************************************************************************)
(* WalletCoinState and WalletState of src/feature_store/features.py: what  *)
(* a fill does to the position of its (wallet, coin) and to its wallet.    *)
(***************************************************************************)
EXTENDS Fills

VARIABLES wc,        \* (addr, coin) -> WalletCoinState, a dict that starts empty
          wallets    \* addr -> WalletState, likewise

positionVars == <<wc, wallets>>

NewPosition ==
    [net_pos |-> 0, avg_entry |-> <<0, 1>>, realized_pnl |-> 0, fill_count |-> 0, last_ts |-> 0]

NewWallet ==
    [cum_realized_pnl |-> 0, total_fills |-> 0, gross_volume |-> 0, signed_volume |-> 0,
     opens |-> 0, closes |-> 0, last_ts |-> 0]

-----------------------------------------------------------------------------
(* WalletCoinState.update. The average entry is a pair <<num, den>>.       *)

SameDir(pos, delta) == (pos >= 0 /\ delta > 0) \/ (pos <= 0 /\ delta < 0)

Grows(pos, delta) == pos = 0 \/ SameDir(pos, delta)

NeverFlips(pos, new) == FALSE      \* mutant: a flip keeps the old entry
Flips(pos, new) == new # 0 /\ (new > 0) # (pos > 0)

(* (abs(pos) * avg_entry + abs(delta) * px) / abs(new)                     *)
Reweighted(p, delta, px, new) ==
    LET num == p.avg_entry[1]
        den == p.avg_entry[2]
    IN  <<AbsVal(p.net_pos) * num + AbsVal(delta) * px * den, AbsVal(new) * den>>

EntryAfter(p, f) ==
    LET delta == SignedSz(f)
        new == p.net_pos + delta
    IN  CASE Grows(p.net_pos, delta) /\ new # 0 -> Reweighted(p, delta, f.px, new)
          [] ~Grows(p.net_pos, delta) /\ Flips(p.net_pos, new) -> <<f.px, 1>>
          [] OTHER -> p.avg_entry

PositionAfter(p, f) ==
    [net_pos |-> p.net_pos + SignedSz(f),
     avg_entry |-> EntryAfter(p, f),
     realized_pnl |-> p.realized_pnl + f.pnl,
     fill_count |-> p.fill_count + 1,
     last_ts |-> f.ms]

(* Mutant: a fill counts as a close only if it realized something.         *)
WalletAfterPnl(w, f) ==
    [cum_realized_pnl |-> w.cum_realized_pnl + f.pnl,
     total_fills |-> w.total_fills + 1,
     gross_volume |-> w.gross_volume + Notional(f),
     signed_volume |-> w.signed_volume + SignedNotional(f),
     opens |-> IF f.crossed THEN w.opens + 1 ELSE w.opens,
     closes |-> IF f.crossed \/ f.pnl = 0 THEN w.closes ELSE w.closes + 1,
     last_ts |-> f.ms]

(* WalletState.update: a taker fill counts as an open, a maker fill as a   *)
(* close.                                                                  *)
WalletAfter(w, f) ==
    [cum_realized_pnl |-> w.cum_realized_pnl + f.pnl,
     total_fills |-> w.total_fills + 1,
     gross_volume |-> w.gross_volume + Notional(f),
     signed_volume |-> w.signed_volume + SignedNotional(f),
     opens |-> IF f.crossed THEN w.opens + 1 ELSE w.opens,
     closes |-> IF f.crossed THEN w.closes ELSE w.closes + 1,
     last_ts |-> f.ms]

-----------------------------------------------------------------------------
PositionsInit ==
    /\ wc = <<>>
    /\ wallets = <<>>

(* dict.get, or a new state stored under the key.                          *)
GetOr(dict, key, new) == IF key \in DOMAIN dict THEN dict[key] ELSE new

Put(dict, key, value) ==
    [k \in DOMAIN dict \cup {key} |-> IF k = key THEN value ELSE dict[k]]

UpdatePosition(f) ==
    LET key == <<f.addr, f.coin>>
    IN  wc' = Put(wc, key, PositionAfter(GetOr(wc, key, NewPosition), f))

UpdateWallet(f) ==
    wallets' = Put(wallets, f.addr, WalletAfter(GetOr(wallets, f.addr, NewWallet), f))

-----------------------------------------------------------------------------
(* WalletState.archetype, in integers: net_gross < 0.15, maker_share > 0.6 *)
(* and net_gross > 0.4 with the quotients multiplied out.                  *)
Archetype(w) ==
    LET net == AbsVal(w.signed_volume)
        trades == w.opens + w.closes
    IN  CASE w.gross_volume <= 0 -> "mixed"
          [] w.gross_volume > 0 /\ 20 * net < 3 * w.gross_volume
                /\ 5 * w.closes > 3 * trades -> "market-maker"
          [] w.gross_volume > 0 /\ 5 * net > 2 * w.gross_volume -> "directional"
          [] OTHER -> "mixed"

(* wallet_weight in eighths; an unknown wallet (None) weighs nothing.      *)
WalletWeight(dict, a) ==
    IF a \notin DOMAIN dict THEN 0
    ELSE LET archWeight == CASE Archetype(dict[a]) = "directional" -> 2
                             [] Archetype(dict[a]) = "mixed" -> 1
                             [] OTHER -> 0
             pnlWeight == IF dict[a].cum_realized_pnl > 0 THEN 4 ELSE 1
         IN  archWeight * pnlWeight

-----------------------------------------------------------------------------
PositionsTypeOK ==
    /\ DOMAIN wc \subseteq Addrs \X Coins
    /\ \A k \in DOMAIN wc :
          /\ wc[k].net_pos \in Int /\ wc[k].realized_pnl \in Int
          /\ wc[k].fill_count \in Nat /\ wc[k].last_ts \in Nat
          /\ wc[k].avg_entry \in Nat \X (Nat \ {0})
    /\ DOMAIN wallets \subseteq Addrs
    /\ \A a \in DOMAIN wallets :
          wallets[a] \in [cum_realized_pnl : Int, total_fills : Nat, gross_volume : Nat,
                          signed_volume : Int, opens : Nat, closes : Nat, last_ts : Nat]

(* The two groups are kept by separate updates of separate dicts, yet they *)
(* always tell the same story: a wallet is the sum of its positions, its   *)
(* trades split into opens and closes, and |net| / gross is at most one.   *)
GroupsAgree ==
    /\ DOMAIN wallets = {k[1] : k \in DOMAIN wc}
    /\ \A a \in DOMAIN wallets :
          LET mine == {k \in DOMAIN wc : k[1] = a}
              w == wallets[a]
          IN  /\ w.total_fills = MapThenSumSet(LAMBDA k : wc[k].fill_count, mine)
              /\ w.cum_realized_pnl = MapThenSumSet(LAMBDA k : wc[k].realized_pnl, mine)
              /\ w.opens + w.closes = w.total_fills
              /\ AbsVal(w.signed_volume) <= w.gross_volume
              /\ \E k \in mine : wc[k].last_ts = w.last_ts

(* A leg is the run of fills since the position last left zero or changed  *)
(* sign; LegStart is the arrival that opened it.                           *)
ArrivalsAt(k) == ArrivalsOf(k[1]) \cap ArrivalsOn(k[2])
PosAfter(k, i) == Total(SignedSz, {j \in ArrivalsAt(k) : j <= i})
PosBefore(k, i) == PosAfter(k, i - 1)

LegStart(k) ==
    Max({i \in ArrivalsAt(k) : PosBefore(k, i) = 0 \/ PosBefore(k, i) * PosAfter(k, i) < 0})

Leg(k) == {i \in ArrivalsAt(k) : i >= LegStart(k)}
Opening(k) == {i \in Leg(k) : SignedSz(applied[i]) * wc[k].net_pos > 0}

(* The average entry of an open position is one of its own leg: it lies    *)
(* between the prices at which this leg was opened and added to, whatever  *)
(* was traded before the last flip; and while the leg has only grown it is *)
(* the volume-weighted price, the opening fill counting only for what is   *)
(* left of it once it has closed the leg before.                           *)
EntryIsOfItsLeg ==
    \A k \in DOMAIN wc :
        wc[k].net_pos # 0 =>
            LET num == wc[k].avg_entry[1]
                den == wc[k].avg_entry[2]
                prices == {applied[i].px : i \in Opening(k)}
                first == LegStart(k)
                cost == AbsVal(PosAfter(k, first)) * applied[first].px
                          + Total(Notional, Leg(k) \ {first})
            IN  /\ Min(prices) * den <= num
                /\ num <= Max(prices) * den
                /\ Opening(k) = Leg(k) => num * AbsVal(wc[k].net_pos) = den * cost
=============================================================================
