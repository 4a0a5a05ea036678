--------------------------- MODULE FeatureEngine ---------------------------
(***************************************************************************)
(* FeatureEngine of src/feature_store/features.py: one fill goes through   *)
(* the three feature groups in a fixed order, and the wallet it has just   *)
(* updated weighs the flows of the buckets the fill closes.                *)
(***************************************************************************)
EXTENDS Positions, CoinWindows, Scorer

engineVars == <<applied, positionVars, windowVars>>

EngineInit ==
    /\ applied = <<>>
    /\ PositionsInit
    /\ WindowsInit

(* The weights snapshot(wallets) uses: those of the wallet states given.   *)
Weights(dict) == [a \in Addrs |-> WalletWeight(dict, a)]

(* FeatureEngine.apply: `self.wallets' already holds the fill when the     *)
(* windows are updated.                                                    *)
ClosingWeights == Weights(wallets')

Apply(f) ==
    /\ Arrive(f)
    /\ UpdatePosition(f)
    /\ UpdateWallet(f)
    /\ UpdateWindows(f, ClosingWeights)

(* FeatureEngine.open_snapshots: the row of every open bucket.             *)
OpenSnapshots == [k \in DOMAIN open |-> Snapshot(open[k], Weights(wallets))]

-----------------------------------------------------------------------------
(* What a reader of a window row relies on: the imbalance is in [-1, 1],   *)
(* the concentration between 1/wallets and 1, and neither the large nor    *)
(* the smart flow exceeds the net flows they select from.                  *)
SaneRow(row, gross) ==
    LET num == row.hhi[1]
        den == row.hhi[2]
    IN  /\ AbsVal(row.imbalance[1]) <= row.imbalance[2]
        /\ row.taker_buy + row.taker_sell <= row.volume
        /\ gross <= row.volume
        /\ gross > 0 => num <= den /\ den <= num * row.active_wallets
        /\ AbsVal(row.large_flow) <= gross
        /\ AbsVal(row.smart_flow) <= 8 * gross

SnapshotsSane == \A k \in DOMAIN open : SaneRow(OpenSnapshots[k], Gross(open[k]))

(* The rows of one coin, taken together, score within the range promised   *)
(* ("Score in [0,1]") though neither the imbalance nor the smart flow is   *)
(* limited by the scorer, and a score means what its label says: only      *)
(* buying in the open minute makes a coin unusual, and the reader calls    *)
(* LONG or SHORT only after trades of a wallet with weight on that side.   *)
ScoresSane ==
    \A c \in {k[1] : k \in DOMAIN open} :
        LET row(w) == {OpenSnapshots[<<c, w>>]}
            score == Score(row("1m"), row("1h"))
            smart == SmartNorm(row("5m"))
            fills(w) == {applied[i] : i \in InBucket(<<c, w>>, open[<<c, w>>].bucket_ts)}
            weighted(buy) == {f \in fills("5m") :
                                 f.buy = buy /\ WalletWeight(wallets, f.addr) > 0}
        IN  /\ score \in 0..1000
            /\ smart = SmartFlow(row("5m"))
            /\ Volume(row("1m")) <= Volume(row("1h"))
            /\ Label(score) = "unusual-accumulation" => \E f \in fills("1m") : f.buy
            /\ Signal(score, smart) = "LONG" => weighted(TRUE) # {}
            /\ Signal(score, smart) = "SHORT" => weighted(FALSE) # {}

(* Volume is conserved between the groups: with fills in time order, what  *)
(* the closed and the open buckets of each window hold is what the wallets *)
(* traded.                                                                 *)
VolumeConserved ==
    InOrder =>
        \A w \in Windows :
            LET keys == {k \in DOMAIN open : k[2] = w}
                past(k) == SumOver(DOMAIN closed[k], LAMBDA i : closed[k][i].volume)
            IN  SumOver(keys, LAMBDA k : past(k) + open[k].volume)
                  = SumOver(DOMAIN wallets, LAMBDA a : wallets[a].gross_volume)
=============================================================================
