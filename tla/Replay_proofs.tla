--------------------------- MODULE Replay_proofs ---------------------------
(***************************************************************************)
(* Theorems about the windows of CoinWindows, for every set of fills in    *)
(* any order of arrival, and about the whole feature engine fed by a       *)
(* replay, for every set of day files and limits.                          *)
(*                                                                         *)
(* Nesting: the three open buckets of a coin are always the three floors   *)
(* of ONE second t, the newest seen. Whether a fill is late, rolls or adds *)
(* is then decided for all windows by how its second compares with t, and  *)
(* the longer window is late, or rolls, only if the shorter one is, or     *)
(* does.                                                                   *)
(*                                                                         *)
(* Exactness: a bucket is compared with the sums over the arrivals it      *)
(* should hold. No arrival has a later floor than the open bucket, so a    *)
(* fill that opens a bucket is the first of it and a fill that is skipped  *)
(* belongs to another; and in a stream in time order none is skipped.      *)
(*                                                                         *)
(* Sums: what the folds over sets add up to, whatever order CHOOSE picks   *)
(* the elements in. A wallet is then the sum of its positions, the buckets *)
(* hold the volume the wallets traded, and the rows of a bucket are sane.  *)
(*                                                                         *)
(* Entries: a leg is given by its first arrival. Each fill opens a leg,    *)
(* goes on with it or closes the position, and what is known of the entry  *)
(* is kept for any sequence of fills, one fill at a time.                  *)
(*                                                                         *)
(* Scores: of one row each part of the score is a quotient of bounded      *)
(* numbers, and the sign of a flow is that of some fill in the bucket.     *)
(*                                                                         *)
(* Replay: what was yielded and what is left of the open file are, apart,  *)
(* the rows of the files opened so far. At the end of a complete replay    *)
(* the totals are therefore sums over the set of selected rows, in which   *)
(* the order of ties is nowhere.                                           *)
(***************************************************************************)
EXTENDS Replay, FiniteSetTheorems, SequenceTheorems, WellFoundedInduction, TLAPS

Floor(t, w) == (t \div Size(w)) * Size(w)

Second(f) == f.ms \div 1000

-----------------------------------------------------------------------------
(* Arithmetic of the three window sizes.                                   *)
LEMMA FloorFacts ==
    ASSUME NEW t \in Nat
    PROVE  /\ \A w \in Windows : Floor(t, w) \in Nat
           /\ Floor(t, "1h") <= Floor(t, "5m")
           /\ Floor(t, "5m") <= Floor(t, "1m")
           /\ Floor(t, "1m") + 60 <= Floor(t, "5m") + 300
           /\ Floor(t, "1m") + 60 <= Floor(t, "1h") + 3600
  BY DEF Floor, Size, Windows

LEMMA FloorMonotone ==
    ASSUME NEW s \in Nat, NEW t \in Nat, NEW w \in Windows, s <= t
    PROVE  Floor(s, w) <= Floor(t, w)
  BY DEF Floor, Size, Windows

(* Equal minutes are in equal five minutes, and those in equal hours.      *)
LEMMA FloorCoarser ==
    ASSUME NEW s \in Nat, NEW t \in Nat
    PROVE  /\ Floor(s, "1m") = Floor(t, "1m") => Floor(s, "5m") = Floor(t, "5m")
           /\ Floor(s, "5m") = Floor(t, "5m") => Floor(s, "1h") = Floor(t, "1h")
  BY DEF Floor, Size, Windows

LEMMA FillFacts ==
    ASSUME NEW f \in Fills
    PROVE  /\ f.coin \in Coins
           /\ f.addr \in Addrs
           /\ Second(f) \in Nat
           /\ Notional(f) \in Nat
           /\ SignedNotional(f) \in Int
           /\ \A w : BucketTs(f, w) = Floor(Second(f), w)
  <1>1. f \in [addr : Addrs, coin : Coins, px : Nat, sz : Nat, buy : BOOLEAN,
               ms : Nat, pnl : Int, crossed : BOOLEAN]
    BY FillsAssumption
  <1>2. \A x, y \in Nat : x * y \in Nat
    OBVIOUS
  <1>3. Notional(f) \in Nat
    BY <1>1, <1>2 DEF Notional
  <1> QED
    BY <1>1, <1>3 DEF Second, SignedNotional, BucketTs, Floor

-----------------------------------------------------------------------------
(* What adding a fill does to a bucket.                                    *)
LEMMA TakerFacts ==
    ASSUME NEW f \in Fills
    PROVE  TakerBuy(f) \in Nat /\ TakerSell(f) \in Nat
  BY FillFacts DEF TakerBuy, TakerSell

LEMMA NewBucketType ==
    ASSUME NEW ts \in Nat
    PROVE  /\ IsBucket(NewBucket(ts))
           /\ DOMAIN NewBucket(ts).wallet_flow = {}
  BY DEF IsBucket, NewBucket, IsFlows

LEMMA AddFillFacts ==
    ASSUME NEW b, IsBucket(b), NEW f \in Fills
    PROVE  LET b2 == AddFill(b, f)
           IN  /\ IsBucket(b2)
               /\ b2.bucket_ts = b.bucket_ts
               /\ b2.volume = b.volume + Notional(f)
               /\ b2.taker_buy = b.taker_buy + TakerBuy(f)
               /\ b2.taker_sell = b.taker_sell + TakerSell(f)
               /\ DOMAIN b2.wallet_flow = DOMAIN b.wallet_flow \cup {f.addr}
  <1> DEFINE b2 == AddFill(b, f)
             flows == b.wallet_flow
  <1>1. /\ b.bucket_ts \in Nat /\ b.volume \in Nat
        /\ b.taker_buy \in Nat /\ b.taker_sell \in Nat
        /\ IsFlows(flows)
    BY DEF IsBucket
  <1>2. /\ IsFlows(AddFlow(flows, f))
        /\ DOMAIN AddFlow(flows, f) = DOMAIN flows \cup {f.addr}
    BY <1>1, FillFacts DEF IsFlows, Flow, AddFlow
  <1> QED
    BY <1>1, <1>2, FillFacts, TakerFacts DEF IsBucket, AddFill

(* Nesting, but for the times, survives each way the two windows can move. *)
Within(short, long) ==
    /\ short.volume <= long.volume
    /\ short.taker_buy <= long.taker_buy
    /\ short.taker_sell <= long.taker_sell
    /\ DOMAIN short.wallet_flow \subseteq DOMAIN long.wallet_flow

LEMMA WithinSteps ==
    ASSUME NEW short, IsBucket(short), NEW long, IsBucket(long), Within(short, long),
           NEW f \in Fills, NEW ts \in Nat, NEW ts2 \in Nat
    PROVE  /\ Within(short, AddFill(long, f))
           /\ Within(AddFill(short, f), AddFill(long, f))
           /\ Within(AddFill(NewBucket(ts), f), AddFill(long, f))
           /\ Within(AddFill(NewBucket(ts), f), AddFill(NewBucket(ts2), f))
  <1> DEFINE n1 == AddFill(NewBucket(ts), f)
             n2 == AddFill(NewBucket(ts2), f)
             s2 == AddFill(short, f)
             l2 == AddFill(long, f)
  <1>1. \A t \in Nat :
           /\ AddFill(NewBucket(t), f).volume = Notional(f)
           /\ AddFill(NewBucket(t), f).taker_buy = TakerBuy(f)
           /\ AddFill(NewBucket(t), f).taker_sell = TakerSell(f)
           /\ DOMAIN AddFill(NewBucket(t), f).wallet_flow = {f.addr}
    <2> TAKE t \in Nat
    <2>1. /\ IsBucket(NewBucket(t))
          /\ NewBucket(t).volume = 0
          /\ NewBucket(t).taker_buy = 0
          /\ NewBucket(t).taker_sell = 0
          /\ DOMAIN NewBucket(t).wallet_flow = {}
      BY NewBucketType DEF NewBucket
    <2> QED
      BY <2>1, AddFillFacts, TakerFacts, FillFacts
  <1>2. /\ s2.volume = short.volume + Notional(f)
        /\ s2.taker_buy = short.taker_buy + TakerBuy(f)
        /\ s2.taker_sell = short.taker_sell + TakerSell(f)
        /\ DOMAIN s2.wallet_flow = DOMAIN short.wallet_flow \cup {f.addr}
    BY AddFillFacts
  <1>3. /\ l2.volume = long.volume + Notional(f)
        /\ l2.taker_buy = long.taker_buy + TakerBuy(f)
        /\ l2.taker_sell = long.taker_sell + TakerSell(f)
        /\ DOMAIN l2.wallet_flow = DOMAIN long.wallet_flow \cup {f.addr}
    BY AddFillFacts
  <1>4. /\ short.volume \in Nat /\ short.taker_buy \in Nat /\ short.taker_sell \in Nat
        /\ long.volume \in Nat /\ long.taker_buy \in Nat /\ long.taker_sell \in Nat
        /\ Notional(f) \in Nat /\ TakerBuy(f) \in Nat /\ TakerSell(f) \in Nat
    BY TakerFacts, FillFacts DEF IsBucket
  <1> HIDE DEF n1, n2, s2, l2
  <1>5. Within(short, l2) /\ Within(s2, l2)
    BY <1>2, <1>3, <1>4 DEF Within
  <1>6. Within(n1, l2) /\ Within(n1, n2)
    BY <1>1, <1>3, <1>4 DEF Within, n1, n2
  <1> QED
    BY <1>5, <1>6 DEF n1, n2, s2, l2

-----------------------------------------------------------------------------
(* The invariant: a coin has all of its three buckets or none; they are    *)
(* the floors of one second, and hold less the shorter they are.           *)
Bucket(c, w) == open[<<c, w>>]

FloorsOf(c, t) == \A w \in Windows : Bucket(c, w).bucket_ts = Floor(t, w)

CoinInv(c) ==
    \/ \A w \in Windows : <<c, w>> \notin DOMAIN open
    \/ /\ \A w \in Windows : <<c, w>> \in DOMAIN open
       /\ \E t \in Nat : FloorsOf(c, t)
       /\ Within(Bucket(c, "1m"), Bucket(c, "5m"))
       /\ Within(Bucket(c, "5m"), Bucket(c, "1h"))

WindowsInv ==
    /\ WindowsTypeOK
    /\ \A c \in Coins : CoinInv(c)

LEMMA WindowsInvInit == Init => WindowsInv
  BY DEF Init, WindowsInit, WindowsInv, WindowsTypeOK, CoinInv

(* The bucket a key of the fill's own coin has after the fill.             *)
LEMMA BucketAfterFacts ==
    ASSUME NEW f \in Fills, WindowsTypeOK, NEW w \in Windows
    PROVE  LET k == <<f.coin, w>>
               ts == BucketTs(f, w)
           IN  /\ IsBucket(BucketAfter(f, k))
               /\ k \notin DOMAIN open => BucketAfter(f, k) = AddFill(NewBucket(ts), f)
               /\ k \in DOMAIN open =>
                    /\ IsBucket(open[k])
                    /\ ts > open[k].bucket_ts => BucketAfter(f, k) = AddFill(NewBucket(ts), f)
                    /\ ts = open[k].bucket_ts => BucketAfter(f, k) = AddFill(open[k], f)
                    /\ ts < open[k].bucket_ts => BucketAfter(f, k) = open[k]
  <1> DEFINE k == <<f.coin, w>>
             ts == BucketTs(f, w)
  <1>1. ts \in Nat
    BY FillFacts, FloorFacts
  <1>2. k[1] = f.coin /\ k[2] = w
    OBVIOUS
  <1>3. IsBucket(AddFill(NewBucket(ts), f))
    BY <1>1, NewBucketType, AddFillFacts
  <1>4. k \in DOMAIN open => /\ IsBucket(open[k])
                            /\ IsBucket(AddFill(open[k], f))
                            /\ open[k].bucket_ts \in Nat
    BY AddFillFacts DEF WindowsTypeOK, IsBucket
  <1> QED
    BY <1>1, <1>2, <1>3, <1>4 DEF BucketAfter, IsLate, StartsBucket

LEMMA UpdateType ==
    ASSUME NEW f \in Fills, WindowsTypeOK, NEW weight, UpdateWindows(f, weight)
    PROVE  /\ WindowsTypeOK'
           /\ DOMAIN open' = DOMAIN open \cup ({f.coin} \X Windows)
           /\ \A k \in DOMAIN open' : open'[k] = BucketAfter(f, k)
           /\ \A k \in DOMAIN open : k[1] # f.coin => open'[k] = open[k]
  <1>1. /\ DOMAIN open' = DOMAIN open \cup ({f.coin} \X Windows)
        /\ \A k \in DOMAIN open' : open'[k] = BucketAfter(f, k)
        /\ DOMAIN closed' = Keys
    BY DEF UpdateWindows
  <1>2. \A k \in DOMAIN open : k[1] # f.coin => open'[k] = open[k]
    BY <1>1 DEF BucketAfter
  <1>3. DOMAIN open' \subseteq Keys
    BY <1>1, FillFacts DEF WindowsTypeOK, Keys
  <1>4. ASSUME NEW k \in DOMAIN open' PROVE IsBucket(open'[k])
    <2>1. CASE k[1] = f.coin
      <3>1. PICK w \in Windows : k = <<f.coin, w>>
        BY <1>3, <2>1 DEF Keys
      <3> QED
        BY <1>1, <3>1, BucketAfterFacts
    <2>2. CASE k[1] # f.coin
      <3>1. k \in DOMAIN open
        BY <1>1, <2>2
      <3> QED
        BY <1>2, <2>2, <3>1 DEF WindowsTypeOK
    <2> QED
      BY <2>1, <2>2
  <1> QED
    BY <1>1, <1>2, <1>3, <1>4 DEF WindowsTypeOK

(* The windows of the fill's coin, when it has been seen before: the fill  *)
(* at second s meets buckets that are the floors of t.                     *)
LEMMA CoinStep ==
    ASSUME NEW f \in Fills, WindowsTypeOK, NEW weight, UpdateWindows(f, weight),
           CoinInv(f.coin), <<f.coin, "1m">> \in DOMAIN open
    PROVE  CoinInv(f.coin)'
  <1> DEFINE s == Second(f)
             B(w) == Bucket(f.coin, w)
             A(w) == BucketAfter(f, <<f.coin, w>>)
  <1>0. "1m" \in Windows /\ "5m" \in Windows /\ "1h" \in Windows
    BY DEF Windows
  <1>1. /\ \A w \in Windows : <<f.coin, w>> \in DOMAIN open
        /\ Within(B("1m"), B("5m"))
        /\ Within(B("5m"), B("1h"))
    BY <1>0 DEF CoinInv
  <1>2. PICK t \in Nat : FloorsOf(f.coin, t)
    BY <1>0 DEF CoinInv
  <1>3. s \in Nat /\ \A w \in Windows : Floor(s, w) \in Nat
    BY FillFacts, FloorFacts
  <1>4. \A w \in Windows :
           /\ IsBucket(B(w)) /\ IsBucket(A(w))
           /\ Floor(s, w) > Floor(t, w) => A(w) = AddFill(NewBucket(Floor(s, w)), f)
           /\ Floor(s, w) = Floor(t, w) => A(w) = AddFill(B(w), f)
           /\ Floor(s, w) < Floor(t, w) => A(w) = B(w)
    BY <1>1, <1>2, BucketAfterFacts, FillFacts DEF Bucket, FloorsOf
  <1>5. /\ \A w \in Windows : <<f.coin, w>> \in DOMAIN open'
        /\ \A w \in Windows : open'[<<f.coin, w>>] = A(w)
    BY <1>1, UpdateType
  <1>6. \A w \in Windows : A(w).bucket_ts = IF s <= t THEN Floor(t, w) ELSE Floor(s, w)
    <2> TAKE w \in Windows
    <2>1. /\ s <= t => Floor(s, w) <= Floor(t, w)
          /\ t <= s => Floor(t, w) <= Floor(s, w)
      BY <1>3, FloorMonotone
    <2>2. /\ Floor(s, w) \in Nat /\ Floor(t, w) \in Nat
          /\ B(w).bucket_ts = Floor(t, w)
      BY <1>2, <1>3, FloorFacts DEF FloorsOf, Bucket
    <2>3. /\ AddFill(NewBucket(Floor(s, w)), f).bucket_ts = Floor(s, w)
          /\ AddFill(B(w), f).bucket_ts = Floor(t, w)
      BY <2>2 DEF AddFill, NewBucket
    <2> QED
      BY <1>3, <1>4, <2>1, <2>2, <2>3
  <1>7. ASSUME NEW short \in Windows, NEW long \in Windows, Within(B(short), B(long)),
               Floor(s, short) = Floor(t, short) => Floor(s, long) = Floor(t, long)
        PROVE  Within(A(short), A(long))
    <2>1. /\ Floor(s, short) \in Nat /\ Floor(t, short) \in Nat
          /\ Floor(s, long) \in Nat /\ Floor(t, long) \in Nat
      BY <1>3, FloorFacts
    <2>2. /\ s <= t => Floor(s, short) <= Floor(t, short) /\ Floor(s, long) <= Floor(t, long)
          /\ t <= s => Floor(t, short) <= Floor(s, short) /\ Floor(t, long) <= Floor(s, long)
      BY <1>3, FloorMonotone
    <2>3. /\ Within(B(short), AddFill(B(long), f))
          /\ Within(AddFill(B(short), f), AddFill(B(long), f))
          /\ Within(AddFill(NewBucket(Floor(s, short)), f), AddFill(B(long), f))
          /\ Within(AddFill(NewBucket(Floor(s, short)), f),
                    AddFill(NewBucket(Floor(s, long)), f))
      BY <1>4, <1>7, <2>1, WithinSteps
    <2>4. CASE Floor(s, short) < Floor(t, short)
      BY <1>4, <1>7, <1>3, <2>1, <2>2, <2>3, <2>4
    <2>5. CASE Floor(s, short) = Floor(t, short)
      BY <1>4, <1>7, <2>3, <2>5
    <2>6. CASE Floor(s, short) > Floor(t, short)
      BY <1>4, <1>7, <1>3, <2>1, <2>2, <2>3, <2>6
    <2> QED
      BY <2>1, <2>4, <2>5, <2>6
  <1>8. Within(A("1m"), A("5m")) /\ Within(A("5m"), A("1h"))
    BY <1>0, <1>1, <1>3, <1>7, FloorCoarser
  <1>9. \E u \in Nat : FloorsOf(f.coin, u)'
    <2> DEFINE u == IF s <= t THEN t ELSE s
    <2>1. u \in Nat
      BY <1>3
    <2>2. \A w \in Windows : Bucket(f.coin, w)'.bucket_ts = Floor(u, w)
      BY <1>5, <1>6 DEF Bucket
    <2> QED
      BY <2>1, <2>2 DEF FloorsOf
  <1>10. Within(Bucket(f.coin, "1m"), Bucket(f.coin, "5m"))'
    BY <1>0, <1>5, <1>8 DEF Within, Bucket
  <1>11. Within(Bucket(f.coin, "5m"), Bucket(f.coin, "1h"))'
    BY <1>0, <1>5, <1>8 DEF Within, Bucket
  <1> QED
    BY <1>5, <1>9, <1>10, <1>11 DEF CoinInv

(* A coin's first fill opens its three windows at once.                    *)
LEMMA FirstFillStep ==
    ASSUME NEW f \in Fills, WindowsTypeOK, NEW weight, UpdateWindows(f, weight),
           \A w \in Windows : <<f.coin, w>> \notin DOMAIN open
    PROVE  CoinInv(f.coin)'
  <1> DEFINE s == Second(f)
             N(w) == AddFill(NewBucket(Floor(s, w)), f)
  <1>0. "1m" \in Windows /\ "5m" \in Windows /\ "1h" \in Windows
    BY DEF Windows
  <1>1. s \in Nat /\ \A w \in Windows : Floor(s, w) \in Nat
    BY FillFacts, FloorFacts
  <1>2. \A w \in Windows : /\ <<f.coin, w>> \in DOMAIN open'
                           /\ open'[<<f.coin, w>>] = N(w)
    BY UpdateType, BucketAfterFacts, FillFacts
  <1>3. \A w \in Windows : /\ N(w).bucket_ts = Floor(s, w)
                           /\ IsBucket(NewBucket(Floor(s, w)))
    BY <1>1, NewBucketType DEF AddFill, NewBucket
  <1>4. \A v, w \in Windows : Within(N(v), N(w))
    <2> TAKE v, w \in Windows
    <2>1. Within(NewBucket(Floor(s, v)), NewBucket(Floor(s, w)))
      BY <1>1, NewBucketType DEF Within, NewBucket
    <2> QED
      BY <1>1, <1>3, <2>1, WithinSteps
  <1>5. FloorsOf(f.coin, s)'
    <2>1. \A w \in Windows : Bucket(f.coin, w)'.bucket_ts = Floor(s, w)
      BY <1>2, <1>3 DEF Bucket
    <2> QED
      BY <2>1 DEF FloorsOf
  <1>6. \E t \in Nat : FloorsOf(f.coin, t)'
    BY <1>1, <1>5
  <1>7. /\ Within(Bucket(f.coin, "1m"), Bucket(f.coin, "5m"))'
        /\ Within(Bucket(f.coin, "5m"), Bucket(f.coin, "1h"))'
    BY <1>0, <1>2, <1>4 DEF Within, Bucket
  <1> QED
    BY <1>2, <1>6, <1>7 DEF CoinInv

LEMMA UpdateInv ==
    ASSUME NEW f \in Fills, WindowsInv, NEW weight, UpdateWindows(f, weight)
    PROVE  WindowsInv'
  <1>1. WindowsTypeOK
    BY DEF WindowsInv
  <1>2. ASSUME NEW c \in Coins PROVE CoinInv(c)'
    <2>1. CoinInv(c)
      BY DEF WindowsInv
    <2>2. CASE c # f.coin
      <3>1. \A w \in Windows :
               /\ <<c, w>> \in DOMAIN open' <=> <<c, w>> \in DOMAIN open
               /\ <<c, w>> \in DOMAIN open => open'[<<c, w>>] = open[<<c, w>>]
        <4> TAKE w \in Windows
        <4>1. <<c, w>>[1] = c
          OBVIOUS
        <4>2. <<c, w>> \in DOMAIN open' <=> <<c, w>> \in DOMAIN open
          <5>1. DOMAIN open' = DOMAIN open \cup ({f.coin} \X Windows)
            BY <1>1, UpdateType
          <5>2. <<c, w>> \notin {f.coin} \X Windows
            BY <2>2
          <5> QED
            BY <5>1, <5>2
        <4> QED
          BY <1>1, <2>2, <4>1, <4>2, UpdateType
      <3>2. CASE \A w \in Windows : <<c, w>> \notin DOMAIN open
        BY <3>1, <3>2 DEF CoinInv
      <3>3. CASE ~\A w \in Windows : <<c, w>> \notin DOMAIN open
        <4>1. PICK t \in Nat : FloorsOf(c, t)
          BY <2>1, <3>3 DEF CoinInv
        <4>2. FloorsOf(c, t)'
          BY <2>1, <3>1, <3>3, <4>1 DEF CoinInv, FloorsOf, Bucket
        <4>3. /\ Within(Bucket(c, "1m"), Bucket(c, "5m"))'
              /\ Within(Bucket(c, "5m"), Bucket(c, "1h"))'
          BY <2>1, <3>1, <3>3 DEF CoinInv, Within, Bucket, Windows
        <4> QED
          BY <2>1, <3>1, <3>3, <4>2, <4>3 DEF CoinInv
      <3> QED
        BY <3>2, <3>3
    <2>3. CASE c = f.coin
      <3>1. \/ \A w \in Windows : <<c, w>> \notin DOMAIN open
            \/ <<c, "1m">> \in DOMAIN open
        BY <2>1 DEF CoinInv, Windows
      <3> QED
        BY <1>1, <2>1, <2>3, <3>1, FirstFillStep, CoinStep
    <2> QED
      BY <2>2, <2>3
  <1> QED
    BY <1>1, <1>2, UpdateType DEF WindowsInv

(* Every update moves every open bucket forward or leaves it in place.     *)
LEMMA UpdateAdvances ==
    ASSUME NEW f \in Fills, WindowsTypeOK, NEW weight, UpdateWindows(f, weight), NEW k \in Keys
    PROVE  BucketAdvances(k)
  <1> SUFFICES ASSUME k \in DOMAIN open PROVE BucketAdvances(k)
    BY DEF BucketAdvances
  <1>1. k \in DOMAIN open'
    BY UpdateType
  <1>2. CASE k[1] # f.coin
    <2>1. open'[k] = open[k]
      BY <1>2, UpdateType
    <2>2. open[k].volume \in Nat
      BY DEF WindowsTypeOK, IsBucket
    <2>3. open'[k].volume >= open[k].volume
      BY <2>1, <2>2
    <2> QED
      BY <1>1, <2>1, <2>3 DEF BucketAdvances
  <1>3. CASE k[1] = f.coin
    <2>1. PICK w \in Windows : k = <<f.coin, w>>
      BY <1>3 DEF Keys
    <2>2. BucketTs(f, w) \in Nat
      BY FillFacts, FloorFacts
    <2>3. open'[k] = BucketAfter(f, k)
      BY <1>1, UpdateType
    <2>4. /\ IsBucket(open[k])
          /\ open[k].bucket_ts \in Nat /\ open[k].volume \in Nat
          /\ Notional(f) \in Nat
      BY FillFacts DEF WindowsTypeOK, IsBucket
    <2>5. /\ AddFill(open[k], f).bucket_ts = open[k].bucket_ts
          /\ AddFill(open[k], f).volume = open[k].volume + Notional(f)
          /\ AddFill(NewBucket(BucketTs(f, w)), f).bucket_ts = BucketTs(f, w)
      BY DEF AddFill, NewBucket
    <2> QED
      BY <1>1, <2>1, <2>2, <2>3, <2>4, <2>5, BucketAfterFacts DEF BucketAdvances
  <1> QED
    BY <1>2, <1>3

-----------------------------------------------------------------------------
(* The closed rows of a key are a sequence of some rows, in order of their *)
(* buckets, all older than the open one.                                   *)
Older(k) ==
    /\ \A i, j \in DOMAIN closed[k] : i < j => closed[k][i].bucket_ts < closed[k][j].bucket_ts
    /\ \A i \in DOMAIN closed[k] :
          k \in DOMAIN open /\ closed[k][i].bucket_ts < open[k].bucket_ts

RowsInv(k) ==
    /\ \E Rows : closed[k] \in Seq(Rows)
    /\ \A i \in DOMAIN closed[k] : closed[k][i].bucket_ts \in Nat
    /\ Older(k)

LEMMA RowsStep ==
    ASSUME NEW f \in Fills, WindowsTypeOK, NEW weight, UpdateWindows(f, weight),
           NEW k \in Keys, RowsInv(k)
    PROVE  RowsInv(k)'
  <1>1. BucketAdvances(k)
    BY UpdateAdvances
  <1>2. k \in DOMAIN open => /\ k \in DOMAIN open'
                            /\ open[k].bucket_ts \in Nat
                            /\ open'[k].bucket_ts \in Nat
                            /\ open[k].bucket_ts <= open'[k].bucket_ts
    <2> SUFFICES ASSUME k \in DOMAIN open
                 PROVE  /\ k \in DOMAIN open'
                        /\ open[k].bucket_ts \in Nat
                        /\ open'[k].bucket_ts \in Nat
                        /\ open[k].bucket_ts <= open'[k].bucket_ts
      OBVIOUS
    <2>1. WindowsTypeOK' /\ k \in DOMAIN open'
      BY <1>1, UpdateType DEF BucketAdvances
    <2>2. IsBucket(open[k]) /\ IsBucket(open'[k])
      BY <2>1 DEF WindowsTypeOK, IsBucket
    <2>3. open[k].bucket_ts \in Nat /\ open'[k].bucket_ts \in Nat
      BY <2>2 DEF IsBucket
    <2> QED
      BY <1>1, <2>1, <2>3 DEF BucketAdvances
  <1>3. CASE ~Closes(f, k)
    <2>1. closed'[k] = closed[k]
      BY <1>3 DEF UpdateWindows
    <2>2. Older(k)'
      BY <1>2, <2>1 DEF Older, RowsInv
    <2> QED
      BY <2>1, <2>2 DEF RowsInv
  <1>4. CASE Closes(f, k)
    <2> DEFINE row == Snapshot(open[k], weight)
               old == closed[k]
               m == Len(old)
    <2>1. closed'[k] = Append(old, row)
      BY <1>4 DEF UpdateWindows
    <2>2. row.bucket_ts = open[k].bucket_ts
      BY DEF Snapshot
    <2>3. PICK Rows : old \in Seq(Rows)
      BY DEF RowsInv
    <2> DEFINE Rows2 == Rows \cup {row}
    <2>4. old \in Seq(Rows2)
      BY <2>3, SeqMonotonic
    <2> HIDE DEF row
    <2>5. /\ Append(old, row) \in Seq(Rows2)
          /\ Len(Append(old, row)) = m + 1
          /\ \A i \in 1..m : Append(old, row)[i] = old[i]
          /\ Append(old, row)[m + 1] = row
      BY <2>4, AppendProperties
    <2>6. m \in Nat /\ DOMAIN old = 1..m /\ DOMAIN closed'[k] = 1..(m + 1)
      BY <2>1, <2>4, <2>5, LenProperties
    <2>7. k \in DOMAIN open /\ open[k].bucket_ts < open'[k].bucket_ts
      <3>1. k \in DOMAIN open /\ k[1] = f.coin /\ BucketTs(f, k[2]) > open[k].bucket_ts
        BY <1>4 DEF Closes, StartsBucket
      <3>2. PICK w \in Windows : k = <<f.coin, w>>
        BY <3>1 DEF Keys
      <3>3. open'[k] = AddFill(NewBucket(BucketTs(f, w)), f)
        BY <1>2, <3>1, <3>2, UpdateType, BucketAfterFacts
      <3> QED
        BY <3>1, <3>2, <3>3 DEF AddFill, NewBucket
    <2>8. \A i \in 1..(m + 1) :
             /\ i \in 1..m => /\ closed'[k][i] = old[i]
                              /\ old[i].bucket_ts \in Nat
                              /\ old[i].bucket_ts < open[k].bucket_ts
             /\ i \notin 1..m => i = m + 1 /\ closed'[k][i].bucket_ts = open[k].bucket_ts
      BY <2>1, <2>2, <2>5, <2>6 DEF RowsInv, Older
    <2>9. \A i \in 1..(m + 1) : /\ closed'[k][i].bucket_ts \in Nat
                               /\ closed'[k][i].bucket_ts < open'[k].bucket_ts
      BY <1>2, <2>7, <2>8
    <2>10. \A i, j \in 1..(m + 1) : i < j => closed'[k][i].bucket_ts < closed'[k][j].bucket_ts
      <3> SUFFICES ASSUME NEW i \in 1..(m + 1), NEW j \in 1..(m + 1), i < j
                   PROVE  closed'[k][i].bucket_ts < closed'[k][j].bucket_ts
        OBVIOUS
      <3>1. i \in 1..m
        BY <2>6
      <3>2. CASE j \in 1..m
        BY <2>6, <2>8, <3>1, <3>2 DEF RowsInv, Older
      <3>3. CASE j \notin 1..m
        BY <2>8, <3>1, <3>3
      <3> QED
        BY <3>2, <3>3
    <2>11. Older(k)'
      BY <1>2, <2>6, <2>7, <2>9, <2>10 DEF Older
    <2> QED
      BY <2>1, <2>5, <2>6, <2>9, <2>11 DEF RowsInv
  <1> QED
    BY <1>3, <1>4

AllRows == \A k \in Keys : RowsInv(k)

-----------------------------------------------------------------------------
(* Sums. What a bucket holds is a sum over the fills in it, a fold over a  *)
(* set of arrivals; a fold is evaluated along a recursive function over    *)
(* the subsets of that set, and what is known of the sum follows from that *)
(* function: that it exists, and that the order of the terms is free.      *)

Pick(s) == CHOOSE x \in s : TRUE

(* F gives for each set of SS what f adds up to over it.                   *)
IsSumOver(F, f, SS) ==
    F = [s \in SS |-> IF s = {} THEN 0 ELSE f[Pick(s)] + F[s \ {Pick(s)}]]

(* A set of naturals has a least element.                                  *)
LEMMA LeastNatural ==
    ASSUME NEW S \in SUBSET Nat, S # {}
    PROVE  \E s \in S : \A x \in S : s <= x
  <1> DEFINE T == {0..x : x \in S}
  <1>1. T \in SUBSET FiniteSubsetsOf(Nat) /\ T # {}
    <2>1. \A x \in S : IsFiniteSet(0..x) /\ 0..x \in SUBSET Nat
      BY FS_Interval
    <2> QED
      BY <2>1 DEF FiniteSubsetsOf
  <1>2. PICK t \in T : \A u \in T : ~(<<u, t>> \in StrictSubsetOrdering(Nat))
    <2> HIDE DEF T
    <2> QED
      BY <1>1, FS_StrictSubsetOrderingWellFounded, WFMin
  <1>3. PICK s \in S : t = 0..s
    BY <1>2
  <1>4. ASSUME NEW y \in S, y < s PROVE FALSE
    <2>1. 0..y \in SUBSET Nat /\ 0..s \in SUBSET Nat /\ 0..y \subseteq 0..s
      BY <1>4
    <2>2. 0..y # 0..s
      <3>1. s \in 0..s /\ s \notin 0..y
        BY <1>4
      <3> QED
        BY <3>1
    <2>3. <<0..y, 0..s>> \in StrictSubsetOrdering(Nat)
      BY <2>1, <2>2, Zenon DEF StrictSubsetOrdering
    <2> QED
      BY <1>2, <1>3, <2>3
  <1> QED
    BY <1>4

(* Of the finite sets that violate something one is minimal: the induction *)
(* over finite sets the proofs below use.                                  *)
LEMMA MinimalSet ==
    ASSUME NEW S, IsFiniteSet(S), NEW Bad \in SUBSET (SUBSET S), Bad # {}
    PROVE  \E t \in Bad : \A u \in Bad : u \subseteq t => u = t
  <1>1. Bad \in SUBSET FiniteSubsetsOf(S)
    BY FS_Subset DEF FiniteSubsetsOf
  <1>2. PICK t \in Bad : \A u \in Bad : ~(<<u, t>> \in StrictSubsetOrdering(S))
    BY <1>1, FS_StrictSubsetOrderingWellFounded, WFMin
  <1>3. ASSUME NEW u \in Bad, u \subseteq t, u # t
        PROVE  FALSE
    BY <1>2, <1>3, Zenon DEF StrictSubsetOrdering
  <1> QED
    BY <1>3

LEMMA PickFacts ==
    ASSUME NEW s, s # {}
    PROVE  Pick(s) \in s
  BY DEF Pick

(* The function a fold is evaluated along exists: it is built set size by  *)
(* set size.                                                               *)
LEMMA SumExists ==
    ASSUME NEW S, IsFiniteSet(S), NEW f
    PROVE  \E F : IsSumOver(F, f, SUBSET S)
  <1> DEFINE Sized(n) == {s \in SUBSET S : Cardinality(s) <= n}
             Missing == {n \in Nat : ~\E F : IsSumOver(F, f, Sized(n))}
  <1>1. \A s \in SUBSET S : IsFiniteSet(s) /\ Cardinality(s) \in Nat
    BY FS_Subset, FS_CardinalityType
  <1>2. ASSUME NEW n \in Nat, n > 0, NEW s \in Sized(n), s # {}
        PROVE  s \ {Pick(s)} \in Sized(n - 1)
    <2>1. Cardinality(s \ {Pick(s)}) = Cardinality(s) - 1
      BY <1>1, <1>2, PickFacts, FS_RemoveElement
    <2> QED
      BY <1>1, <1>2, <2>1
  <1>3. \A s \in Sized(0) : s = {}
    BY <1>1, FS_EmptySet
  <1>4. Missing = {}
    <2> SUFFICES ASSUME Missing # {} PROVE FALSE
      OBVIOUS
    <2>1. PICK n \in Missing : \A m \in Missing : n <= m
      <3>1. Missing \in SUBSET Nat
        OBVIOUS
      <3> HIDE DEF Missing
      <3> QED
        BY <3>1, LeastNatural
    <2>2. CASE n = 0
      <3>1. IsSumOver([s \in Sized(0) |-> 0], f, Sized(0))
        <4> HIDE DEF Sized
        <4> QED
          BY <1>3 DEF IsSumOver
      <3> QED
        BY <2>1, <2>2, <3>1
    <2>3. CASE n # 0
      <3>1. n \in Nat /\ n - 1 \in Nat /\ n > 0 /\ n - 1 \notin Missing
        <4>1. n \in Nat
          OBVIOUS
        <4> HIDE DEF Missing
        <4> QED
          BY <2>1, <2>3, <4>1
      <3>2. PICK F : IsSumOver(F, f, Sized(n - 1))
        BY <3>1
      <3> DEFINE G == [s \in Sized(n) |->
                          IF s = {} THEN 0 ELSE f[Pick(s)] + F[s \ {Pick(s)}]]
      <3>3. \A s \in Sized(n - 1) : s \in Sized(n)
        BY <1>1, <3>1
      <3>4. \A s \in Sized(n) : s # {} => s \ {Pick(s)} \in Sized(n - 1)
        BY <1>2, <3>1
      <3> HIDE DEF Sized
      <3>5. \A s \in Sized(n - 1) : G[s] = F[s]
        BY <3>2, <3>3 DEF IsSumOver
      <3>6. \A s \in Sized(n) : s # {} => G[s \ {Pick(s)}] = F[s \ {Pick(s)}]
        BY <3>4, <3>5
      <3>7. IsSumOver(G, f, Sized(n))
        BY <3>6 DEF IsSumOver
      <3> QED
        BY <2>1, <3>7
    <2> QED
      BY <2>2, <2>3
  <1>5. Cardinality(S) \in Nat
    BY FS_CardinalityType
  <1>6. SUBSET S = Sized(Cardinality(S))
    BY FS_Subset
  <1>7. PICK F : IsSumOver(F, f, Sized(Cardinality(S)))
    BY <1>4, <1>5
  <1> QED
    <2> HIDE DEF Sized
    <2> QED
      BY <1>6, <1>7

(* The function of a sum, unfolded once.                                   *)
Unfolds(F, f, S) ==
    \A s \in SUBSET S :
        s # {} => Pick(s) \in s /\ F[s] = f[Pick(s)] + F[s \ {Pick(s)}]

LEMMA SumUnfolds ==
    ASSUME NEW S, NEW f, NEW F, IsSumOver(F, f, SUBSET S)
    PROVE  F[{}] = 0 /\ Unfolds(F, f, S)
  <1>1. \A s \in SUBSET S :
           F[s] = IF s = {} THEN 0 ELSE f[Pick(s)] + F[s \ {Pick(s)}]
    BY DEF IsSumOver
  <1> QED
    BY <1>1, PickFacts DEF Unfolds

Integral(F, S) == \A s \in SUBSET S : F[s] \in Int

LEMMA SumType ==
    ASSUME NEW S, IsFiniteSet(S), NEW f, \A x \in S : f[x] \in Int,
           NEW F, IsSumOver(F, f, SUBSET S)
    PROVE  Integral(F, S)
  <1> DEFINE Bad == {s \in SUBSET S : F[s] \notin Int}
  <1> SUFFICES ASSUME Bad # {} PROVE FALSE
    BY DEF Integral
  <1>1. PICK t \in Bad : \A u \in Bad : u \subseteq t => u = t
    <2>1. Bad \in SUBSET (SUBSET S)
      OBVIOUS
    <2> HIDE DEF Bad
    <2> QED
      BY <2>1, MinimalSet
  <1>2. t \in SUBSET S /\ F[t] \notin Int
    OBVIOUS
  <1>3. F[{}] = 0 /\ Unfolds(F, f, S)
    BY SumUnfolds
  <1>4. ASSUME t = {} PROVE FALSE
    <2>1. F[t] = 0
      BY <1>3, <1>4
    <2> QED
      BY <1>2, <2>1
  <1>5. Pick(t) \in t /\ F[t] = f[Pick(t)] + F[t \ {Pick(t)}]
    BY <1>2, <1>3, <1>4 DEF Unfolds
  <1>6. t \ {Pick(t)} \notin Bad
    <2> HIDE DEF Bad
    <2> QED
      BY <1>1, <1>5
  <1>7. F[t \ {Pick(t)}] \in Int
    BY <1>6
  <1> QED
    BY <1>2, <1>5, <1>7

(* The order in which a sum takes its terms does not matter.               *)
TakesAny(F, f, S) == \A s \in SUBSET S : \A x \in s : F[s] = f[x] + F[s \ {x}]

LEMMA SumTakes ==
    ASSUME NEW S, IsFiniteSet(S), NEW f, \A x \in S : f[x] \in Int,
           NEW F, IsSumOver(F, f, SUBSET S)
    PROVE  TakesAny(F, f, S)
  <1> DEFINE Bad == {s \in SUBSET S : ~\A x \in s : F[s] = f[x] + F[s \ {x}]}
  <1> SUFFICES ASSUME Bad # {} PROVE FALSE
    BY DEF TakesAny
  <1>1. PICK t \in Bad : \A u \in Bad : u \subseteq t => u = t
    <2>1. Bad \in SUBSET (SUBSET S)
      OBVIOUS
    <2> HIDE DEF Bad
    <2> QED
      BY <2>1, MinimalSet
  <1>2. PICK x \in t : F[t] # f[x] + F[t \ {x}]
    OBVIOUS
  <1>3. t \in SUBSET S /\ t # {}
    BY <1>2
  <1>4. PICK c \in t : F[t] = f[c] + F[t \ {c}]
    <2>1. Unfolds(F, f, S)
      BY SumUnfolds
    <2>2. Pick(t) \in t /\ F[t] = f[Pick(t)] + F[t \ {Pick(t)}]
      BY <1>3, <2>1 DEF Unfolds
    <2> QED
      BY <2>2
  <1>5. c # x /\ t \ {c} \notin Bad /\ t \ {x} \notin Bad
    <2> HIDE DEF Bad
    <2> QED
      BY <1>1, <1>2, <1>4
  <1>6. /\ F[t \ {c}] = f[x] + F[(t \ {c}) \ {x}]
        /\ F[t \ {x}] = f[c] + F[(t \ {x}) \ {c}]
    BY <1>3, <1>5
  <1>7. (t \ {c}) \ {x} = (t \ {x}) \ {c} /\ (t \ {x}) \ {c} \in SUBSET S
    OBVIOUS
  <1>8. f[c] \in Int /\ f[x] \in Int /\ F[(t \ {x}) \ {c}] \in Int
    <2>1. Integral(F, S)
      BY SumType
    <2>2. c \in S /\ x \in S
      BY <1>3
    <2> QED
      BY <1>7, <2>1, <2>2 DEF Integral
  <1>9. F[t] = f[x] + F[t \ {x}]
    <2> HIDE DEF Bad
    <2>1. F[t] = f[c] + (f[x] + F[(t \ {x}) \ {c}])
      BY <1>4, <1>6, <1>7
    <2> QED
      BY <1>6, <1>8, <2>1
  <1> QED
    BY <1>2, <1>9

(* Two sums agree on a set on which their terms do.                        *)
Agree(f, F, S, g, G, T, A) ==
    /\ IsFiniteSet(A) /\ A \subseteq S /\ A \subseteq T
    /\ \A x \in A : f[x] = g[x]
    /\ IsSumOver(F, f, SUBSET S) /\ IsSumOver(G, g, SUBSET T)

LEMMA SumAgrees ==
    ASSUME NEW S, NEW T, NEW A, NEW f, NEW F, NEW g, NEW G, Agree(f, F, S, g, G, T, A)
    PROVE  F[A] = G[A]
  <1> DEFINE Bad == {s \in SUBSET A : F[s] # G[s]}
  <1> SUFFICES ASSUME Bad # {} PROVE FALSE
    OBVIOUS
  <1>1. PICK t \in Bad : \A u \in Bad : u \subseteq t => u = t
    <2>1. Bad \in SUBSET (SUBSET A) /\ IsFiniteSet(A)
      BY DEF Agree
    <2> HIDE DEF Bad
    <2> QED
      BY <2>1, MinimalSet
  <1>2. t \in SUBSET S /\ t \in SUBSET T /\ t \in SUBSET A /\ F[t] # G[t]
    BY DEF Agree
  <1>3. /\ F[{}] = 0 /\ Unfolds(F, f, S)
        /\ G[{}] = 0 /\ Unfolds(G, g, T)
    BY SumUnfolds DEF Agree
  <1>4. t # {}
    BY <1>2, <1>3
  <1>5. /\ Pick(t) \in t
        /\ F[t] = f[Pick(t)] + F[t \ {Pick(t)}]
        /\ G[t] = g[Pick(t)] + G[t \ {Pick(t)}]
    BY <1>2, <1>3, <1>4 DEF Unfolds
  <1>6. t \ {Pick(t)} \notin Bad
    <2> HIDE DEF Bad
    <2> QED
      BY <1>1, <1>5
  <1>7. F[t \ {Pick(t)}] = G[t \ {Pick(t)}]
    BY <1>2, <1>6
  <1>8. f[Pick(t)] = g[Pick(t)]
    BY <1>2, <1>5 DEF Agree
  <1> QED
    BY <1>2, <1>5, <1>7, <1>8

(* The terms f, a function with a finite domain, add up to v.              *)
Terms(f) == IsFiniteSet(DOMAIN f) /\ \A x \in DOMAIN f : f[x] \in Int

AddsUp(f, v) == \E F : IsSumOver(F, f, SUBSET DOMAIN f) /\ v = F[DOMAIN f]

LEMMA SumOfNothing ==
    ASSUME NEW f, DOMAIN f = {}, NEW v, AddsUp(f, v)
    PROVE  v = 0
  BY SumUnfolds DEF AddsUp

LEMMA SumIsUnique ==
    ASSUME NEW f, Terms(f), NEW v, AddsUp(f, v), NEW w, AddsUp(f, w)
    PROVE  v = w
  <1> DEFINE S == DOMAIN f
  <1>1. PICK F : IsSumOver(F, f, SUBSET S) /\ v = F[S]
    BY DEF AddsUp
  <1>2. PICK G : IsSumOver(G, f, SUBSET S) /\ w = G[S]
    BY DEF AddsUp
  <1>3. Agree(f, F, S, f, G, S, S)
    BY <1>1, <1>2 DEF Terms, Agree
  <1>4. F[S] = G[S]
    <2> HIDE DEF S
    <2> QED
      BY <1>3, SumAgrees
  <1> QED
    BY <1>1, <1>2, <1>4

(* One term is new, or changes.                                            *)
LEMMA SumChanges ==
    ASSUME NEW f, Terms(f), NEW v, AddsUp(f, v),
           NEW g, Terms(g), NEW w, AddsUp(g, w),
           NEW x, DOMAIN g = DOMAIN f \cup {x},
           \A y \in DOMAIN f \ {x} : g[y] = f[y]
    PROVE  /\ v \in Int
           /\ w = v + g[x] - (IF x \in DOMAIN f THEN f[x] ELSE 0)
  <1> DEFINE S == DOMAIN f
             T == DOMAIN g
             A == S \ {x}
  <1>1. PICK F : IsSumOver(F, f, SUBSET S) /\ v = F[S]
    BY DEF AddsUp
  <1>2. PICK G : IsSumOver(G, g, SUBSET T) /\ w = G[T]
    BY DEF AddsUp
  <1>3. F[A] = G[A]
    <2>1. IsFiniteSet(A)
      BY FS_Subset DEF Terms
    <2>2. Agree(f, F, S, g, G, T, A)
      BY <1>1, <1>2, <2>1 DEF Agree
    <2> HIDE DEF A, S, T
    <2> QED
      BY <2>2, SumAgrees
  <1>4. TakesAny(F, f, S) /\ TakesAny(G, g, T) /\ Integral(F, S)
    BY <1>1, <1>2, SumTakes, SumType DEF Terms
  <1>5. w = g[x] + G[A]
    <2>1. T \ {x} = A /\ x \in T
      OBVIOUS
    <2>2. G[T] = g[x] + G[T \ {x}]
      BY <1>4, <2>1 DEF TakesAny
    <2> HIDE DEF A, S, T
    <2> QED
      BY <1>2, <2>1, <2>2
  <1>6. v = F[A] + (IF x \in S THEN f[x] ELSE 0) /\ F[A] \in Int /\ v \in Int
    <2>1. F[A] \in Int /\ F[S] \in Int
      BY <1>4 DEF Integral
    <2>2. CASE x \in S
      <3>1. F[S] = f[x] + F[A]
        BY <1>4, <2>2 DEF TakesAny
      <3>2. f[x] \in Int
        BY <2>2 DEF Terms
      <3> HIDE DEF A
      <3> QED
        BY <1>1, <2>1, <2>2, <3>1, <3>2
    <2>3. CASE x \notin S
      <3>1. A = S
        BY <2>3
      <3> QED
        BY <1>1, <2>1, <2>3, <3>1
    <2> QED
      BY <2>2, <2>3
  <1>7. g[x] \in Int /\ (x \in S => f[x] \in Int)
    BY DEF Terms
  <1> HIDE DEF A
  <1> QED
    BY <1>3, <1>5, <1>6, <1>7

-----------------------------------------------------------------------------
(* The sums over arrivals that BucketOf takes, for any sequence of fills,  *)
(* so that the sums before and after a fill can be compared.               *)
NotionalIn(s, I) == MapThenSumSet(LAMBDA i : Notional(s[i]), I)
SignedIn(s, I) == MapThenSumSet(LAMBDA i : SignedNotional(s[i]), I)

Notionals(s, I) == [i \in I |-> Notional(s[i])]
Signeds(s, I) == [i \in I |-> SignedNotional(s[i])]

LEMMA ArrivalFacts ==
    ASSUME NEW s \in Seq(Fills), NEW I \in SUBSET DOMAIN s
    PROVE  IsFiniteSet(I) /\ \A i \in I : s[i] \in Fills
  <1>1. DOMAIN s = 1..Len(s) /\ Len(s) \in Nat
    BY LenProperties
  <1>2. IsFiniteSet(DOMAIN s)
    BY <1>1, FS_Interval
  <1>3. \A i \in DOMAIN s : s[i] \in Fills
    BY ElementOfSeq, <1>1
  <1> QED
    BY <1>2, <1>3, FS_Subset

(* What the two folds evaluate.                                            *)
LEMMA SumsIn ==
    ASSUME NEW s \in Seq(Fills), NEW I \in SUBSET DOMAIN s
    PROVE  /\ Terms(Notionals(s, I)) /\ AddsUp(Notionals(s, I), NotionalIn(s, I))
           /\ Terms(Signeds(s, I)) /\ AddsUp(Signeds(s, I), SignedIn(s, I))
  <1>1. IsFiniteSet(I) /\ \A i \in I : s[i] \in Fills
    BY ArrivalFacts
  <1>2. Terms(Notionals(s, I)) /\ Terms(Signeds(s, I))
    BY <1>1, FillFacts DEF Terms, Notionals, Signeds
  <1>3. AddsUp(Notionals(s, I), NotionalIn(s, I))
    <2> DEFINE f == Notionals(s, I)
               IsFold(F) == F = [t \in SUBSET I |-> IF t = {} THEN 0
                                   ELSE Notional(s[Pick(t)]) + F[t \ {Pick(t)}]]
               F0 == CHOOSE it : IsFold(it)
    <2>1. NotionalIn(s, I) = F0[I]
      BY DEF NotionalIn, MapThenSumSet, MapThenFoldSet, Pick
    <2>2. \A t \in SUBSET I : t # {} => f[Pick(t)] = Notional(s[Pick(t)])
      BY PickFacts DEF Notionals
    <2>3. \A F : IsSumOver(F, f, SUBSET I) <=> IsFold(F)
      BY <2>2 DEF IsSumOver
    <2>4. \E F : IsFold(F)
      BY <1>1, <2>3, SumExists
    <2>5. IsSumOver(F0, f, SUBSET I)
      <3> HIDE DEF IsFold
      <3> QED
        BY <2>3, <2>4
    <2> QED
      BY <2>1, <2>5 DEF AddsUp, Notionals
  <1>4. AddsUp(Signeds(s, I), SignedIn(s, I))
    <2> DEFINE f == Signeds(s, I)
               IsFold(F) == F = [t \in SUBSET I |-> IF t = {} THEN 0
                                   ELSE SignedNotional(s[Pick(t)]) + F[t \ {Pick(t)}]]
               F0 == CHOOSE it : IsFold(it)
    <2>1. SignedIn(s, I) = F0[I]
      BY DEF SignedIn, MapThenSumSet, MapThenFoldSet, Pick
    <2>2. \A t \in SUBSET I : t # {} => f[Pick(t)] = SignedNotional(s[Pick(t)])
      BY PickFacts DEF Signeds
    <2>3. \A F : IsSumOver(F, f, SUBSET I) <=> IsFold(F)
      BY <2>2 DEF IsSumOver
    <2>4. \E F : IsFold(F)
      BY <1>1, <2>3, SumExists
    <2>5. IsSumOver(F0, f, SUBSET I)
      <3> HIDE DEF IsFold
      <3> QED
        BY <2>3, <2>4
    <2> QED
      BY <2>1, <2>5 DEF AddsUp, Signeds
  <1> QED
    BY <1>2, <1>3, <1>4

(* One arrival more. *)
LEMMA SumsGain ==
    ASSUME NEW s \in Seq(Fills), NEW f \in Fills, NEW I \in SUBSET DOMAIN s
    PROVE  LET s2 == Append(s, f)
               n == Len(s) + 1
           IN  /\ NotionalIn(s, I) \in Int /\ SignedIn(s, I) \in Int
               /\ NotionalIn(s2, I) = NotionalIn(s, I)
               /\ NotionalIn(s2, I \cup {n}) = NotionalIn(s, I) + Notional(f)
               /\ SignedIn(s2, I) = SignedIn(s, I)
               /\ SignedIn(s2, I \cup {n}) = SignedIn(s, I) + SignedNotional(f)
  <1> DEFINE s2 == Append(s, f)
             n == Len(s) + 1
             J == I \cup {n}
  <1>1. /\ s2 \in Seq(Fills) /\ DOMAIN s = 1..Len(s) /\ DOMAIN s2 = 1..n /\ Len(s) \in Nat
        /\ \A i \in DOMAIN s : s2[i] = s[i]
        /\ s2[n] = f
    BY AppendProperties, LenProperties
  <1>2. I \in SUBSET DOMAIN s2 /\ J \in SUBSET DOMAIN s2 /\ n \notin I
    BY <1>1
  <1> HIDE DEF s2, n
  <1>3. /\ Terms(Notionals(s, I)) /\ AddsUp(Notionals(s, I), NotionalIn(s, I))
        /\ Terms(Signeds(s, I)) /\ AddsUp(Signeds(s, I), SignedIn(s, I))
        /\ AddsUp(Notionals(s2, I), NotionalIn(s2, I))
        /\ AddsUp(Signeds(s2, I), SignedIn(s2, I))
        /\ Terms(Notionals(s2, J)) /\ AddsUp(Notionals(s2, J), NotionalIn(s2, J))
        /\ Terms(Signeds(s2, J)) /\ AddsUp(Signeds(s2, J), SignedIn(s2, J))
    <2> HIDE DEF J
    <2> QED
      BY <1>1, <1>2, SumsIn
  <1>4. Notionals(s2, I) = Notionals(s, I) /\ Signeds(s2, I) = Signeds(s, I)
    BY <1>1 DEF Notionals, Signeds
  <1>5. NotionalIn(s2, I) = NotionalIn(s, I) /\ SignedIn(s2, I) = SignedIn(s, I)
    BY <1>3, <1>4, SumIsUnique
  <1>6. /\ DOMAIN Notionals(s, I) = I /\ DOMAIN Signeds(s, I) = I
        /\ DOMAIN Notionals(s2, J) = J /\ DOMAIN Signeds(s2, J) = J
        /\ Notionals(s2, J)[n] = Notional(f) /\ Signeds(s2, J)[n] = SignedNotional(f)
        /\ \A i \in I : /\ Notionals(s2, J)[i] = Notionals(s, I)[i]
                        /\ Signeds(s2, J)[i] = Signeds(s, I)[i]
    BY <1>1, <1>2 DEF Notionals, Signeds
  <1>7. /\ NotionalIn(s, I) \in Int
        /\ NotionalIn(s2, J) = NotionalIn(s, I) + Notional(f)
    <2> DEFINE g == Notionals(s, I)
               h == Notionals(s2, J)
    <2>1. /\ Terms(g) /\ AddsUp(g, NotionalIn(s, I)) /\ Terms(h) /\ AddsUp(h, NotionalIn(s2, J))
          /\ n \notin DOMAIN g /\ DOMAIN h = DOMAIN g \cup {n} /\ h[n] = Notional(f)
          /\ \A y \in DOMAIN g : h[y] = g[y]
      BY <1>2, <1>3, <1>6
    <2>2. Notional(f) \in Int
      BY FillFacts
    <2> HIDE DEF g, h
    <2>3. /\ NotionalIn(s, I) \in Int
          /\ NotionalIn(s2, J) = NotionalIn(s, I) + h[n] - (IF n \in DOMAIN g THEN g[n] ELSE 0)
      BY <2>1, SumChanges
    <2> QED
      BY <2>1, <2>2, <2>3
  <1>8. /\ SignedIn(s, I) \in Int
        /\ SignedIn(s2, J) = SignedIn(s, I) + SignedNotional(f)
    <2> DEFINE g == Signeds(s, I)
               h == Signeds(s2, J)
    <2>1. /\ Terms(g) /\ AddsUp(g, SignedIn(s, I)) /\ Terms(h) /\ AddsUp(h, SignedIn(s2, J))
          /\ n \notin DOMAIN g /\ DOMAIN h = DOMAIN g \cup {n} /\ h[n] = SignedNotional(f)
          /\ \A y \in DOMAIN g : h[y] = g[y]
      BY <1>2, <1>3, <1>6
    <2>2. SignedNotional(f) \in Int
      BY FillFacts
    <2> HIDE DEF g, h
    <2>3. /\ SignedIn(s, I) \in Int
          /\ SignedIn(s2, J) = SignedIn(s, I) + h[n] - (IF n \in DOMAIN g THEN g[n] ELSE 0)
      BY <2>1, SumChanges
    <2> QED
      BY <2>1, <2>2, <2>3
  <1> QED
    BY <1>5, <1>7, <1>8 DEF s2, n

LEMMA SumsOfNone ==
    ASSUME NEW s \in Seq(Fills)
    PROVE  NotionalIn(s, {}) = 0 /\ SignedIn(s, {}) = 0
  <1>1. /\ AddsUp(Notionals(s, {}), NotionalIn(s, {}))
        /\ AddsUp(Signeds(s, {}), SignedIn(s, {}))
    BY SumsIn
  <1>2. DOMAIN Notionals(s, {}) = {} /\ DOMAIN Signeds(s, {}) = {}
    BY DEF Notionals, Signeds
  <1> QED
    BY <1>1, <1>2, SumOfNothing

-----------------------------------------------------------------------------
(* BucketOf for any sequence of fills: what a bucket that starts at ts     *)
(* holds if it got exactly the arrivals I. It is built by AddFill, one     *)
(* arrival at a time.                                                      *)
AddrsIn(s, I) == {s[i].addr : i \in I}
ByAddr(s, I, a) == {i \in I : s[i].addr = a}
TakersIn(s, I, buy) == {i \in I : s[i].crossed /\ s[i].buy = buy}

BucketIn(s, ts, I) ==
    [bucket_ts |-> ts,
     volume |-> NotionalIn(s, I),
     taker_buy |-> NotionalIn(s, TakersIn(s, I, TRUE)),
     taker_sell |-> NotionalIn(s, TakersIn(s, I, FALSE)),
     wallet_flow |-> [a \in AddrsIn(s, I) |-> SignedIn(s, ByAddr(s, I, a))]]

LEMMA BucketInFacts ==
    ASSUME applied \in Seq(Fills), NEW ts, NEW I \in SUBSET DOMAIN applied
    PROVE  BucketOf(ts, I) = BucketIn(applied, ts, I)
  <1>1. \A a : I \cap ArrivalsOf(a) = ByAddr(applied, I, a)
    BY DEF ArrivalsOf, ByAddr
  <1>2. \A J : Total(Notional, J) = NotionalIn(applied, J)
    BY DEF Total, NotionalIn
  <1>3. \A J : Total(SignedNotional, J) = SignedIn(applied, J)
    BY DEF Total, SignedIn
  <1> QED
    BY <1>1, <1>2, <1>3 DEF BucketOf, BucketIn, AddrsIn, TakersIn

LEMMA BucketOfNone ==
    ASSUME NEW s \in Seq(Fills), NEW ts
    PROVE  BucketIn(s, ts, {}) = NewBucket(ts)
  <1>1. /\ AddrsIn(s, {}) = {}
        /\ \A buy : TakersIn(s, {}, buy) = {}
    BY DEF AddrsIn, TakersIn
  <1>2. [a \in AddrsIn(s, {}) |-> SignedIn(s, ByAddr(s, {}, a))] = <<>>
    BY <1>1
  <1> QED
    BY <1>1, <1>2, SumsOfNone DEF BucketIn, NewBucket

(* A fill that falls elsewhere changes nothing; one of this bucket is what *)
(* AddFill adds.                                                           *)
LEMMA BucketGains ==
    ASSUME NEW s \in Seq(Fills), NEW f \in Fills, NEW I \in SUBSET DOMAIN s, NEW ts
    PROVE  LET s2 == Append(s, f)
               n == Len(s) + 1
           IN  /\ BucketIn(s2, ts, I) = BucketIn(s, ts, I)
               /\ BucketIn(s2, ts, I \cup {n}) = AddFill(BucketIn(s, ts, I), f)
  <1> DEFINE s2 == Append(s, f)
             n == Len(s) + 1
             J == I \cup {n}
  <1>1. /\ s2 \in Seq(Fills) /\ DOMAIN s = 1..Len(s) /\ Len(s) \in Nat
        /\ \A i \in DOMAIN s : s2[i] = s[i]
        /\ s2[n] = f
        /\ n \notin I
    BY AppendProperties, LenProperties
  <1>2. \A K \in SUBSET DOMAIN s :
           /\ NotionalIn(s, K) \in Int /\ SignedIn(s, K) \in Int
           /\ NotionalIn(s2, K) = NotionalIn(s, K)
           /\ NotionalIn(s2, K \cup {n}) = NotionalIn(s, K) + Notional(f)
           /\ SignedIn(s2, K) = SignedIn(s, K)
           /\ SignedIn(s2, K \cup {n}) = SignedIn(s, K) + SignedNotional(f)
    BY SumsGain
  <1>3. SignedIn(s, {}) = 0 /\ {} \in SUBSET DOMAIN s
    BY SumsOfNone
  <1> HIDE DEF s2, n
  <1>4. /\ AddrsIn(s2, I) = AddrsIn(s, I)
        /\ AddrsIn(s2, J) = AddrsIn(s, I) \cup {f.addr}
    BY <1>1 DEF AddrsIn
  <1>5. \A a : /\ ByAddr(s, I, a) \in SUBSET DOMAIN s
               /\ ByAddr(s2, I, a) = ByAddr(s, I, a)
               /\ a # f.addr => ByAddr(s2, J, a) = ByAddr(s, I, a)
               /\ a = f.addr => ByAddr(s2, J, a) = ByAddr(s, I, a) \cup {n}
               /\ a \notin AddrsIn(s, I) => ByAddr(s, I, a) = {}
    BY <1>1 DEF ByAddr, AddrsIn
  <1>6. \A buy : /\ TakersIn(s, I, buy) \in SUBSET DOMAIN s
                 /\ TakersIn(s2, I, buy) = TakersIn(s, I, buy)
                 /\ TakersIn(s2, J, buy) = IF f.crossed /\ f.buy = buy
                                           THEN TakersIn(s, I, buy) \cup {n}
                                           ELSE TakersIn(s, I, buy)
    BY <1>1 DEF TakersIn
  <1>7. BucketIn(s2, ts, I) = BucketIn(s, ts, I)
    <2>1. \A a : SignedIn(s2, ByAddr(s2, I, a)) = SignedIn(s, ByAddr(s, I, a))
      BY <1>2, <1>5
    <2>2. \A buy : NotionalIn(s2, TakersIn(s2, I, buy)) = NotionalIn(s, TakersIn(s, I, buy))
      BY <1>2, <1>6
    <2>3. NotionalIn(s2, I) = NotionalIn(s, I)
      BY <1>2
    <2> QED
      BY <1>4, <2>1, <2>2, <2>3 DEF BucketIn
  <1>8. BucketIn(s2, ts, J) = AddFill(BucketIn(s, ts, I), f)
    <2> DEFINE flows == [a \in AddrsIn(s, I) |-> SignedIn(s, ByAddr(s, I, a))]
               flows2 == [a \in AddrsIn(s2, J) |-> SignedIn(s2, ByAddr(s2, J, a))]
    <2>1. NotionalIn(s2, J) = NotionalIn(s, I) + Notional(f)
      BY <1>2
    <2>2. /\ TakerBuy(f) = IF f.crossed /\ f.buy = TRUE THEN Notional(f) ELSE 0
          /\ TakerSell(f) = IF f.crossed /\ f.buy = FALSE THEN Notional(f) ELSE 0
      <3>1. f.buy \in BOOLEAN
        BY FillsAssumption
      <3>2. f.buy <=> f.buy = TRUE
        BY <3>1, Zenon
      <3>3. ~f.buy <=> f.buy = FALSE
        BY <3>1, Zenon
      <3> QED
        BY <3>2, <3>3, Zenon DEF TakerBuy, TakerSell
    <2>3. NotionalIn(s2, TakersIn(s2, J, TRUE))
            = NotionalIn(s, TakersIn(s, I, TRUE)) + TakerBuy(f)
      <3>1. CASE f.crossed /\ f.buy = TRUE
        BY <1>2, <1>6, <2>2, <3>1
      <3>2. CASE ~(f.crossed /\ f.buy = TRUE)
        <4>1. TakersIn(s2, J, TRUE) = TakersIn(s, I, TRUE) /\ TakerBuy(f) = 0
          BY <1>6, <2>2, <3>2
        <4>2. /\ NotionalIn(s, TakersIn(s, I, TRUE)) \in Int
              /\ NotionalIn(s2, TakersIn(s, I, TRUE)) = NotionalIn(s, TakersIn(s, I, TRUE))
          BY <1>2, <1>6
        <4>3. NotionalIn(s2, TakersIn(s2, J, TRUE)) = NotionalIn(s, TakersIn(s, I, TRUE))
          BY <4>1, <4>2, Zenon
        <4>4. \A p, q, r : p = q /\ q \in Int /\ r = 0 => p = q + r
          OBVIOUS
        <4> QED
          BY <4>1, <4>2, <4>3, <4>4, Zenon
      <3> QED
        BY <3>1, <3>2
    <2>4. NotionalIn(s2, TakersIn(s2, J, FALSE))
            = NotionalIn(s, TakersIn(s, I, FALSE)) + TakerSell(f)
      <3>1. CASE f.crossed /\ f.buy = FALSE
        BY <1>2, <1>6, <2>2, <3>1
      <3>2. CASE ~(f.crossed /\ f.buy = FALSE)
        <4>1. TakersIn(s2, J, FALSE) = TakersIn(s, I, FALSE) /\ TakerSell(f) = 0
          BY <1>6, <2>2, <3>2
        <4>2. /\ NotionalIn(s, TakersIn(s, I, FALSE)) \in Int
              /\ NotionalIn(s2, TakersIn(s, I, FALSE)) = NotionalIn(s, TakersIn(s, I, FALSE))
          BY <1>2, <1>6
        <4>3. NotionalIn(s2, TakersIn(s2, J, FALSE)) = NotionalIn(s, TakersIn(s, I, FALSE))
          BY <4>1, <4>2, Zenon
        <4>4. \A p, q, r : p = q /\ q \in Int /\ r = 0 => p = q + r
          OBVIOUS
        <4> QED
          BY <4>1, <4>2, <4>3, <4>4, Zenon
      <3> QED
        BY <3>1, <3>2
    <2>5. DOMAIN flows2 = DOMAIN flows \cup {f.addr}
      BY <1>4
    <2>6. ASSUME NEW a \in DOMAIN flows2
          PROVE  flows2[a] = IF a = f.addr THEN Flow(flows, a) + SignedNotional(f)
                             ELSE flows[a]
      <3>1. flows2[a] = SignedIn(s2, ByAddr(s2, J, a))
        OBVIOUS
      <3>2. a \in DOMAIN flows => flows[a] = SignedIn(s, ByAddr(s, I, a))
        OBVIOUS
      <3>3. Flow(flows, a) = SignedIn(s, ByAddr(s, I, a))
        BY <1>3, <1>5, <3>2 DEF Flow
      <3>4. a # f.addr => a \in DOMAIN flows
        BY <2>5
      <3> QED
        BY <1>2, <1>5, <3>1, <3>2, <3>3, <3>4
    <2>7. flows2 = AddFlow(flows, f)
      BY <2>5, <2>6 DEF AddFlow
    <2> QED
      BY <2>1, <2>3, <2>4, <2>7 DEF BucketIn, AddFill
  <1> QED
    BY <1>7, <1>8 DEF s2, n

LEMMA BucketStays ==
    ASSUME NEW s \in Seq(Fills), NEW f \in Fills, NEW I \in SUBSET DOMAIN s, NEW ts
    PROVE  BucketIn(Append(s, f), ts, I) = BucketIn(s, ts, I)
  <1>1. LET s2 == Append(s, f)
        IN  /\ BucketIn(s2, ts, I) = BucketIn(s, ts, I)
            /\ BucketIn(s2, ts, I \cup {Len(s) + 1}) = AddFill(BucketIn(s, ts, I), f)
    BY BucketGains
  <1> QED
    BY <1>1

-----------------------------------------------------------------------------
(* An open bucket is exact. By the key's own arithmetic a bucket is named  *)
(* by its floor: the arrivals it should hold are those of its coin with    *)
(* that floor, and none has a later floor than the open bucket.            *)
Held(s, k, ts) == {i \in DOMAIN s : s[i].coin = k[1] /\ BucketTs(s[i], k[2]) = ts}

NoneAhead(k) ==
    IF k \in DOMAIN open
    THEN \A i \in ArrivalsOn(k[1]) : BucketTs(applied[i], k[2]) <= open[k].bucket_ts
    ELSE ArrivalsOn(k[1]) = {}

HoldsAll(k) ==
    k \in DOMAIN open =>
        LET I == Held(applied, k, open[k].bucket_ts)
        IN  I # {} /\ open[k] = BucketIn(applied, open[k].bucket_ts, I)

ExactInv ==
    /\ applied \in Seq(Fills)
    /\ \A k \in Keys : NoneAhead(k) /\ HoldsAll(k)

LEMMA FloorOfBucket ==
    ASSUME NEW ms \in Nat, NEW t \in Nat, NEW w \in Windows
    PROVE  LET ts == Floor(t, w)
           IN  Floor(ms \div 1000, w) = ts
                 <=> ts * 1000 <= ms /\ ms < (ts + Size(w)) * 1000
  BY DEF Floor, Size, Windows

(* In the model's words: by times, not by floors.                          *)
LEMMA HeldIsInBucket ==
    ASSUME applied \in Seq(Fills), NEW k \in Keys, NEW t \in Nat
    PROVE  InBucket(k, Floor(t, k[2])) = Held(applied, k, Floor(t, k[2]))
  <1>1. PICK c \in Coins, w \in Windows : k = <<c, w>>
    BY DEF Keys
  <1>2. \A i \in DOMAIN applied : applied[i] \in Fills /\ applied[i].ms \in Nat
    BY ArrivalFacts, FillsAssumption
  <1>3. \A i \in DOMAIN applied :
           BucketTs(applied[i], w) = Floor(t, w)
             <=> /\ Floor(t, w) * 1000 <= applied[i].ms
                 /\ applied[i].ms < (Floor(t, w) + Size(w)) * 1000
    BY <1>2, FloorOfBucket DEF BucketTs, Floor
  <1> QED
    BY <1>1, <1>3 DEF InBucket, Held, ArrivalsOn

(* What one fill adds to the arrivals of a bucket.                         *)
LEMMA HeldGains ==
    ASSUME NEW s \in Seq(Fills), NEW f \in Fills, NEW k \in Keys, NEW ts
    PROVE  LET s2 == Append(s, f)
               n == Len(s) + 1
           IN  /\ Held(s, k, ts) \in SUBSET DOMAIN s
               /\ Held(s2, k, ts) = IF f.coin = k[1] /\ BucketTs(f, k[2]) = ts
                                    THEN Held(s, k, ts) \cup {n}
                                    ELSE Held(s, k, ts)
  <1> DEFINE s2 == Append(s, f)
             n == Len(s) + 1
  <1>1. /\ s2 \in Seq(Fills) /\ DOMAIN s = 1..Len(s) /\ DOMAIN s2 = 1..n /\ Len(s) \in Nat
        /\ \A i \in DOMAIN s : s2[i] = s[i]
        /\ s2[n] = f
    BY AppendProperties, LenProperties
  <1>2. DOMAIN s2 = DOMAIN s \cup {n} /\ n \notin DOMAIN s
    BY <1>1
  <1> HIDE DEF s2, n
  <1>3. CASE f.coin = k[1] /\ BucketTs(f, k[2]) = ts
    <2>1. Held(s2, k, ts) = Held(s, k, ts) \cup {n}
      BY <1>1, <1>2, <1>3 DEF Held
    <2> QED
      BY <1>3, <2>1 DEF Held, s2, n
  <1>4. CASE ~(f.coin = k[1] /\ BucketTs(f, k[2]) = ts)
    <2>1. Held(s2, k, ts) = Held(s, k, ts)
      BY <1>1, <1>2, <1>4 DEF Held
    <2> QED
      BY <1>4, <2>1 DEF Held, s2, n
  <1> QED
    BY <1>3, <1>4

LEMMA ExactInvInit == Init => ExactInv
  <1> SUFFICES ASSUME Init PROVE ExactInv
    OBVIOUS
  <1>1. applied = <<>> /\ open = <<>>
    BY DEF Init, WindowsInit
  <1>2. applied \in Seq(Fills) /\ DOMAIN applied = {} /\ DOMAIN open = {}
    BY <1>1
  <1> QED
    BY <1>2 DEF ExactInv, NoneAhead, HoldsAll, ArrivalsOn

LEMMA ExactStep ==
    ASSUME ExactInv, WindowsTypeOK, NEW f \in Fills, applied' = Append(applied, f),
           NEW weight, UpdateWindows(f, weight)
    PROVE  ExactInv'
  <1> DEFINE n == Len(applied) + 1
  <1>1. /\ applied \in Seq(Fills) /\ applied' \in Seq(Fills)
        /\ DOMAIN applied' = DOMAIN applied \cup {n}
        /\ \A i \in DOMAIN applied : applied'[i] = applied[i]
        /\ applied'[n] = f
    <2>1. applied \in Seq(Fills)
      BY DEF ExactInv
    <2> QED
      BY <2>1, AppendProperties, LenProperties
  <1> HIDE DEF n
  <1>2. WindowsTypeOK' /\ \A k \in DOMAIN open' : k \in Keys /\ open'[k] = BucketAfter(f, k)
    BY UpdateType DEF WindowsTypeOK
  <1>3. ASSUME NEW k \in Keys, k[1] # f.coin
        PROVE  NoneAhead(k)' /\ HoldsAll(k)'
    <2>1. k \in DOMAIN open' <=> k \in DOMAIN open
      <3>1. DOMAIN open' = DOMAIN open \cup ({f.coin} \X Windows)
        BY UpdateType
      <3>2. k \notin {f.coin} \X Windows
        BY <1>3
      <3> QED
        BY <3>1, <3>2
    <2>2. k \in DOMAIN open => open'[k] = open[k]
      BY <1>3, UpdateType
    <2>3. ArrivalsOn(k[1])' = ArrivalsOn(k[1])
      BY <1>1, <1>3 DEF ArrivalsOn
    <2>4. NoneAhead(k) /\ HoldsAll(k)
      BY DEF ExactInv
    <2>5. NoneAhead(k)'
      <3>1. \A i \in ArrivalsOn(k[1]) : applied'[i] = applied[i]
        BY <1>1 DEF ArrivalsOn
      <3> QED
        BY <2>1, <2>2, <2>3, <2>4, <3>1 DEF NoneAhead
    <2>6. HoldsAll(k)'
      <3> SUFFICES ASSUME k \in DOMAIN open
                   PROVE  LET I == Held(applied', k, open'[k].bucket_ts)
                          IN  I # {} /\ open'[k] = BucketIn(applied', open'[k].bucket_ts, I)
        BY <2>1 DEF HoldsAll
      <3> DEFINE ts == open[k].bucket_ts
                 I == Held(applied, k, ts)
      <3>1. I # {} /\ open[k] = BucketIn(applied, ts, I)
        BY <2>4 DEF HoldsAll
      <3>2. Held(applied', k, ts) = I /\ I \in SUBSET DOMAIN applied
        BY <1>1, <1>3, HeldGains
      <3>3. BucketIn(applied', ts, I) = BucketIn(applied, ts, I)
        <4>1. I \in SUBSET DOMAIN applied
          BY <3>2
        <4> HIDE DEF I, ts
        <4>2. BucketIn(Append(applied, f), ts, I) = BucketIn(applied, ts, I)
          BY <1>1, <4>1, BucketStays
        <4> QED
          BY <4>2
      <3> QED
        BY <2>2, <3>1, <3>2, <3>3
    <2> QED
      BY <2>5, <2>6
  <1>4. ASSUME NEW k \in Keys, k[1] = f.coin
        PROVE  NoneAhead(k)' /\ HoldsAll(k)'
    <2>1. PICK w \in Windows : k = <<f.coin, w>>
      BY <1>4 DEF Keys
    <2> DEFINE ts == BucketTs(f, w)
               old == open[k].bucket_ts
    <2>2. k \in DOMAIN open' /\ open'[k] = BucketAfter(f, k) /\ k[2] = w
      BY <2>1, UpdateType
    <2>3. ts \in Nat
      BY FillFacts, FloorFacts
    <2>4. k \in DOMAIN open => old \in Nat
      BY DEF WindowsTypeOK, IsBucket
    <2>5. NoneAhead(k) /\ HoldsAll(k)
      BY DEF ExactInv
    <2>6. ArrivalsOn(k[1])' = ArrivalsOn(k[1]) \cup {n}
      BY <1>1, <1>4 DEF ArrivalsOn
    <2>7. \A i \in ArrivalsOn(k[1]) : applied'[i] = applied[i]
      BY <1>1 DEF ArrivalsOn
    <2>8. \A i \in ArrivalsOn(k[1]) : applied[i] \in Fills /\ BucketTs(applied[i], w) \in Nat
      <3>1. \A i \in DOMAIN applied : applied[i] \in Fills
        BY <1>1, ArrivalFacts
      <3>2. \A g \in Fills : BucketTs(g, w) \in Nat
        BY FillFacts, FloorFacts
      <3> QED
        BY <3>1, <3>2 DEF ArrivalsOn
    <2>9. \A u : /\ Held(applied, k, u) \in SUBSET DOMAIN applied
                 /\ Held(applied', k, u) = IF ts = u THEN Held(applied, k, u) \cup {n}
                                           ELSE Held(applied, k, u)
      BY <1>1, <1>4, <2>2, HeldGains DEF n
    (* The bucket is the one the fill opens.                               *)
    <2>10. CASE k \notin DOMAIN open \/ ts > old
      <3>1. open'[k] = AddFill(NewBucket(ts), f)
        BY <2>1, <2>2, <2>10, BucketAfterFacts
      <3>2. open'[k].bucket_ts = ts
        BY <3>1 DEF AddFill, NewBucket
      <3>3. Held(applied, k, ts) = {}
        BY <2>2, <2>4, <2>5, <2>8, <2>10 DEF NoneAhead, Held, ArrivalsOn
      <3>4. Held(applied', k, ts) = {} \cup {n}
        BY <2>9, <3>3
      <3>5. BucketIn(applied', ts, {} \cup {n}) = AddFill(BucketIn(applied, ts, {}), f)
        BY <1>1, BucketGains DEF n
      <3>6. HoldsAll(k)'
        BY <1>1, <3>1, <3>2, <3>4, <3>5, BucketOfNone DEF HoldsAll
      <3>7. NoneAhead(k)'
        <4>1. \A i \in ArrivalsOn(k[1]) : BucketTs(applied[i], w) <= ts
          BY <2>2, <2>3, <2>4, <2>5, <2>8, <2>10 DEF NoneAhead
        <4>2. \A i \in ArrivalsOn(k[1])' : BucketTs(applied'[i], w) <= ts
          <5> SUFFICES ASSUME NEW i \in ArrivalsOn(k[1])'
                       PROVE  BucketTs(applied'[i], w) <= ts
            OBVIOUS
          <5>1. CASE i = n
            BY <1>1, <2>3, <5>1
          <5>2. CASE i \in ArrivalsOn(k[1])
            BY <2>7, <4>1, <5>2
          <5> QED
            BY <2>6, <5>1, <5>2
        <4> QED
          BY <2>2, <3>2, <4>2 DEF NoneAhead
      <3> QED
        BY <3>6, <3>7
    (* The fill is added to it.                                            *)
    <2>11. CASE k \in DOMAIN open /\ ts = old
      <3> DEFINE I == Held(applied, k, ts)
      <3>1. open'[k] = AddFill(open[k], f)
        BY <2>1, <2>2, <2>11, BucketAfterFacts
      <3>2. open'[k].bucket_ts = ts
        BY <2>11, <3>1 DEF AddFill
      <3>3. open[k] = BucketIn(applied, ts, I)
        BY <2>5, <2>11 DEF HoldsAll
      <3>4. Held(applied', k, ts) = I \cup {n} /\ I \in SUBSET DOMAIN applied
        BY <2>9
      <3>5. BucketIn(applied', ts, I \cup {n}) = AddFill(BucketIn(applied, ts, I), f)
        <4> HIDE DEF I, ts
        <4> QED
          BY <1>1, <3>4, BucketGains DEF n
      <3>6. HoldsAll(k)'
        <4> HIDE DEF I
        <4> QED
          BY <3>1, <3>2, <3>3, <3>4, <3>5 DEF HoldsAll
      <3>7. NoneAhead(k)'
        <4>1. \A i \in ArrivalsOn(k[1]) : BucketTs(applied[i], w) <= ts
          BY <2>2, <2>5, <2>11 DEF NoneAhead
        <4>2. \A i \in ArrivalsOn(k[1])' : BucketTs(applied'[i], w) <= ts
          <5> SUFFICES ASSUME NEW i \in ArrivalsOn(k[1])'
                       PROVE  BucketTs(applied'[i], w) <= ts
            OBVIOUS
          <5>1. CASE i = n
            BY <1>1, <2>3, <5>1
          <5>2. CASE i \in ArrivalsOn(k[1])
            BY <2>7, <4>1, <5>2
          <5> QED
            BY <2>6, <5>1, <5>2
        <4> QED
          BY <2>2, <3>2, <4>2 DEF NoneAhead
      <3> QED
        BY <3>6, <3>7
    (* The fill is late.                                                   *)
    <2>12. CASE k \in DOMAIN open /\ ts < old
      <3> DEFINE I == Held(applied, k, old)
      <3>1. open'[k] = open[k]
        BY <2>1, <2>2, <2>12, BucketAfterFacts
      <3>2. I # {} /\ open[k] = BucketIn(applied, old, I)
        BY <2>5, <2>12 DEF HoldsAll
      <3>3. Held(applied', k, old) = I /\ I \in SUBSET DOMAIN applied
        BY <2>3, <2>4, <2>9, <2>12
      <3>4. BucketIn(applied', old, I) = BucketIn(applied, old, I)
        <4>1. I \in SUBSET DOMAIN applied
          BY <3>3
        <4> HIDE DEF I, old
        <4>2. BucketIn(Append(applied, f), old, I) = BucketIn(applied, old, I)
          BY <1>1, <4>1, BucketStays
        <4> QED
          BY <4>2
      <3>5. HoldsAll(k)'
        <4> HIDE DEF I
        <4> QED
          BY <3>1, <3>2, <3>3, <3>4 DEF HoldsAll
      <3>6. NoneAhead(k)'
        <4>1. \A i \in ArrivalsOn(k[1]) : BucketTs(applied[i], w) <= old
          BY <2>2, <2>5, <2>12 DEF NoneAhead
        <4>2. ts <= old
          BY <2>3, <2>4, <2>12
        <4> HIDE DEF old
        <4>3. \A i \in ArrivalsOn(k[1])' : BucketTs(applied'[i], w) <= old
          BY <1>1, <2>6, <2>7, <4>1, <4>2
        <4> QED
          BY <2>2, <3>1, <4>3 DEF NoneAhead, old
      <3> QED
        BY <3>5, <3>6
    <2> QED
      BY <2>3, <2>4, <2>10, <2>11, <2>12
  <1> QED
    BY <1>1, <1>3, <1>4 DEF ExactInv

-----------------------------------------------------------------------------
(* Closed rows. A row is the snapshot of a bucket; only its smart flow     *)
(* depends on the wallets it was taken with.                               *)
SmartSum(b, weight) == SumOver(DOMAIN b.wallet_flow, LAMBDA a : b.wallet_flow[a] * weight[a])

IsRow(row) ==
    row = [bucket_ts |-> row.bucket_ts, volume |-> row.volume,
           taker_buy |-> row.taker_buy, taker_sell |-> row.taker_sell,
           imbalance |-> row.imbalance, active_wallets |-> row.active_wallets,
           hhi |-> row.hhi, large_flow |-> row.large_flow, smart_flow |-> row.smart_flow]

LEMMA SnapshotParts ==
    ASSUME NEW b, NEW weight, NEW weight2, SmartSum(b, weight2) = 0
    PROVE  [Snapshot(b, weight) EXCEPT !.smart_flow = 0] = Snapshot(b, weight2)
  <1> DEFINE row == Snapshot(b, weight)
             row2 == Snapshot(b, weight2)
  <1>1. IsRow(row) /\ IsRow(row2)
    BY DEF Snapshot, IsRow
  <1>2. row2.smart_flow = 0
    BY DEF Snapshot, SmartSum
  <1>3. /\ row.bucket_ts = row2.bucket_ts /\ row.volume = row2.volume
        /\ row.taker_buy = row2.taker_buy /\ row.taker_sell = row2.taker_sell
        /\ row.imbalance = row2.imbalance /\ row.active_wallets = row2.active_wallets
    BY DEF Snapshot
  <1>4. row.hhi = row2.hhi
    BY DEF Snapshot
  <1>5. row.large_flow = row2.large_flow
    BY DEF Snapshot
  <1> HIDE DEF row, row2
  <1>6. [row EXCEPT !.smart_flow = 0] = row2
    BY <1>1, <1>2, <1>3, <1>4, <1>5 DEF IsRow
  <1> QED
    BY <1>6 DEF row, row2

LEMMA SmartSumOfNothing ==
    ASSUME NEW b, IsBucket(b), IsFiniteSet(DOMAIN b.wallet_flow)
    PROVE  SmartSum(b, NoWeights) = 0
  <1> DEFINE flows == b.wallet_flow
             I == DOMAIN flows
             f == [a \in I |-> flows[a] * NoWeights[a]]
             IsFold(F) == F = [t \in SUBSET I |-> IF t = {} THEN 0
                                 ELSE flows[Pick(t)] * NoWeights[Pick(t)] + F[t \ {Pick(t)}]]
             F0 == CHOOSE it : IsFold(it)
  <1>1. SmartSum(b, NoWeights) = F0[I]
    BY DEF SmartSum, SumOver, MapThenSumSet, MapThenFoldSet, Pick
  <1>2. I \subseteq Addrs /\ \A a \in I : flows[a] \in Int
    BY DEF IsBucket, IsFlows
  <1>3. \A a \in I : f[a] = 0
    BY <1>2 DEF NoWeights
  <1>4. \A t \in SUBSET I : t # {} => f[Pick(t)] = flows[Pick(t)] * NoWeights[Pick(t)]
    BY PickFacts
  <1> HIDE DEF f
  <1>5. DOMAIN f = I
    BY DEF f
  <1>6. \A F : IsSumOver(F, f, SUBSET I) <=> IsFold(F)
    BY <1>4 DEF IsSumOver
  <1>7. IsSumOver(F0, f, SUBSET I)
    <2>1. \E F : IsFold(F)
      BY <1>6, SumExists
    <2> HIDE DEF IsFold, I
    <2> QED
      BY <1>6, <2>1
  <1>8. IsSumOver([t \in SUBSET I |-> 0], f, SUBSET I)
    BY <1>3, PickFacts DEF IsSumOver
  <1>9. AddsUp(f, F0[I]) /\ AddsUp(f, 0) /\ Terms(f)
    <2>1. AddsUp(f, F0[I])
      <3> HIDE DEF F0, I
      <3> QED
        BY <1>5, <1>7 DEF AddsUp
    <2>2. AddsUp(f, 0)
      BY <1>5, <1>8 DEF AddsUp
    <2> QED
      BY <1>3, <1>5, <2>1, <2>2 DEF Terms
  <1> HIDE DEF F0
  <1> QED
    BY <1>1, <1>9, SumIsUnique

(* In a stream in time order a fill is never late, so a closed row stays   *)
(* the aggregate of its whole interval, and an arrival that is not in the  *)
(* open bucket is in one that was closed.                                  *)
RowExact(k, row) ==
    /\ \E t \in Nat : row.bucket_ts = Floor(t, k[2])
    /\ [row EXCEPT !.smart_flow = 0]
         = Snapshot(BucketIn(applied, row.bucket_ts, Held(applied, k, row.bucket_ts)), NoWeights)

RowsOf(k) == {closed[k][j] : j \in DOMAIN closed[k]}

Placed(k, i) ==
    \/ BucketTs(applied[i], k[2]) = open[k].bucket_ts
    \/ \E j \in DOMAIN closed[k] : BucketTs(applied[i], k[2]) = closed[k][j].bucket_ts

NothingLost(k) ==
    k \in DOMAIN open =>
        /\ \A row \in RowsOf(k) : RowExact(k, row)
        /\ \A i \in ArrivalsOn(k[1]) : Placed(k, i)

OrderedInv == InOrder => \A k \in Keys : NothingLost(k)

(* What UpdateWindows does to the rows of a key.                           *)
LEMMA ClosedGains ==
    ASSUME NEW f \in Fills, NEW weight, UpdateWindows(f, weight),
           NEW k \in Keys, RowsInv(k)
    PROVE  /\ ~Closes(f, k) => closed'[k] = closed[k]
           /\ Closes(f, k) =>
                \E m \in Nat : /\ m \notin DOMAIN closed[k]
                               /\ DOMAIN closed'[k] = DOMAIN closed[k] \cup {m}
                               /\ \A j \in DOMAIN closed[k] : closed'[k][j] = closed[k][j]
                               /\ closed'[k][m] = Snapshot(open[k], weight)
  <1>1. ~Closes(f, k) => closed'[k] = closed[k]
    BY DEF UpdateWindows
  <1>2. ASSUME Closes(f, k)
        PROVE  \E m \in Nat : /\ m \notin DOMAIN closed[k]
                              /\ DOMAIN closed'[k] = DOMAIN closed[k] \cup {m}
                              /\ \A j \in DOMAIN closed[k] : closed'[k][j] = closed[k][j]
                              /\ closed'[k][m] = Snapshot(open[k], weight)
    <2> DEFINE row == Snapshot(open[k], weight)
               old == closed[k]
               m == Len(old)
    <2>1. closed'[k] = Append(old, row)
      BY <1>2 DEF UpdateWindows
    <2>2. PICK Rows : old \in Seq(Rows)
      BY DEF RowsInv
    <2> DEFINE Rows2 == Rows \cup {row}
    <2>3. old \in Seq(Rows2)
      BY <2>2, SeqMonotonic
    <2> HIDE DEF row
    <2>4. /\ Append(old, row) \in Seq(Rows2)
          /\ Len(Append(old, row)) = m + 1
          /\ \A i \in 1..m : Append(old, row)[i] = old[i]
          /\ Append(old, row)[m + 1] = row
      BY <2>3, AppendProperties
    <2>5. m \in Nat /\ DOMAIN old = 1..m /\ DOMAIN closed'[k] = 1..(m + 1)
      BY <2>1, <2>3, <2>4, LenProperties
    <2>6. DOMAIN closed'[k] = DOMAIN old \cup {m + 1} /\ m + 1 \notin DOMAIN old
      BY <2>5
    <2> HIDE DEF m
    <2> QED
      BY <2>1, <2>4, <2>5, <2>6 DEF row
  <1> QED
    BY <1>1, <1>2

(* A row whose interval the fill is not in stays exact.                    *)
LEMMA RowStaysExact ==
    ASSUME applied \in Seq(Fills), NEW f \in Fills, applied' = Append(applied, f),
           NEW k \in Keys, NEW row, RowExact(k, row),
           ~(f.coin = k[1] /\ BucketTs(f, k[2]) = row.bucket_ts)
    PROVE  RowExact(k, row)'
  <1> DEFINE ts == row.bucket_ts
             I == Held(applied, k, ts)
  <1>1. Held(applied', k, ts) = I /\ I \in SUBSET DOMAIN applied
    BY HeldGains
  <1>2. BucketIn(applied', ts, I) = BucketIn(applied, ts, I)
    <2>1. I \in SUBSET DOMAIN applied
      BY <1>1
    <2> HIDE DEF I, ts
    <2>2. BucketIn(Append(applied, f), ts, I) = BucketIn(applied, ts, I)
      BY <2>1, BucketStays
    <2> QED
      BY <2>2
  <1> QED
    BY <1>1, <1>2 DEF RowExact

(* The row a bucket leaves when a later fill closes it.                    *)
LEMMA NewRowIsExact ==
    ASSUME ExactInv, WindowsTypeOK, NEW f \in Fills, applied' = Append(applied, f),
           NEW k \in Keys, k \in DOMAIN open, BucketTs(f, k[2]) # open[k].bucket_ts,
           NEW t \in Nat, open[k].bucket_ts = Floor(t, k[2]),
           NEW weight, NEW row, row = Snapshot(open[k], weight)
    PROVE  RowExact(k, row)'
  <1> DEFINE ts == open[k].bucket_ts
             I == Held(applied, k, ts)
  <1>1. applied \in Seq(Fills) /\ open[k] = BucketIn(applied, ts, I)
    BY DEF ExactInv, HoldsAll
  <1>2. Held(applied', k, ts) = I /\ I \in SUBSET DOMAIN applied
    BY <1>1, HeldGains
  <1>3. BucketIn(applied', ts, I) = open[k]
    <2>1. I \in SUBSET DOMAIN applied
      BY <1>2
    <2> HIDE DEF I, ts
    <2>2. BucketIn(Append(applied, f), ts, I) = BucketIn(applied, ts, I)
      BY <1>1, <2>1, BucketStays
    <2> QED
      BY <1>1, <2>2
  <1>4. IsBucket(open[k])
    BY DEF WindowsTypeOK
  <1>5. IsFiniteSet(DOMAIN open[k].wallet_flow)
    <2>1. open[k].wallet_flow
            = [a \in AddrsIn(applied, I) |-> SignedIn(applied, ByAddr(applied, I, a))]
      <3> HIDE DEF I, ts
      <3> QED
        BY <1>1 DEF BucketIn
    <2>2. DOMAIN open[k].wallet_flow = AddrsIn(applied, I)
      <3> HIDE DEF I
      <3> QED
        BY <2>1
    <2>3. IsFiniteSet(I)
      BY <1>1, <1>2, ArrivalFacts
    <2>4. IsFiniteSet(AddrsIn(applied, I))
      <3> HIDE DEF I
      <3>1. [i \in I |-> applied[i].addr] \in Surjection(I, AddrsIn(applied, I))
        BY DEF AddrsIn, Surjection
      <3> QED
        BY <2>3, <3>1, FS_Surjection
    <2> QED
      BY <2>2, <2>4
  <1>6. [row EXCEPT !.smart_flow = 0] = Snapshot(open[k], NoWeights)
    BY <1>4, <1>5, SmartSumOfNothing, SnapshotParts
  <1>7. row.bucket_ts = ts
    BY DEF Snapshot
  <1> HIDE DEF I
  <1> QED
    BY <1>2, <1>3, <1>6, <1>7 DEF RowExact

(* A fill that comes in order is in no bucket behind the open one.         *)
LEMMA OrderedNotLate ==
    ASSUME ExactInv, WindowsInv, NEW f \in Fills, applied' = Append(applied, f), InOrder',
           NEW w \in Windows, <<f.coin, w>> \in DOMAIN open
    PROVE  /\ BucketTs(f, w) \in Nat
           /\ open[<<f.coin, w>>].bucket_ts \in Nat
           /\ open[<<f.coin, w>>].bucket_ts <= BucketTs(f, w)
  <1> DEFINE k == <<f.coin, w>>
             old == open[k].bucket_ts
  <1>1. k \in Keys /\ k[2] = w
    BY FillFacts DEF Keys
  <1>2. PICK i \in DOMAIN applied : BucketTs(applied[i], w) = old
    BY <1>1 DEF ExactInv, HoldsAll, Held
  <1>3. applied \in Seq(Fills)
    BY DEF ExactInv
  <1>4. applied[i] \in Fills
    BY <1>3, ArrivalFacts
  <1>5. applied[i].ms <= f.ms
    <2>1. /\ DOMAIN applied' = 1..(Len(applied) + 1) /\ i \in 1..Len(applied)
          /\ Len(applied) \in Nat
          /\ applied'[i] = applied[i] /\ applied'[Len(applied) + 1] = f
      BY <1>3, AppendProperties, LenProperties
    <2>2. i \in DOMAIN applied' /\ Len(applied) + 1 \in DOMAIN applied' /\ i < Len(applied) + 1
      BY <2>1
    <2>3. applied'[i].ms <= applied'[Len(applied) + 1].ms
      BY <2>2 DEF InOrder
    <2> QED
      BY <2>1, <2>3
  <1>6. applied[i].ms \in Nat /\ f.ms \in Nat
    BY <1>4, FillsAssumption
  <1>7. Second(applied[i]) <= Second(f) /\ Second(applied[i]) \in Nat /\ Second(f) \in Nat
    BY <1>5, <1>6 DEF Second
  <1>8. /\ BucketTs(f, w) = Floor(Second(f), w)
        /\ old = Floor(Second(applied[i]), w)
    BY <1>2, <1>4, FillFacts
  <1> QED
    BY <1>7, <1>8, FloorMonotone, FloorFacts

LEMMA OrderedPrefix ==
    ASSUME applied \in Seq(Fills), NEW f \in Fills, applied' = Append(applied, f), InOrder'
    PROVE  InOrder
  <1>1. /\ DOMAIN applied \subseteq DOMAIN applied'
        /\ \A i \in DOMAIN applied : applied'[i] = applied[i]
    BY AppendProperties, LenProperties
  <1> QED
    BY <1>1 DEF InOrder

LEMMA OrderedStep ==
    ASSUME OrderedInv, ExactInv, WindowsInv, AllRows,
           NEW f \in Fills, applied' = Append(applied, f),
           NEW weight, UpdateWindows(f, weight)
    PROVE  OrderedInv'
  <1> SUFFICES ASSUME InOrder', NEW k \in Keys, k \in DOMAIN open'
               PROVE  /\ \A row \in RowsOf(k)' : RowExact(k, row)'
                      /\ \A i \in ArrivalsOn(k[1])' : Placed(k, i)'
    BY DEF OrderedInv, NothingLost
  <1> DEFINE n == Len(applied) + 1
  <1>1. /\ applied \in Seq(Fills) /\ applied' \in Seq(Fills)
        /\ DOMAIN applied' = DOMAIN applied \cup {n}
        /\ \A i \in DOMAIN applied : applied'[i] = applied[i]
        /\ applied'[n] = f
    <2>1. applied \in Seq(Fills)
      BY DEF ExactInv
    <2> QED
      BY <2>1, AppendProperties, LenProperties
  <1> HIDE DEF n
  <1>2. NothingLost(k) /\ RowsInv(k) /\ NoneAhead(k) /\ WindowsTypeOK
    BY <1>1, OrderedPrefix DEF OrderedInv, AllRows, ExactInv, WindowsInv
  <1>3. \A i \in ArrivalsOn(k[1])' :
           \/ i \in ArrivalsOn(k[1]) /\ applied'[i] = applied[i]
           \/ i = n /\ k[1] = f.coin
    BY <1>1 DEF ArrivalsOn
  <1>4. CASE k[1] # f.coin
    <2>1. k \in DOMAIN open /\ open'[k] = open[k]
      <3>1. DOMAIN open' = DOMAIN open \cup ({f.coin} \X Windows)
        BY <1>2, UpdateType
      <3>2. k \notin {f.coin} \X Windows
        BY <1>4
      <3>3. k \in DOMAIN open
        BY <3>1, <3>2
      <3> QED
        BY <1>2, <1>4, <3>3, UpdateType
    <2>2. closed'[k] = closed[k]
      BY <1>2, <1>4, ClosedGains DEF Closes
    <2>3. \A row : RowExact(k, row) => RowExact(k, row)'
      BY <1>1, <1>4, RowStaysExact
    <2>4. \A row \in RowsOf(k)' : RowExact(k, row)'
      <3>1. RowsOf(k)' = RowsOf(k)
        BY <2>2 DEF RowsOf
      <3> QED
        BY <1>2, <2>1, <2>3, <3>1 DEF NothingLost
    <2>5. \A i \in ArrivalsOn(k[1])' : Placed(k, i)'
      BY <1>2, <1>3, <1>4, <2>1, <2>2 DEF NothingLost, Placed
    <2> QED
      BY <2>4, <2>5
  <1>5. CASE k[1] = f.coin
    <2>1. PICK w \in Windows : k = <<f.coin, w>>
      BY <1>5 DEF Keys
    <2> DEFINE ts == BucketTs(f, w)
               old == open[k].bucket_ts
    <2>2. /\ k \notin DOMAIN open \/ ts > old => open'[k].bucket_ts = ts
          /\ k \in DOMAIN open /\ ts = old => open'[k].bucket_ts = ts
      <3>1. open'[k] = BucketAfter(f, k)
        BY <1>2, UpdateType
      <3>2. /\ AddFill(NewBucket(ts), f).bucket_ts = ts
            /\ AddFill(open[k], f).bucket_ts = old
        BY DEF AddFill, NewBucket
      <3> QED
        BY <1>2, <2>1, <3>1, <3>2, BucketAfterFacts
    <2>3. k \in DOMAIN open => ts \in Nat /\ old \in Nat /\ old <= ts
      BY <2>1, OrderedNotLate
    <2>4. open'[k].bucket_ts = ts
      BY <2>2, <2>3
    <2>5. k[2] = w
      BY <2>1
    <2> HIDE DEF ts, old
    <2>6. CASE k \notin DOMAIN open
      <3>1. RowsOf(k)' = {}
        <4>1. closed'[k] = closed[k] /\ DOMAIN closed[k] = {}
          BY <1>2, <2>6, ClosedGains DEF Closes, RowsInv, Older
        <4> QED
          BY <4>1 DEF RowsOf
      <3>2. ArrivalsOn(k[1]) = {}
        BY <1>2, <2>6 DEF NoneAhead
      <3>3. \A i \in ArrivalsOn(k[1])' : Placed(k, i)'
        BY <1>1, <1>3, <2>4, <2>5, <3>2 DEF Placed, ts
      <3> QED
        BY <3>1, <3>3
    <2>7. CASE k \in DOMAIN open
      <3>1. \A row \in RowsOf(k) : /\ RowExact(k, row)
                                    /\ row.bucket_ts \in Nat
                                    /\ row.bucket_ts < old
        BY <1>2, <2>7 DEF NothingLost, RowsInv, RowsOf, Older, old
      <3>2. \A row \in RowsOf(k) : RowExact(k, row)'
        <4> SUFFICES ASSUME NEW row \in RowsOf(k)
                     PROVE  RowExact(k, row)'
          OBVIOUS
        <4>1. RowExact(k, row) /\ row.bucket_ts \in Nat /\ row.bucket_ts < old
          BY <3>1
        <4>2. BucketTs(f, k[2]) # row.bucket_ts
          BY <2>3, <2>5, <2>7, <4>1 DEF ts
        <4> QED
          BY <1>1, <4>1, <4>2, RowStaysExact
      <3>3. CASE ts = old
        <4>1. closed'[k] = closed[k]
          BY <1>2, <2>3, <2>5, <2>7, <3>3, ClosedGains DEF Closes, StartsBucket, ts, old
        <4>2. \A row \in RowsOf(k)' : RowExact(k, row)'
          <5>1. RowsOf(k)' = RowsOf(k)
            BY <4>1 DEF RowsOf
          <5> QED
            BY <3>2, <5>1
        <4>3. \A i \in ArrivalsOn(k[1])' : Placed(k, i)'
          <5> SUFFICES ASSUME NEW i \in ArrivalsOn(k[1])' PROVE Placed(k, i)'
            OBVIOUS
          <5>1. CASE i = n
            BY <1>1, <2>4, <2>5, <5>1 DEF Placed, ts
          <5>2. CASE i \in ArrivalsOn(k[1]) /\ applied'[i] = applied[i]
            BY <1>2, <2>4, <2>7, <3>3, <4>1, <5>2 DEF NothingLost, Placed, old
          <5> QED
            BY <1>3, <5>1, <5>2
        <4> QED
          BY <4>2, <4>3
      <3>4. CASE ts # old
        <4>1. Closes(f, k)
          BY <1>5, <2>3, <2>5, <2>7, <3>4 DEF Closes, StartsBucket, ts, old
        <4>2. PICK m \in Nat : /\ DOMAIN closed'[k] = DOMAIN closed[k] \cup {m}
                               /\ \A j \in DOMAIN closed[k] : closed'[k][j] = closed[k][j]
                               /\ closed'[k][m] = Snapshot(open[k], weight)
          BY <1>2, <4>1, ClosedGains
        <4>3. \A row : row = Snapshot(open[k], weight) => RowExact(k, row)'
          <5>1. PICK t \in Nat : old = Floor(t, w)
            BY <2>1, <2>7 DEF WindowsInv, CoinInv, FloorsOf, Bucket, Keys, old
          <5> QED
            BY <1>2, <2>5, <2>7, <3>4, <5>1, NewRowIsExact DEF ts, old
        <4>4. \A row \in RowsOf(k)' : RowExact(k, row)'
          <5> SUFFICES ASSUME NEW row \in RowsOf(k)'
                       PROVE  RowExact(k, row)'
            OBVIOUS
          <5>1. row \in RowsOf(k) \/ row = Snapshot(open[k], weight)
            BY <4>2 DEF RowsOf
          <5> QED
            BY <3>2, <4>3, <5>1
        <4>5. closed'[k][m].bucket_ts = old
          <5>1. Snapshot(open[k], weight).bucket_ts = old
            BY DEF Snapshot, old
          <5> QED
            BY <4>2, <5>1
        <4>6. \A i \in ArrivalsOn(k[1])' : Placed(k, i)'
          <5> SUFFICES ASSUME NEW i \in ArrivalsOn(k[1])' PROVE Placed(k, i)'
            OBVIOUS
          <5>1. CASE i = n
            BY <1>1, <2>4, <2>5, <5>1 DEF Placed, ts
          <5>2. CASE i \in ArrivalsOn(k[1]) /\ applied'[i] = applied[i]
            <6>1. Placed(k, i)
              BY <1>2, <2>7, <5>2 DEF NothingLost
            <6>2. \E j \in DOMAIN closed'[k] :
                     BucketTs(applied'[i], k[2]) = closed'[k][j].bucket_ts
              BY <4>2, <4>5, <5>2, <6>1 DEF Placed, old
            <6> QED
              BY <6>2 DEF Placed
          <5> QED
            BY <1>3, <5>1, <5>2
        <4> QED
          BY <4>4, <4>6
      <3> QED
        BY <3>3, <3>4
    <2> QED
      BY <2>6, <2>7
  <1> QED
    BY <1>4, <1>5

-----------------------------------------------------------------------------
(* The invariant of the windows, for updates with any weights.             *)
WindowsHold == WindowsInv /\ AllRows /\ ExactInv /\ OrderedInv

LEMMA WindowsHoldInit == Init => WindowsHold
  <1>1. Init => AllRows
    <2> SUFFICES ASSUME Init, NEW k \in Keys PROVE RowsInv(k)
      BY DEF AllRows
    <2>1. closed[k] = <<>>
      BY DEF Init, WindowsInit
    <2>2. closed[k] \in Seq({}) /\ DOMAIN closed[k] = {}
      BY <2>1
    <2> QED
      BY <2>2 DEF RowsInv, Older
  <1>2. Init => OrderedInv
    BY DEF Init, WindowsInit, OrderedInv, NothingLost
  <1> QED
    BY <1>1, <1>2, WindowsInvInit, ExactInvInit DEF WindowsHold

LEMMA WindowsHoldStep ==
    ASSUME WindowsHold, NEW f \in Fills, applied' = Append(applied, f),
           NEW weight, UpdateWindows(f, weight)
    PROVE  WindowsHold'
  <1>1. WindowsInv' /\ ExactInv' /\ OrderedInv'
    BY UpdateInv, ExactStep, OrderedStep DEF WindowsHold, WindowsInv
  <1>2. AllRows'
    BY RowsStep DEF WindowsHold, WindowsInv, AllRows
  <1> QED
    BY <1>1, <1>2 DEF WindowsHold

LEMMA WindowsHoldStutter ==
    ASSUME WindowsHold, UNCHANGED windowsVars
    PROVE  WindowsHold'
  <1>1. UNCHANGED <<applied, open, closed>>
    BY DEF windowsVars, windowVars
  <1>2. WindowsInv'
    BY <1>1 DEF WindowsHold, WindowsInv, WindowsTypeOK, CoinInv, FloorsOf, Within, Bucket
  <1>3. AllRows'
    BY <1>1 DEF WindowsHold, AllRows, RowsInv, Older
  <1>4. ExactInv'
    BY <1>1 DEF WindowsHold, ExactInv, NoneAhead, HoldsAll, ArrivalsOn
  <1>5. OrderedInv'
    BY <1>1 DEF WindowsHold, OrderedInv, NothingLost, RowsOf, RowExact, Placed, ArrivalsOn,
                InOrder
  <1> QED
    BY <1>2, <1>3, <1>4, <1>5 DEF WindowsHold

LEMMA WindowsInvariant == Spec => []WindowsHold
  <1>1. WindowsHold /\ [Next]_windowsVars => WindowsHold'
    <2> SUFFICES ASSUME WindowsHold, [Next]_windowsVars PROVE WindowsHold'
      OBVIOUS
    <2>1. ASSUME NEW f \in Fills, Update(f) PROVE WindowsHold'
      BY <2>1, WindowsHoldStep DEF Update, Arrive
    <2> QED
      BY <2>1, WindowsHoldStutter DEF Next
  <1> QED
    BY <1>1, WindowsHoldInit, PTL DEF Spec

-----------------------------------------------------------------------------
(* What the invariant says in the words of the model.                      *)
LEMMA NestedHolds ==
    ASSUME WindowsHold
    PROVE  WindowsNested
  <1> SUFFICES ASSUME NEW c \in Coins,
                      ~\A w \in Windows : <<c, w>> \notin DOMAIN open
               PROVE  /\ \A w \in Windows : <<c, w>> \in DOMAIN open
                      /\ Nested(open[<<c, "1m">>], open[<<c, "5m">>])
                      /\ Nested(open[<<c, "5m">>], open[<<c, "1h">>])
                      /\ Covers("5m", open[<<c, "5m">>], open[<<c, "1m">>])
                      /\ Covers("1h", open[<<c, "1h">>], open[<<c, "1m">>])
    BY DEF WindowsNested
  <1>1. /\ \A w \in Windows : <<c, w>> \in DOMAIN open
        /\ Within(open[<<c, "1m">>], open[<<c, "5m">>])
        /\ Within(open[<<c, "5m">>], open[<<c, "1h">>])
    BY DEF WindowsHold, WindowsInv, CoinInv, Bucket
  <1>2. PICK t \in Nat : \A w \in Windows : open[<<c, w>>].bucket_ts = Floor(t, w)
    BY DEF WindowsHold, WindowsInv, CoinInv, FloorsOf, Bucket
  <1>3. /\ Size("1m") = 60 /\ Size("5m") = 300 /\ Size("1h") = 3600
        /\ "1m" \in Windows /\ "5m" \in Windows /\ "1h" \in Windows
    BY DEF Size, Windows
  <1> QED
    BY <1>1, <1>2, <1>3, FloorFacts DEF Nested, Within, Covers

LEMMA ExactHolds ==
    ASSUME WindowsHold
    PROVE  OpenBucketsExact
  <1> SUFFICES ASSUME NEW k \in DOMAIN open
               PROVE  open[k] = BucketOf(open[k].bucket_ts,
                                         InBucket(k, open[k].bucket_ts))
    BY DEF OpenBucketsExact
  <1> DEFINE ts == open[k].bucket_ts
  <1>1. k \in Keys /\ applied \in Seq(Fills)
    BY DEF WindowsHold, WindowsInv, WindowsTypeOK, ExactInv
  <1>2. PICK c \in Coins, w \in Windows : k = <<c, w>>
    BY <1>1 DEF Keys
  <1>3. PICK t \in Nat : ts = Floor(t, w)
    BY <1>2 DEF WindowsHold, WindowsInv, CoinInv, FloorsOf, Bucket
  <1>4. InBucket(k, ts) = Held(applied, k, ts)
    BY <1>1, <1>2, <1>3, HeldIsInBucket
  <1>5. open[k] = BucketIn(applied, ts, Held(applied, k, ts))
    BY <1>1 DEF WindowsHold, ExactInv, HoldsAll
  <1>6. Held(applied, k, ts) \in SUBSET DOMAIN applied
    BY DEF Held
  <1> HIDE DEF ts
  <1>7. BucketOf(ts, Held(applied, k, ts)) = BucketIn(applied, ts, Held(applied, k, ts))
    BY <1>1, <1>6, BucketInFacts
  <1> QED
    BY <1>4, <1>5, <1>7 DEF ts

LEMMA OrderedHolds ==
    ASSUME WindowsHold
    PROVE  OrderedLosesNothing
  <1> SUFFICES ASSUME InOrder, NEW k \in DOMAIN open
               PROVE  /\ \A j \in DOMAIN closed[k] :
                            LET row == closed[k][j]
                                b == BucketOf(row.bucket_ts, InBucket(k, row.bucket_ts))
                            IN  [row EXCEPT !.smart_flow = 0] = Snapshot(b, NoWeights)
                      /\ \A i \in ArrivalsOn(k[1]) :
                            \/ i \in InBucket(k, open[k].bucket_ts)
                            \/ \E j \in DOMAIN closed[k] :
                                  i \in InBucket(k, closed[k][j].bucket_ts)
    BY DEF OrderedLosesNothing
  <1>1. k \in Keys /\ applied \in Seq(Fills) /\ NothingLost(k)
    BY DEF WindowsHold, WindowsInv, WindowsTypeOK, ExactInv, OrderedInv
  <1>2. PICK c \in Coins, w \in Windows : k = <<c, w>>
    BY <1>1 DEF Keys
  <1>3. \A j \in DOMAIN closed[k] :
           LET ts == closed[k][j].bucket_ts
           IN  InBucket(k, ts) = Held(applied, k, ts)
    BY <1>1, HeldIsInBucket DEF NothingLost, RowsOf, RowExact
  <1>4. InBucket(k, open[k].bucket_ts) = Held(applied, k, open[k].bucket_ts)
    <2>1. PICK t \in Nat : open[k].bucket_ts = Floor(t, w)
      BY <1>2 DEF WindowsHold, WindowsInv, CoinInv, FloorsOf, Bucket
    <2> QED
      BY <1>1, <1>2, <2>1, HeldIsInBucket
  <1>5. ASSUME NEW j \in DOMAIN closed[k]
        PROVE  LET row == closed[k][j]
                   b == BucketOf(row.bucket_ts, InBucket(k, row.bucket_ts))
               IN  [row EXCEPT !.smart_flow = 0] = Snapshot(b, NoWeights)
    <2> DEFINE row == closed[k][j]
               ts == row.bucket_ts
               I == Held(applied, k, ts)
    <2>1. [row EXCEPT !.smart_flow = 0] = Snapshot(BucketIn(applied, ts, I), NoWeights)
      BY <1>1 DEF NothingLost, RowsOf, RowExact
    <2>2. I \in SUBSET DOMAIN applied /\ InBucket(k, ts) = I
      BY <1>3 DEF Held
    <2>3. BucketOf(ts, I) = BucketIn(applied, ts, I)
      <3>1. I \in SUBSET DOMAIN applied
        BY <2>2
      <3> HIDE DEF I, ts
      <3> QED
        BY <1>1, <3>1, BucketInFacts
    <2>4. BucketOf(ts, InBucket(k, ts)) = BucketIn(applied, ts, I)
      <3> HIDE DEF I, ts
      <3> QED
        BY <2>2, <2>3
    <2> HIDE DEF I
    <2> QED
      BY <2>1, <2>4
  <1>6. ASSUME NEW i \in ArrivalsOn(k[1])
        PROVE  \/ i \in InBucket(k, open[k].bucket_ts)
               \/ \E j \in DOMAIN closed[k] : i \in InBucket(k, closed[k][j].bucket_ts)
    <2>1. Placed(k, i)
      BY <1>1 DEF NothingLost
    <2>2. \A ts : BucketTs(applied[i], k[2]) = ts => i \in Held(applied, k, ts)
      BY DEF Held, ArrivalsOn
    <2> QED
      BY <1>3, <1>4, <2>1, <2>2 DEF Placed
  <1> QED
    BY <1>5, <1>6

LEMMA OthersHold ==
    ASSUME WindowsHold
    PROVE  WindowsTypeOK /\ ClosedOnce
  BY DEF WindowsHold, WindowsInv, AllRows, ClosedOnce, RowsInv, Older

-----------------------------------------------------------------------------
(* Open buckets are well-formed for every set of fills and wallets.        *)
THEOREM WindowsTypeCorrect == Spec => []WindowsTypeOK
  BY OthersHold, WindowsInvariant, PTL

(* For fills in any order, the open minute lies in the open five minutes,  *)
(* and those in the open hour, in time, in volume and in wallets.          *)
THEOREM WindowsAreNested == Spec => []WindowsNested
  BY NestedHolds, WindowsInvariant, PTL

(* No fill, however late, moves an open bucket back in time or takes       *)
(* volume out of it.                                                       *)
THEOREM BucketsOnlyAdvance == Spec => BucketsAdvance
  <1>1. ASSUME WindowsHold, [Next]_windowsVars
        PROVE  [\A k \in Keys : BucketAdvances(k)]_windowsVars
    BY <1>1, UpdateAdvances DEF Next, Update, WindowsHold, WindowsInv
  <1> QED
    BY <1>1, WindowsInvariant, PTL DEF Spec, BucketsAdvance

(* Whatever the order of arrival, a bucket is closed once, in order, and   *)
(* before the one now open: its final row is written at most once.         *)
THEOREM BucketsCloseOnce == Spec => []ClosedOnce
  BY OthersHold, WindowsInvariant, PTL

(* For fills in any order, each open bucket holds the fills of its coin    *)
(* that fall in its interval, each once, and no others: a late fill is     *)
(* skipped only by the windows whose open bucket it is not in.             *)
THEOREM OpenBucketsAreExact == Spec => []OpenBucketsExact
  BY ExactHolds, WindowsInvariant, PTL

(* Of a stream in time order no fill is lost: closed rows are complete     *)
(* aggregates of their intervals, and with the open bucket they are all of *)
(* the buckets the coin's fills fall in.                                   *)
THEOREM OrderedStreamsLoseNothing == Spec => []OrderedLosesNothing
  BY OrderedHolds, WindowsInvariant, PTL

-----------------------------------------------------------------------------
(* Positions and wallets. Both dicts start empty and a fill puts one entry *)
(* into each, so a wallet's totals are sums of which one term is new, or   *)
(* changes. An unknown wallet counts as one that has nothing yet.          *)
PositionKeys(a) == {k \in DOMAIN wc : k[1] = a}

Counts(a) == [k \in PositionKeys(a) |-> wc[k].fill_count]
Pnls(a) == [k \in PositionKeys(a) |-> wc[k].realized_pnl]

WalletOf(a) == GetOr(wallets, a, NewWallet)

WalletIsSum(a) ==
    /\ AddsUp(Counts(a), WalletOf(a).total_fills)
    /\ AddsUp(Pnls(a), WalletOf(a).cum_realized_pnl)

WalletSane(a) ==
    LET w == wallets[a]
    IN  /\ w.opens + w.closes = w.total_fills
        /\ AbsVal(w.signed_volume) <= w.gross_volume
        /\ \E k \in PositionKeys(a) : wc[k].last_ts = w.last_ts

PositionsInv ==
    /\ PositionsTypeOK
    /\ DOMAIN wallets = {k[1] : k \in DOMAIN wc}
    /\ IsFiniteSet(DOMAIN wc)
    /\ \A a \in Addrs : WalletIsSum(a)
    /\ \A a \in DOMAIN wallets : WalletSane(a)

(* A sum of which one term is new, or changes.                             *)
Becomes(f, g, x) ==
    /\ DOMAIN g = DOMAIN f \cup {x}
    /\ \A y \in DOMAIN f \ {x} : g[y] = f[y]

LEMMA SumFollows ==
    ASSUME NEW f, Terms(f), NEW v, AddsUp(f, v),
           NEW g, Terms(g), NEW x, Becomes(f, g, x)
    PROVE  AddsUp(g, v + g[x] - (IF x \in DOMAIN f THEN f[x] ELSE 0))
  <1>1. PICK G : IsSumOver(G, g, SUBSET DOMAIN g)
    BY SumExists DEF Terms
  <1>2. AddsUp(g, G[DOMAIN g])
    BY <1>1 DEF AddsUp
  <1> DEFINE w == G[DOMAIN g]
  <1> HIDE DEF w
  <1>3. w = v + g[x] - (IF x \in DOMAIN f THEN f[x] ELSE 0)
    BY <1>2, SumChanges DEF Becomes, w
  <1> QED
    BY <1>2, <1>3 DEF w

LEMMA SumOfNoTerms ==
    ASSUME NEW f, DOMAIN f = {}
    PROVE  AddsUp(f, 0)
  <1>1. PICK F : IsSumOver(F, f, SUBSET {})
    BY SumExists, FS_EmptySet
  <1>2. F[{}] = 0
    BY <1>1, SumUnfolds
  <1> QED
    BY <1>1, <1>2 DEF AddsUp

(* The wallet and the position a fill makes of those before it.            *)
LEMMA WalletAfterFacts ==
    ASSUME NEW f \in Fills,
           NEW w \in [cum_realized_pnl : Int, total_fills : Nat, gross_volume : Nat,
                      signed_volume : Int, opens : Nat, closes : Nat, last_ts : Nat],
           w.opens + w.closes = w.total_fills, AbsVal(w.signed_volume) <= w.gross_volume
    PROVE  LET w2 == WalletAfter(w, f)
           IN  /\ w2 \in [cum_realized_pnl : Int, total_fills : Nat, gross_volume : Nat,
                          signed_volume : Int, opens : Nat, closes : Nat, last_ts : Nat]
               /\ w2.opens + w2.closes = w2.total_fills
               /\ AbsVal(w2.signed_volume) <= w2.gross_volume
               /\ w2.total_fills = w.total_fills + 1
               /\ w2.cum_realized_pnl = w.cum_realized_pnl + f.pnl
               /\ w2.gross_volume = w.gross_volume + Notional(f)
               /\ w2.last_ts = f.ms
  <1>1. f.ms \in Nat /\ f.pnl \in Int /\ f.crossed \in BOOLEAN
    BY FillsAssumption
  <1>2. Notional(f) \in Nat
    BY FillFacts
  <1>3. SignedNotional(f) = Notional(f) \/ SignedNotional(f) = -Notional(f)
    BY DEF SignedNotional
  <1> HIDE DEF Notional, SignedNotional
  <1>4. /\ w.signed_volume + SignedNotional(f) \in Int
        /\ AbsVal(w.signed_volume + SignedNotional(f)) <= w.gross_volume + Notional(f)
    BY <1>2, <1>3 DEF AbsVal
  <1> QED
    BY <1>1, <1>2, <1>4 DEF WalletAfter

LEMMA EntryType ==
    ASSUME NEW f \in Fills, NEW p, p.net_pos \in Int, p.avg_entry \in Nat \X (Nat \ {0})
    PROVE  /\ p.net_pos + SignedSz(f) \in Int
           /\ EntryAfter(p, f) \in Nat \X (Nat \ {0})
  <1>1. f.px \in Nat /\ f.sz \in Nat /\ f.buy \in BOOLEAN
    BY FillsAssumption
  <1>2. SignedSz(f) \in Int
    BY <1>1 DEF SignedSz
  <1> DEFINE delta == SignedSz(f)
             new == p.net_pos + delta
  <1>3. new \in Int /\ delta \in Int
    BY <1>2
  <1>4. PICK num \in Nat, den \in Nat \ {0} : p.avg_entry = <<num, den>>
    OBVIOUS
  <1> HIDE DEF delta
  <1>5. ASSUME new # 0 PROVE Reweighted(p, delta, f.px, new) \in Nat \X (Nat \ {0})
    <2>1. /\ AbsVal(p.net_pos) \in Nat /\ AbsVal(delta) \in Nat /\ AbsVal(new) \in Nat \ {0}
      BY <1>3, <1>5 DEF AbsVal
    <2>2. \A x, y \in Nat : x * y \in Nat /\ (x # 0 /\ y # 0 => x * y # 0)
      OBVIOUS
    <2>3. /\ AbsVal(p.net_pos) * num \in Nat
          /\ AbsVal(delta) * f.px \in Nat
          /\ AbsVal(new) * den \in Nat \ {0}
      BY <1>1, <1>4, <2>1, <2>2
    <2>4. AbsVal(delta) * f.px * den \in Nat
      BY <1>4, <2>2, <2>3
    <2> HIDE DEF new
    <2> QED
      BY <1>4, <2>3, <2>4 DEF Reweighted
  <1>6. EntryAfter(p, f) \in {Reweighted(p, delta, f.px, new), <<f.px, 1>>, p.avg_entry}
    BY DEF EntryAfter, delta
  <1>7. new = 0 => EntryAfter(p, f) \in {<<f.px, 1>>, p.avg_entry}
    BY DEF EntryAfter, delta
  <1> QED
    BY <1>1, <1>3, <1>5, <1>6, <1>7 DEF delta

LEMMA PositionsInvInit ==
    ASSUME PositionsInit
    PROVE  PositionsInv
  <1>1. wc = <<>> /\ wallets = <<>>
    BY DEF PositionsInit
  <1>2. DOMAIN wc = {} /\ DOMAIN wallets = {}
    BY <1>1
  <1>3. ASSUME NEW a \in Addrs PROVE WalletIsSum(a)
    <2>1. DOMAIN Counts(a) = {} /\ DOMAIN Pnls(a) = {}
      BY <1>2 DEF Counts, Pnls, PositionKeys
    <2>2. WalletOf(a).total_fills = 0 /\ WalletOf(a).cum_realized_pnl = 0
      BY <1>2 DEF WalletOf, GetOr, NewWallet
    <2> QED
      BY <2>1, <2>2, SumOfNoTerms DEF WalletIsSum
  <1> QED
    BY <1>2, <1>3, FS_EmptySet DEF PositionsInv, PositionsTypeOK

(* One fill more. Only the entries of its own position and wallet change.  *)
LEMMA PositionsInvStep ==
    ASSUME PositionsInv, NEW f \in Fills, UpdatePosition(f), UpdateWallet(f)
    PROVE  PositionsInv'
  <1> DEFINE key == <<f.addr, f.coin>>
             old == GetOr(wc, key, NewPosition)
             w == WalletOf(f.addr)
  <1>1. f.addr \in Addrs /\ f.coin \in Coins /\ f.ms \in Nat /\ f.pnl \in Int
    BY FillsAssumption
  <1>2. /\ old.net_pos \in Int /\ old.realized_pnl \in Int /\ old.fill_count \in Nat
        /\ old.avg_entry \in Nat \X (Nat \ {0})
    BY DEF PositionsInv, PositionsTypeOK, GetOr, NewPosition
  <1>3. /\ w \in [cum_realized_pnl : Int, total_fills : Nat, gross_volume : Nat,
                  signed_volume : Int, opens : Nat, closes : Nat, last_ts : Nat]
        /\ w.opens + w.closes = w.total_fills
        /\ AbsVal(w.signed_volume) <= w.gross_volume
    BY DEF PositionsInv, PositionsTypeOK, WalletSane, WalletOf, GetOr, NewWallet, AbsVal
  <1>4. /\ DOMAIN wc' = DOMAIN wc \cup {key}
        /\ wc'[key] = PositionAfter(old, f)
        /\ \A k \in DOMAIN wc \ {key} : wc'[k] = wc[k]
    BY DEF UpdatePosition, Put
  <1>5. /\ DOMAIN wallets' = DOMAIN wallets \cup {f.addr}
        /\ wallets'[f.addr] = WalletAfter(w, f)
        /\ \A a \in DOMAIN wallets \ {f.addr} : wallets'[a] = wallets[a]
    BY DEF UpdateWallet, Put, WalletOf
  <1>6. /\ wc'[key].net_pos \in Int /\ wc'[key].realized_pnl \in Int
        /\ wc'[key].fill_count \in Nat /\ wc'[key].last_ts = f.ms
        /\ wc'[key].avg_entry \in Nat \X (Nat \ {0})
        /\ wc'[key].fill_count = old.fill_count + 1
        /\ wc'[key].realized_pnl = old.realized_pnl + f.pnl
    BY <1>1, <1>2, <1>4, EntryType DEF PositionAfter
  <1> HIDE DEF old, w
  <1>7. PositionsTypeOK'
    BY <1>1, <1>3, <1>4, <1>5, <1>6, WalletAfterFacts DEF PositionsInv, PositionsTypeOK
  <1>8. (DOMAIN wallets = {k[1] : k \in DOMAIN wc})' /\ IsFiniteSet(DOMAIN wc)'
    BY <1>4, <1>5, FS_AddElement DEF PositionsInv
  <1>9. ASSUME NEW a \in Addrs PROVE WalletIsSum(a)'
    <2>1. /\ AddsUp(Counts(a), WalletOf(a).total_fills)
          /\ AddsUp(Pnls(a), WalletOf(a).cum_realized_pnl)
      BY <1>9 DEF PositionsInv, WalletIsSum
    <2>2. CASE a # f.addr
      <3>1. PositionKeys(a)' = PositionKeys(a)
        BY <1>4, <2>2 DEF PositionKeys
      <3>2. Counts(a)' = Counts(a) /\ Pnls(a)' = Pnls(a)
        BY <1>4, <2>2, <3>1 DEF Counts, Pnls, PositionKeys
      <3>3. WalletOf(a)' = WalletOf(a)
        BY <1>5, <2>2 DEF WalletOf, GetOr
      <3> QED
        BY <2>1, <3>2, <3>3 DEF WalletIsSum
    <2>3. CASE a = f.addr
      <3>1. PositionKeys(a)' = PositionKeys(a) \cup {key}
        BY <1>4, <2>3 DEF PositionKeys
      <3>2. IsFiniteSet(PositionKeys(a)) /\ IsFiniteSet(PositionKeys(a)')
        BY <1>8, FS_Subset DEF PositionsInv, PositionKeys
      <3>3. /\ Terms(Counts(a)) /\ Terms(Pnls(a)) /\ Terms(Counts(a)') /\ Terms(Pnls(a)')
        BY <1>7, <3>2 DEF PositionsInv, PositionsTypeOK, Terms, Counts, Pnls, PositionKeys
      <3>4. Becomes(Counts(a), Counts(a)', key) /\ Becomes(Pnls(a), Pnls(a)', key)
        BY <1>4, <3>1 DEF Becomes, Counts, Pnls, PositionKeys
      <3>5. /\ AddsUp(Counts(a)', WalletOf(a).total_fills + Counts(a)'[key]
                        - (IF key \in DOMAIN Counts(a) THEN Counts(a)[key] ELSE 0))
            /\ AddsUp(Pnls(a)', WalletOf(a).cum_realized_pnl + Pnls(a)'[key]
                        - (IF key \in DOMAIN Pnls(a) THEN Pnls(a)[key] ELSE 0))
        BY <2>1, <3>3, <3>4, SumFollows
      <3>6. /\ Counts(a)'[key] = old.fill_count + 1
            /\ Pnls(a)'[key] = old.realized_pnl + f.pnl
            /\ (IF key \in DOMAIN Counts(a) THEN Counts(a)[key] ELSE 0) = old.fill_count
            /\ (IF key \in DOMAIN Pnls(a) THEN Pnls(a)[key] ELSE 0) = old.realized_pnl
        BY <1>4, <1>6, <2>3, <3>1
           DEF Counts, Pnls, PositionKeys, GetOr, NewPosition, old
      <3>7. /\ WalletOf(a)'.total_fills = w.total_fills + 1
            /\ WalletOf(a)'.cum_realized_pnl = w.cum_realized_pnl + f.pnl
        <4>1. WalletOf(a)' = WalletAfter(w, f)
          BY <1>5, <2>3 DEF WalletOf, GetOr
        <4> QED
          BY <1>3, <4>1, WalletAfterFacts
      <3>8. /\ w.total_fills + (old.fill_count + 1) - old.fill_count = w.total_fills + 1
            /\ w.cum_realized_pnl + (old.realized_pnl + f.pnl) - old.realized_pnl
                 = w.cum_realized_pnl + f.pnl
        BY <1>1, <1>2, <1>3
      <3> QED
        BY <2>3, <3>5, <3>6, <3>7, <3>8 DEF WalletIsSum, w
    <2> QED
      BY <2>2, <2>3
  <1>10. ASSUME NEW a \in DOMAIN wallets' PROVE WalletSane(a)'
    <2>1. CASE a = f.addr
      <3>1. key \in PositionKeys(a)' /\ wc'[key].last_ts = f.ms
        BY <1>4, <1>6, <2>1 DEF PositionKeys
      <3>2. /\ wallets'[a].opens + wallets'[a].closes = wallets'[a].total_fills
            /\ AbsVal(wallets'[a].signed_volume) <= wallets'[a].gross_volume
            /\ wallets'[a].last_ts = f.ms
        BY <1>3, <1>5, <2>1, WalletAfterFacts
      <3> QED
        BY <3>1, <3>2 DEF WalletSane
    <2>2. CASE a # f.addr
      <3>1. a \in DOMAIN wallets /\ wallets'[a] = wallets[a] /\ WalletSane(a)
        BY <1>5, <1>10, <2>2 DEF PositionsInv
      <3>2. PICK k \in PositionKeys(a) : wc[k].last_ts = wallets[a].last_ts
        BY <3>1 DEF WalletSane
      <3>3. k \in PositionKeys(a)' /\ wc'[k] = wc[k]
        BY <1>4, <2>2, <3>2 DEF PositionKeys
      <3> QED
        BY <3>1, <3>2, <3>3 DEF WalletSane
    <2> QED
      BY <2>1, <2>2
  <1> QED
    BY <1>7, <1>8, <1>9, <1>10 DEF PositionsInv

LEMMA PositionsInvStutter ==
    ASSUME PositionsInv, UNCHANGED positionVars
    PROVE  PositionsInv'
  <1>1. wc' = wc /\ wallets' = wallets
    BY DEF positionVars
  <1>2. PositionsTypeOK'
    BY <1>1 DEF PositionsInv, PositionsTypeOK
  <1>3. \A a : WalletIsSum(a) => WalletIsSum(a)'
    BY <1>1 DEF WalletIsSum, Counts, Pnls, PositionKeys, WalletOf
  <1>4. \A a : WalletSane(a) => WalletSane(a)'
    BY <1>1 DEF WalletSane, PositionKeys
  <1> QED
    BY <1>1, <1>2, <1>3, <1>4 DEF PositionsInv

(* What the two folds over positions evaluate.                             *)
CountsTotal(a) == MapThenSumSet(LAMBDA k : wc[k].fill_count, PositionKeys(a))
PnlsTotal(a) == MapThenSumSet(LAMBDA k : wc[k].realized_pnl, PositionKeys(a))

LEMMA CountsFold ==
    ASSUME PositionsInv, NEW a
    PROVE  Terms(Counts(a)) /\ AddsUp(Counts(a), CountsTotal(a))
  <1> DEFINE f == Counts(a)
             I == PositionKeys(a)
             IsFold(F) == F = [t \in SUBSET I |-> IF t = {} THEN 0
                                 ELSE wc[Pick(t)].fill_count + F[t \ {Pick(t)}]]
             F0 == CHOOSE it : IsFold(it)
  <1>1. IsFiniteSet(I)
    BY FS_Subset DEF PositionsInv, PositionKeys
  <1>2. CountsTotal(a) = F0[I]
    BY DEF CountsTotal, MapThenSumSet, MapThenFoldSet, Pick
  <1>3. \A t \in SUBSET I : t # {} => f[Pick(t)] = wc[Pick(t)].fill_count
    BY PickFacts DEF Counts
  <1>4. \A F : IsSumOver(F, f, SUBSET I) <=> IsFold(F)
    BY <1>3 DEF IsSumOver
  <1>5. \E F : IsFold(F)
    BY <1>1, <1>4, SumExists
  <1>6. IsSumOver(F0, f, SUBSET I)
    <2> HIDE DEF IsFold
    <2> QED
      BY <1>4, <1>5
  <1>7. Terms(f) /\ DOMAIN f = I
    BY <1>1 DEF PositionsInv, PositionsTypeOK, Terms, Counts, PositionKeys
  <1> QED
    BY <1>2, <1>6, <1>7 DEF AddsUp

LEMMA PnlsFold ==
    ASSUME PositionsInv, NEW a
    PROVE  Terms(Pnls(a)) /\ AddsUp(Pnls(a), PnlsTotal(a))
  <1> DEFINE f == Pnls(a)
             I == PositionKeys(a)
             IsFold(F) == F = [t \in SUBSET I |-> IF t = {} THEN 0
                                 ELSE wc[Pick(t)].realized_pnl + F[t \ {Pick(t)}]]
             F0 == CHOOSE it : IsFold(it)
  <1>1. IsFiniteSet(I)
    BY FS_Subset DEF PositionsInv, PositionKeys
  <1>2. PnlsTotal(a) = F0[I]
    BY DEF PnlsTotal, MapThenSumSet, MapThenFoldSet, Pick
  <1>3. \A t \in SUBSET I : t # {} => f[Pick(t)] = wc[Pick(t)].realized_pnl
    BY PickFacts DEF Pnls
  <1>4. \A F : IsSumOver(F, f, SUBSET I) <=> IsFold(F)
    BY <1>3 DEF IsSumOver
  <1>5. \E F : IsFold(F)
    BY <1>1, <1>4, SumExists
  <1>6. IsSumOver(F0, f, SUBSET I)
    <2> HIDE DEF IsFold
    <2> QED
      BY <1>4, <1>5
  <1>7. Terms(f) /\ DOMAIN f = I
    BY <1>1 DEF PositionsInv, PositionsTypeOK, Terms, Pnls, PositionKeys
  <1> QED
    BY <1>2, <1>6, <1>7 DEF AddsUp

LEMMA PositionsAgree ==
    ASSUME PositionsInv
    PROVE  GroupsAgree
  <1> SUFFICES ASSUME NEW a \in DOMAIN wallets
               PROVE  /\ wallets[a].total_fills = CountsTotal(a)
                      /\ wallets[a].cum_realized_pnl = PnlsTotal(a)
                      /\ WalletSane(a)
    BY DEF PositionsInv, GroupsAgree, CountsTotal, PnlsTotal, PositionKeys, WalletSane
  <1>1. a \in Addrs /\ WalletOf(a) = wallets[a] /\ WalletSane(a)
    BY DEF PositionsInv, PositionsTypeOK, WalletOf, GetOr
  <1>2. /\ AddsUp(Counts(a), wallets[a].total_fills)
        /\ AddsUp(Pnls(a), wallets[a].cum_realized_pnl)
    BY <1>1 DEF PositionsInv, WalletIsSum
  <1> QED
    BY <1>1, <1>2, CountsFold, PnlsFold, SumIsUnique

-----------------------------------------------------------------------------
(* Volume is in two places, the buckets of each window and the wallets. A  *)
(* fill in time order adds its notional to one term of either sum.         *)
VolumesOf(rows) == [i \in DOMAIN rows |-> rows[i].volume]
VolumeIn(rows) == SumOver(DOMAIN rows, LAMBDA i : rows[i].volume)
HaveVolumes(rows) == IsFiniteSet(DOMAIN rows) /\ \A i \in DOMAIN rows : rows[i].volume \in Nat

LEMMA VolumeFold ==
    ASSUME NEW rows, HaveVolumes(rows)
    PROVE  Terms(VolumesOf(rows)) /\ AddsUp(VolumesOf(rows), VolumeIn(rows))
  <1> DEFINE f == VolumesOf(rows)
             I == DOMAIN rows
             IsFold(F) == F = [t \in SUBSET I |-> IF t = {} THEN 0
                                 ELSE rows[Pick(t)].volume + F[t \ {Pick(t)}]]
             F0 == CHOOSE it : IsFold(it)
  <1>1. IsFiniteSet(I)
    BY DEF HaveVolumes
  <1>2. VolumeIn(rows) = F0[I]
    BY DEF VolumeIn, SumOver, MapThenSumSet, MapThenFoldSet, Pick
  <1>3. \A t \in SUBSET I : t # {} => f[Pick(t)] = rows[Pick(t)].volume
    BY PickFacts DEF VolumesOf
  <1>4. \A F : IsSumOver(F, f, SUBSET I) <=> IsFold(F)
    BY <1>3 DEF IsSumOver
  <1>5. \E F : IsFold(F)
    BY <1>1, <1>4, SumExists
  <1>6. IsSumOver(F0, f, SUBSET I)
    <2> HIDE DEF IsFold
    <2> QED
      BY <1>4, <1>5
  <1>7. Terms(f) /\ DOMAIN f = I
    BY <1>1 DEF HaveVolumes, Terms, VolumesOf
  <1> QED
    BY <1>2, <1>6, <1>7 DEF AddsUp

LEMMA SumIsIntegral ==
    ASSUME NEW f, Terms(f), NEW v, AddsUp(f, v)
    PROVE  v \in Int
  <1>1. PICK F : IsSumOver(F, f, SUBSET DOMAIN f) /\ v = F[DOMAIN f]
    BY DEF AddsUp
  <1>2. Integral(F, DOMAIN f)
    BY <1>1, SumType DEF Terms
  <1> QED
    BY <1>1, <1>2 DEF Integral

LEMMA VolumeType ==
    ASSUME NEW rows, HaveVolumes(rows)
    PROVE  VolumeIn(rows) \in Int /\ (DOMAIN rows = {} => VolumeIn(rows) = 0)
  <1> DEFINE f == VolumesOf(rows)
  <1>1. Terms(f) /\ AddsUp(f, VolumeIn(rows)) /\ DOMAIN f = DOMAIN rows
    BY VolumeFold DEF VolumesOf
  <1> HIDE DEF f
  <1> QED
    BY <1>1, SumOfNothing, SumIsIntegral

(* One row more. *)
LEMMA VolumeGains ==
    ASSUME NEW rows, HaveVolumes(rows), NEW m, m \notin DOMAIN rows,
           NEW rows2, DOMAIN rows2 = DOMAIN rows \cup {m},
           \A i \in DOMAIN rows : rows2[i] = rows[i], rows2[m].volume \in Nat
    PROVE  HaveVolumes(rows2) /\ VolumeIn(rows2) = VolumeIn(rows) + rows2[m].volume
  <1>1. HaveVolumes(rows2)
    BY FS_AddElement DEF HaveVolumes
  <1> DEFINE f == VolumesOf(rows)
             g == VolumesOf(rows2)
  <1>2. /\ Terms(f) /\ AddsUp(f, VolumeIn(rows))
        /\ Terms(g) /\ AddsUp(g, VolumeIn(rows2))
    BY <1>1, VolumeFold
  <1>3. /\ DOMAIN f = DOMAIN rows /\ DOMAIN g = DOMAIN f \cup {m}
        /\ \A y \in DOMAIN f \ {m} : g[y] = f[y]
        /\ g[m] = rows2[m].volume
    BY DEF VolumesOf
  <1> HIDE DEF f, g
  <1>4. VolumeIn(rows) \in Int
        /\ VolumeIn(rows2) = VolumeIn(rows) + g[m] - (IF m \in DOMAIN f THEN f[m] ELSE 0)
    BY <1>2, <1>3, SumChanges
  <1> QED
    BY <1>1, <1>3, <1>4

VolumeKeys(w) == {k \in DOMAIN open : k[2] = w}
VolumeAt(k) == VolumeIn(closed[k]) + open[k].volume
KeyVolumes(w) == [k \in VolumeKeys(w) |-> VolumeAt(k)]
WalletVolumes == [a \in DOMAIN wallets |-> wallets[a].gross_volume]

SameVolume(w) == \E v : AddsUp(KeyVolumes(w), v) /\ AddsUp(WalletVolumes, v)

ConservedInv ==
    /\ \A k \in Keys : HaveVolumes(closed[k])
    /\ IsFiniteSet(DOMAIN wallets)
    /\ \A w \in Windows : IsFiniteSet(VolumeKeys(w))
    /\ InOrder => \A w \in Windows : SameVolume(w)

LEMMA ConservedInit ==
    ASSUME EngineInit
    PROVE  ConservedInv
  <1>1. /\ DOMAIN wallets = {} /\ DOMAIN open = {}
        /\ \A k \in Keys : DOMAIN closed[k] = {}
    BY DEF EngineInit, PositionsInit, WindowsInit
  <1>2. DOMAIN WalletVolumes = {} /\ \A w : DOMAIN KeyVolumes(w) = {}
    BY <1>1 DEF WalletVolumes, KeyVolumes, VolumeKeys
  <1>3. \A w : SameVolume(w)
    BY <1>2, SumOfNoTerms DEF SameVolume
  <1>4. \A w : VolumeKeys(w) = {}
    BY <1>1 DEF VolumeKeys
  <1> QED
    BY <1>1, <1>3, <1>4, FS_EmptySet DEF ConservedInv, HaveVolumes

(* What a fill does to the closed rows of a key, and to a key that is not  *)
(* of its coin.                                                            *)
LEMMA RowVolumesStep ==
    ASSUME WindowsHold, ConservedInv, NEW f \in Fills, NEW weight, UpdateWindows(f, weight),
           NEW k \in Keys
    PROVE  /\ HaveVolumes(closed'[k])
           /\ ~Closes(f, k) => closed'[k] = closed[k]
           /\ Closes(f, k) => VolumeIn(closed'[k]) = VolumeAt(k)
  <1>1. HaveVolumes(closed[k]) /\ RowsInv(k)
    BY DEF ConservedInv, WindowsHold, AllRows
  <1>2. ~Closes(f, k) => closed'[k] = closed[k]
    BY DEF UpdateWindows
  <1>3. ASSUME Closes(f, k)
        PROVE  HaveVolumes(closed'[k]) /\ VolumeIn(closed'[k]) = VolumeAt(k)
    <2>1. PICK m \in Nat : /\ m \notin DOMAIN closed[k]
                           /\ DOMAIN closed'[k] = DOMAIN closed[k] \cup {m}
                           /\ \A j \in DOMAIN closed[k] : closed'[k][j] = closed[k][j]
                           /\ closed'[k][m] = Snapshot(open[k], weight)
      BY <1>1, <1>3, ClosedGains
    <2>2. k \in DOMAIN open /\ open[k].volume \in Nat
      BY <1>3 DEF Closes, WindowsHold, WindowsInv, WindowsTypeOK, IsBucket
    <2>3. closed'[k][m].volume = open[k].volume
      <3>1. Snapshot(open[k], weight).volume = open[k].volume
        BY DEF Snapshot
      <3> QED
        BY <2>1, <3>1
    <2> DEFINE rows == closed[k]
               rows2 == closed'[k]
    <2>4. /\ HaveVolumes(rows) /\ DOMAIN rows2 = DOMAIN rows \cup {m} /\ m \notin DOMAIN rows
          /\ \A i \in DOMAIN rows : rows2[i] = rows[i]
          /\ rows2[m].volume \in Nat
      BY <1>1, <2>1, <2>2, <2>3
    <2>5. HaveVolumes(rows2) /\ VolumeIn(rows2) = VolumeIn(rows) + rows2[m].volume
      <3> HIDE DEF rows, rows2
      <3> QED
        BY <2>4, VolumeGains
    <2> QED
      BY <2>3, <2>5 DEF VolumeAt
  <1> QED
    BY <1>1, <1>2, <1>3

(* In time order a fill adds its notional to each key of its coin.         *)
LEMMA KeyGainsNotional ==
    ASSUME WindowsHold, ConservedInv, NEW f \in Fills, applied' = Append(applied, f), InOrder',
           NEW weight, UpdateWindows(f, weight), NEW w \in Windows
    PROVE  LET k == <<f.coin, w>>
           IN  /\ k \in DOMAIN open'
               /\ VolumeAt(k)' \in Int
               /\ VolumeAt(k)' = (IF k \in DOMAIN open THEN VolumeAt(k) ELSE 0) + Notional(f)
               /\ k \in DOMAIN open => VolumeAt(k) \in Int
  <1> DEFINE k == <<f.coin, w>>
             n == Notional(f)
             ts == BucketTs(f, w)
  <1>1. k \in Keys /\ k[1] = f.coin /\ k[2] = w /\ n \in Nat
    BY FillFacts DEF Keys
  <1>2. k \in DOMAIN open' /\ open'[k] = BucketAfter(f, k)
    BY UpdateType DEF WindowsHold, WindowsInv
  <1>3. /\ HaveVolumes(closed'[k])
        /\ ~Closes(f, k) => closed'[k] = closed[k]
        /\ Closes(f, k) => VolumeIn(closed'[k]) = VolumeAt(k)
    BY <1>1, RowVolumesStep
  <1>4. HaveVolumes(closed[k]) /\ RowsInv(k)
    BY <1>1 DEF ConservedInv, WindowsHold, AllRows
  <1>5. VolumeIn(closed[k]) \in Int /\ VolumeIn(closed'[k]) \in Int
    BY <1>3, <1>4, VolumeType
  <1>6. VolumeAt(k)' = VolumeIn(closed'[k]) + open'[k].volume
    BY DEF VolumeAt
  <1>7. ts \in Nat
    BY FillFacts, FloorFacts
  <1>8. NewBucket(ts).volume = 0 /\ IsBucket(NewBucket(ts))
    BY <1>7, NewBucketType DEF NewBucket
  <1>9. AddFill(NewBucket(ts), f).volume = n
    BY <1>1, <1>8, AddFillFacts
  <1>10. CASE k \notin DOMAIN open
    <2>1. DOMAIN closed[k] = {} /\ ~Closes(f, k)
      BY <1>4, <1>10 DEF RowsInv, Older, Closes
    <2>2. VolumeIn(closed'[k]) = 0
      BY <1>3, <1>4, <2>1, VolumeType
    <2>3. open'[k].volume = n
      BY <1>2, <1>9, <1>10, BucketAfterFacts DEF WindowsHold, WindowsInv
    <2> QED
      BY <1>1, <1>2, <1>6, <1>10, <2>2, <2>3
  <1>11. CASE k \in DOMAIN open
    <2>1. /\ IsBucket(open[k]) /\ open[k].volume \in Nat /\ open[k].bucket_ts \in Nat
          /\ open[k].bucket_ts <= ts
      BY <1>1, <1>11, OrderedNotLate DEF WindowsHold, WindowsInv, WindowsTypeOK, IsBucket
    <2>2. VolumeAt(k) = VolumeIn(closed[k]) + open[k].volume /\ VolumeAt(k) \in Int
      BY <1>5, <2>1 DEF VolumeAt
    <2>3. CASE ts > open[k].bucket_ts
      <3>1. Closes(f, k)
        BY <1>1, <1>11, <2>3 DEF Closes, StartsBucket
      <3>2. open'[k].volume = n
        BY <1>2, <1>9, <1>11, <2>3, BucketAfterFacts DEF WindowsHold, WindowsInv
      <3> QED
        BY <1>1, <1>2, <1>3, <1>6, <1>11, <2>2, <3>1, <3>2
    <2>4. CASE ts = open[k].bucket_ts
      <3>1. ~Closes(f, k)
        BY <1>1, <2>1, <2>4 DEF Closes, StartsBucket
      <3>2. open'[k].volume = open[k].volume + n
        BY <1>2, <1>11, <2>1, <2>4, BucketAfterFacts, AddFillFacts DEF WindowsHold, WindowsInv
      <3> QED
        BY <1>1, <1>2, <1>3, <1>5, <1>6, <1>11, <2>1, <2>2, <3>1, <3>2
    <2> QED
      BY <1>7, <2>1, <2>3, <2>4
  <1> QED
    BY <1>10, <1>11

LEMMA ConservedStep ==
    ASSUME WindowsHold, PositionsInv, ConservedInv, NEW f \in Fills, Apply(f)
    PROVE  ConservedInv'
  <1> DEFINE weight == ClosingWeights
             n == Notional(f)
  <1>1. /\ applied' = Append(applied, f) /\ UpdateWindows(f, weight)
        /\ UpdatePosition(f) /\ UpdateWallet(f) /\ applied \in Seq(Fills)
    BY DEF Apply, Arrive, WindowsHold, ExactInv
  <1> HIDE DEF weight
  <1>2. \A k \in Keys : HaveVolumes(closed'[k])
    BY <1>1, RowVolumesStep
  <1>3. /\ DOMAIN open' = DOMAIN open \cup ({f.coin} \X Windows)
        /\ \A k \in DOMAIN open : k[1] # f.coin => open'[k] = open[k]
        /\ DOMAIN open \subseteq Keys
    BY <1>1, UpdateType DEF WindowsHold, WindowsInv, WindowsTypeOK
  <1>4. \A w \in Windows : VolumeKeys(w)' = VolumeKeys(w) \cup {<<f.coin, w>>}
    BY <1>3 DEF VolumeKeys
  <1>5. ASSUME NEW w \in Windows PROVE IsFiniteSet(VolumeKeys(w)')
    <2>1. IsFiniteSet(VolumeKeys(w) \cup {<<f.coin, w>>})
      BY FS_AddElement DEF ConservedInv
    <2> QED
      BY <1>4, <2>1
  <1>6. /\ DOMAIN wallets' = DOMAIN wallets \cup {f.addr}
        /\ wallets'[f.addr] = WalletAfter(WalletOf(f.addr), f)
        /\ \A a \in DOMAIN wallets \ {f.addr} : wallets'[a] = wallets[a]
    BY <1>1 DEF UpdateWallet, Put, WalletOf
  <1>7. IsFiniteSet(DOMAIN wallets')
    BY <1>6, FS_AddElement DEF ConservedInv
  <1>8. ASSUME InOrder', NEW w \in Windows PROVE SameVolume(w)'
    <2> DEFINE key == <<f.coin, w>>
    <2>1. PICK v : AddsUp(KeyVolumes(w), v) /\ AddsUp(WalletVolumes, v)
      BY <1>1, <1>8, OrderedPrefix DEF ConservedInv, SameVolume
    <2>2. /\ VolumeAt(key)' \in Int
          /\ VolumeAt(key)' = (IF key \in DOMAIN open THEN VolumeAt(key) ELSE 0) + n
          /\ key \in DOMAIN open => VolumeAt(key) \in Int
      BY <1>1, <1>8, KeyGainsNotional
    <2>3. \A k \in VolumeKeys(w) : VolumeAt(k) \in Int
      BY <1>3, VolumeType
         DEF VolumeAt, VolumeKeys, ConservedInv, WindowsHold, WindowsInv, WindowsTypeOK, IsBucket
    <2>4. \A k \in VolumeKeys(w) \ {key} : VolumeAt(k)' = VolumeAt(k)
      <3> SUFFICES ASSUME NEW k \in VolumeKeys(w) \ {key} PROVE VolumeAt(k)' = VolumeAt(k)
        OBVIOUS
      <3>1. k \in Keys /\ k \in DOMAIN open /\ k[1] # f.coin
        BY <1>3 DEF VolumeKeys, Keys
      <3>2. open'[k] = open[k] /\ closed'[k] = closed[k]
        BY <1>1, <1>3, <3>1, RowVolumesStep DEF Closes
      <3> QED
        BY <3>2 DEF VolumeAt
    <2>5. Terms(KeyVolumes(w)) /\ Terms(KeyVolumes(w)')
      <3>1. \A k \in VolumeKeys(w)' : VolumeAt(k)' \in Int
        BY <1>4, <2>2, <2>3, <2>4
      <3> QED
        BY <1>5, <2>3, <3>1 DEF Terms, KeyVolumes, ConservedInv
    <2>6. Becomes(KeyVolumes(w), KeyVolumes(w)', key)
      BY <1>4, <2>4 DEF Becomes, KeyVolumes
    <2>7. AddsUp(KeyVolumes(w)', v + KeyVolumes(w)'[key]
                   - (IF key \in DOMAIN KeyVolumes(w) THEN KeyVolumes(w)[key] ELSE 0))
      BY <2>1, <2>5, <2>6, SumFollows
    <2>8. /\ KeyVolumes(w)'[key] = VolumeAt(key)'
          /\ (IF key \in DOMAIN KeyVolumes(w) THEN KeyVolumes(w)[key] ELSE 0)
               = IF key \in DOMAIN open THEN VolumeAt(key) ELSE 0
      BY <1>4 DEF KeyVolumes, VolumeKeys
    <2>9. /\ WalletOf(f.addr) \in [cum_realized_pnl : Int, total_fills : Nat,
                                   gross_volume : Nat, signed_volume : Int, opens : Nat,
                                   closes : Nat, last_ts : Nat]
          /\ wallets'[f.addr].gross_volume = WalletOf(f.addr).gross_volume + n
      BY <1>6 DEF PositionsInv, PositionsTypeOK, WalletOf, GetOr, NewWallet, WalletAfter
    <2>10. Terms(WalletVolumes) /\ Terms(WalletVolumes')
      <3>1. n \in Nat
        BY FillFacts
      <3>2. \A a \in DOMAIN wallets : wallets[a].gross_volume \in Nat
        BY DEF PositionsInv, PositionsTypeOK
      <3>3. \A a \in DOMAIN wallets' : wallets'[a].gross_volume \in Int
        <4> HIDE DEF n
        <4> QED
          BY <1>6, <2>9, <3>1, <3>2
      <3> QED
        BY <1>7, <3>2, <3>3 DEF Terms, WalletVolumes, ConservedInv
    <2>11. Becomes(WalletVolumes, WalletVolumes', f.addr)
      BY <1>6 DEF Becomes, WalletVolumes
    <2>12. AddsUp(WalletVolumes', v + WalletVolumes'[f.addr]
              - (IF f.addr \in DOMAIN WalletVolumes THEN WalletVolumes[f.addr] ELSE 0))
      BY <2>1, <2>10, <2>11, SumFollows
    <2>13. /\ WalletVolumes'[f.addr] = WalletOf(f.addr).gross_volume + n
           /\ (IF f.addr \in DOMAIN WalletVolumes THEN WalletVolumes[f.addr] ELSE 0)
                = WalletOf(f.addr).gross_volume
      BY <1>6, <2>9 DEF WalletVolumes, WalletOf, GetOr, NewWallet
    <2>14. v \in Int /\ n \in Int
      BY <2>1, <2>5, SumIsIntegral, FillFacts
    <2> DEFINE before == IF key \in DOMAIN open THEN VolumeAt(key) ELSE 0
               gross == WalletOf(f.addr).gross_volume
    <2>15. before \in Int /\ gross \in Int
      BY <2>2, <2>9
    <2>16. AddsUp(KeyVolumes(w)', v + (before + n) - before)
      BY <2>2, <2>7, <2>8
    <2>17. AddsUp(WalletVolumes', v + (gross + n) - gross)
      BY <2>12, <2>13
    <2> HIDE DEF before, gross, n
    <2>18. v + (before + n) - before = v + n /\ v + (gross + n) - gross = v + n
      BY <2>14, <2>15
    <2>19. AddsUp(KeyVolumes(w)', v + n) /\ AddsUp(WalletVolumes', v + n)
      BY <2>16, <2>17, <2>18
    <2> QED
      BY <2>19 DEF SameVolume
  <1> QED
    BY <1>2, <1>5, <1>7, <1>8 DEF ConservedInv

LEMMA ConservedStutter ==
    ASSUME ConservedInv, UNCHANGED engineVars
    PROVE  ConservedInv'
  <1>1. UNCHANGED <<applied, wallets, open, closed>>
    BY DEF engineVars, positionVars, windowVars
  <1>2. \A w : VolumeKeys(w)' = VolumeKeys(w) /\ KeyVolumes(w)' = KeyVolumes(w)
    BY <1>1 DEF VolumeKeys, KeyVolumes, VolumeAt
  <1>3. WalletVolumes' = WalletVolumes
    BY <1>1 DEF WalletVolumes
  <1>4. InOrder' = InOrder
    BY <1>1 DEF InOrder
  <1> QED
    BY <1>1, <1>2, <1>3, <1>4 DEF ConservedInv, SameVolume

(* What the folds over keys and wallets evaluate.                          *)
KeysTotal(w) == SumOver(VolumeKeys(w), LAMBDA k : VolumeIn(closed[k]) + open[k].volume)
WalletsTotal == SumOver(DOMAIN wallets, LAMBDA a : wallets[a].gross_volume)

LEMMA KeysFold ==
    ASSUME WindowsHold, ConservedInv, NEW w \in Windows
    PROVE  Terms(KeyVolumes(w)) /\ AddsUp(KeyVolumes(w), KeysTotal(w))
  <1> DEFINE f == KeyVolumes(w)
             I == VolumeKeys(w)
             IsFold(F) == F = [t \in SUBSET I |-> IF t = {} THEN 0
                                 ELSE (VolumeIn(closed[Pick(t)]) + open[Pick(t)].volume)
                                        + F[t \ {Pick(t)}]]
             F0 == CHOOSE it : IsFold(it)
  <1>1. IsFiniteSet(I)
    BY DEF ConservedInv
  <1>2. KeysTotal(w) = F0[I]
    BY DEF KeysTotal, SumOver, MapThenSumSet, MapThenFoldSet, Pick
  <1>3. \A t \in SUBSET I :
           t # {} => f[Pick(t)] = VolumeIn(closed[Pick(t)]) + open[Pick(t)].volume
    BY PickFacts DEF KeyVolumes, VolumeAt
  <1>4. \A F : IsSumOver(F, f, SUBSET I) <=> IsFold(F)
    BY <1>3 DEF IsSumOver
  <1>5. \E F : IsFold(F)
    BY <1>1, <1>4, SumExists
  <1>6. IsSumOver(F0, f, SUBSET I)
    <2> HIDE DEF IsFold
    <2> QED
      BY <1>4, <1>5
  <1>7. Terms(f) /\ DOMAIN f = I
    <2>1. \A k \in I : VolumeAt(k) \in Int
      BY VolumeType DEF VolumeAt, VolumeKeys, ConservedInv, WindowsHold, WindowsInv,
                        WindowsTypeOK, IsBucket
    <2> QED
      BY <1>1, <2>1 DEF Terms, KeyVolumes
  <1> QED
    BY <1>2, <1>6, <1>7 DEF AddsUp

LEMMA WalletsFold ==
    ASSUME PositionsInv, ConservedInv
    PROVE  Terms(WalletVolumes) /\ AddsUp(WalletVolumes, WalletsTotal)
  <1> DEFINE f == WalletVolumes
             I == DOMAIN wallets
             IsFold(F) == F = [t \in SUBSET I |-> IF t = {} THEN 0
                                 ELSE wallets[Pick(t)].gross_volume + F[t \ {Pick(t)}]]
             F0 == CHOOSE it : IsFold(it)
  <1>1. IsFiniteSet(I)
    BY DEF ConservedInv
  <1>2. WalletsTotal = F0[I]
    BY DEF WalletsTotal, SumOver, MapThenSumSet, MapThenFoldSet, Pick
  <1>3. \A t \in SUBSET I : t # {} => f[Pick(t)] = wallets[Pick(t)].gross_volume
    BY PickFacts DEF WalletVolumes
  <1>4. \A F : IsSumOver(F, f, SUBSET I) <=> IsFold(F)
    BY <1>3 DEF IsSumOver
  <1>5. \E F : IsFold(F)
    BY <1>1, <1>4, SumExists
  <1>6. IsSumOver(F0, f, SUBSET I)
    <2> HIDE DEF IsFold
    <2> QED
      BY <1>4, <1>5
  <1>7. Terms(f) /\ DOMAIN f = I
    BY <1>1 DEF PositionsInv, PositionsTypeOK, Terms, WalletVolumes
  <1> QED
    BY <1>2, <1>6, <1>7 DEF AddsUp

LEMMA VolumesAgree ==
    ASSUME WindowsHold, PositionsInv, ConservedInv
    PROVE  VolumeConserved
  <1> SUFFICES ASSUME InOrder, NEW w \in Windows PROVE KeysTotal(w) = WalletsTotal
    BY DEF VolumeConserved, KeysTotal, WalletsTotal, VolumeKeys, VolumeIn
  <1>1. PICK v : AddsUp(KeyVolumes(w), v) /\ AddsUp(WalletVolumes, v)
    BY DEF ConservedInv, SameVolume
  <1>2. KeysTotal(w) = v
    BY <1>1, KeysFold, SumIsUnique
  <1>3. WalletsTotal = v
    BY <1>1, WalletsFold, SumIsUnique
  <1> QED
    BY <1>2, <1>3

-----------------------------------------------------------------------------
(* Snapshots. The sums a row takes over the flows of a bucket are compared *)
(* with the sum of their absolute values.                                  *)
LEMMA SumBound ==
    ASSUME NEW f, Terms(f), NEW v, AddsUp(f, v),
           NEW g, Terms(g), NEW w, AddsUp(g, w),
           DOMAIN g = DOMAIN f, NEW c \in Nat,
           \A x \in DOMAIN f : AbsVal(f[x]) <= c * g[x]
    PROVE  AbsVal(v) <= c * w
  <1> DEFINE S == DOMAIN f
  <1>1. PICK F : IsSumOver(F, f, SUBSET S) /\ v = F[S]
    BY DEF AddsUp
  <1>2. PICK G : IsSumOver(G, g, SUBSET S) /\ w = G[S]
    BY DEF AddsUp
  <1> DEFINE Bad == {s \in SUBSET S : ~(AbsVal(F[s]) <= c * G[s])}
  <1> SUFFICES ASSUME Bad # {} PROVE FALSE
    BY <1>1, <1>2
  <1>3. PICK t \in Bad : \A u \in Bad : u \subseteq t => u = t
    <2>1. Bad \in SUBSET (SUBSET S) /\ IsFiniteSet(S)
      BY DEF Terms
    <2> HIDE DEF Bad, S
    <2> QED
      BY <2>1, MinimalSet
  <1>4. t \in SUBSET S /\ ~(AbsVal(F[t]) <= c * G[t])
    OBVIOUS
  <1>5. /\ F[{}] = 0 /\ Unfolds(F, f, S) /\ G[{}] = 0 /\ Unfolds(G, g, S)
        /\ Integral(F, S) /\ Integral(G, S)
    BY <1>1, <1>2, SumUnfolds, SumType DEF Terms
  <1>6. t # {}
    BY <1>4, <1>5 DEF AbsVal
  <1> DEFINE p == Pick(t)
             u == t \ {p}
  <1>7. p \in t /\ F[t] = f[p] + F[u] /\ G[t] = g[p] + G[u]
    BY <1>4, <1>5, <1>6 DEF Unfolds
  <1>8. u \in SUBSET S /\ u \notin Bad
    <2>1. u \in SUBSET S /\ u # t /\ u \subseteq t
      BY <1>4, <1>7
    <2> HIDE DEF Bad, u
    <2> QED
      BY <1>3, <2>1
  <1>9. AbsVal(F[u]) <= c * G[u] /\ F[u] \in Int /\ G[u] \in Int
    <2>1. F[u] \in Int /\ G[u] \in Int
      BY <1>5, <1>8 DEF Integral
    <2> QED
      BY <1>8, <2>1
  <1>10. f[p] \in Int /\ g[p] \in Int /\ AbsVal(f[p]) <= c * g[p]
    BY <1>4, <1>7 DEF Terms
  <1> HIDE DEF Bad, p, u
  <1>11. c * (g[p] + G[u]) = c * g[p] + c * G[u] /\ c * g[p] \in Int /\ c * G[u] \in Int
    BY <1>9, <1>10
  <1>12. AbsVal(f[p] + F[u]) <= AbsVal(f[p]) + AbsVal(F[u])
    BY <1>9, <1>10 DEF AbsVal
  <1>13. AbsVal(f[p] + F[u]) \in Int /\ AbsVal(f[p]) \in Int /\ AbsVal(F[u]) \in Int
    BY <1>9, <1>10 DEF AbsVal
  <1>14. AbsVal(F[t]) <= c * G[t]
    BY <1>7, <1>9, <1>10, <1>11, <1>12, <1>13
  <1> QED
    BY <1>4, <1>14

(* A part of a sum of naturals is no more than the whole.                  *)
LEMMA PartBound ==
    ASSUME NEW g, Terms(g), \A x \in DOMAIN g : g[x] >= 0, NEW w, AddsUp(g, w),
           NEW f, DOMAIN f \subseteq DOMAIN g, \A x \in DOMAIN f : f[x] = g[x],
           NEW v, AddsUp(f, v)
    PROVE  v <= w
  <1> DEFINE S == DOMAIN g
             A == DOMAIN f
  <1>1. PICK G : IsSumOver(G, g, SUBSET S) /\ w = G[S]
    BY DEF AddsUp
  <1>2. PICK F : IsSumOver(F, f, SUBSET A) /\ v = F[A]
    BY DEF AddsUp
  <1>3. F[A] = G[A]
    <2>1. IsFiniteSet(A)
      BY FS_Subset DEF Terms
    <2>2. Agree(f, F, A, g, G, S, A)
      BY <1>1, <1>2, <2>1 DEF Agree
    <2> HIDE DEF A, S
    <2> QED
      BY <2>2, SumAgrees
  <1>4. TakesAny(G, g, S) /\ Integral(G, S)
    BY <1>1, SumTakes, SumType DEF Terms
  <1> DEFINE Bad == {s \in SUBSET S : A \subseteq s /\ ~(G[A] <= G[s])}
  <1> SUFFICES ASSUME Bad # {} PROVE FALSE
    BY <1>1, <1>2, <1>3
  <1>5. PICK t \in Bad : \A u \in Bad : u \subseteq t => u = t
    <2>1. Bad \in SUBSET (SUBSET S) /\ IsFiniteSet(S)
      BY DEF Terms
    <2> HIDE DEF Bad, S
    <2> QED
      BY <2>1, MinimalSet
  <1>6. t \in SUBSET S /\ A \subseteq t /\ ~(G[A] <= G[t])
    OBVIOUS
  <1>7. G[A] \in Int /\ G[t] \in Int
    BY <1>4, <1>6 DEF Integral
  <1>8. PICK x \in t : x \notin A
    <2>1. t # A
      BY <1>6, <1>7
    <2> QED
      BY <1>6, <2>1
  <1> DEFINE u == t \ {x}
  <1>9. u \in SUBSET S /\ u \notin Bad /\ A \subseteq u
    <2>1. u \in SUBSET S /\ u # t /\ u \subseteq t /\ A \subseteq u
      BY <1>6, <1>8
    <2> HIDE DEF Bad, u
    <2> QED
      BY <1>5, <2>1
  <1>10. G[A] <= G[u] /\ G[u] \in Int
    <2>1. G[u] \in Int
      BY <1>4, <1>9 DEF Integral
    <2> QED
      BY <1>9, <2>1
  <1>11. G[t] = g[x] + G[u] /\ g[x] \in Int /\ g[x] >= 0
    BY <1>4, <1>6, <1>8 DEF TakesAny, Terms
  <1> QED
    BY <1>6, <1>7, <1>10, <1>11

(* Squares: the sum of squares is at most the square of the sum, and that  *)
(* at most as many times the sum of squares as there are terms.            *)
LEMMA SquareStep ==
    ASSUME NEW n \in Nat, NEW q \in Nat, NEW g \in Nat, NEW x \in Nat,
           q <= g * g, g * g <= n * q, n = 0 => g = 0 /\ q = 0
    PROVE  /\ q + x * x <= (g + x) * (g + x)
           /\ (g + x) * (g + x) <= (n + 1) * (q + x * x)
  <1>1. /\ g * g \in Nat /\ x * x \in Nat /\ g * x \in Nat /\ n * q \in Nat
        /\ n * (x * x) \in Nat
    OBVIOUS
  <1>2. (g + x) * (g + x) = g * g + 2 * (g * x) + x * x
    OBVIOUS
  <1>3. (n + 1) * (q + x * x) = n * q + n * (x * x) + q + x * x
    OBVIOUS
  <1>4. 2 * (g * x) <= n * (x * x) + q
    <2>1. CASE n = 0
      BY <2>1
    <2>2. CASE n > 0
      <3>1. (n * x - g) * (n * x - g) >= 0
        <4>1. n * x - g \in Int
          OBVIOUS
        <4>2. \A d \in Int : d * d >= 0
          OBVIOUS
        <4> QED
          BY <4>1, <4>2
      <3>2. (n * x - g) * (n * x - g) = n * (n * (x * x)) - n * (2 * (g * x)) + g * g
        OBVIOUS
      <3>3. n * (n * (x * x) + q) = n * (n * (x * x)) + n * q
        OBVIOUS
      <3>4. n * (2 * (g * x)) <= n * (n * (x * x) + q)
        BY <1>1, <3>1, <3>2, <3>3
      <3>5. \A a, b \in Nat : n * a <= n * b => a <= b
        BY <2>2
      <3> QED
        BY <1>1, <3>4, <3>5
    <2> QED
      BY <2>1, <2>2
  <1> QED
    BY <1>1, <1>2, <1>3, <1>4

LEMMA SquaresBound ==
    ASSUME NEW f, Terms(f), \A x \in DOMAIN f : f[x] \in Nat, NEW v, AddsUp(f, v),
           NEW g, Terms(g), DOMAIN g = DOMAIN f, \A x \in DOMAIN f : g[x] = f[x] * f[x],
           NEW w, AddsUp(g, w)
    PROVE  /\ v \in Nat /\ w \in Nat
           /\ w <= v * v
           /\ v * v <= Cardinality(DOMAIN f) * w
  <1> DEFINE S == DOMAIN f
  <1>1. PICK F : IsSumOver(F, f, SUBSET S) /\ v = F[S]
    BY DEF AddsUp
  <1>2. PICK G : IsSumOver(G, g, SUBSET S) /\ w = G[S]
    BY DEF AddsUp
  <1> DEFINE Good(s) == /\ F[s] \in Nat /\ G[s] \in Nat
                        /\ G[s] <= F[s] * F[s]
                        /\ F[s] * F[s] <= Cardinality(s) * G[s]
             Bad == {s \in SUBSET S : ~Good(s)}
  <1> SUFFICES ASSUME Bad # {} PROVE FALSE
    BY <1>1, <1>2
  <1>3. PICK t \in Bad : \A u \in Bad : u \subseteq t => u = t
    <2>1. Bad \in SUBSET (SUBSET S) /\ IsFiniteSet(S)
      BY DEF Terms
    <2> HIDE DEF Bad, S
    <2> QED
      BY <2>1, MinimalSet
  <1>4. t \in SUBSET S /\ ~Good(t) /\ IsFiniteSet(t)
    <2>1. t \in SUBSET S /\ ~Good(t)
      OBVIOUS
    <2> QED
      BY <2>1, FS_Subset DEF Terms
  <1>5. F[{}] = 0 /\ Unfolds(F, f, S) /\ G[{}] = 0 /\ Unfolds(G, g, S)
    BY <1>1, <1>2, SumUnfolds
  <1>6. t # {}
    <2> SUFFICES ASSUME t = {} PROVE Good(t)
      BY <1>4
    <2>1. F[t] = 0 /\ G[t] = 0 /\ Cardinality(t) = 0
      BY <1>5, FS_EmptySet
    <2> HIDE DEF Bad
    <2> QED
      BY <2>1
  <1> DEFINE p == Pick(t)
             u == t \ {p}
  <1>7. p \in t /\ F[t] = f[p] + F[u] /\ G[t] = g[p] + G[u]
    BY <1>4, <1>5, <1>6 DEF Unfolds
  <1>8. u \in SUBSET S /\ u \notin Bad
    <2>1. u \in SUBSET S /\ u # t /\ u \subseteq t
      BY <1>4, <1>7
    <2> HIDE DEF Bad, u
    <2> QED
      BY <1>3, <2>1
  <1>9. Good(u)
    BY <1>8
  <1>10. f[p] \in Nat /\ g[p] = f[p] * f[p]
    BY <1>4, <1>7
  <1>11. /\ IsFiniteSet(u) /\ Cardinality(u) \in Nat
         /\ Cardinality(t) = Cardinality(u) + 1
    <2> HIDE DEF Bad, p
    <2>1. IsFiniteSet(u) /\ Cardinality(u) = Cardinality(t) - 1
      BY <1>4, <1>7, FS_RemoveElement
    <2>2. Cardinality(u) \in Nat /\ Cardinality(t) \in Nat
      BY <1>4, <2>1, FS_CardinalityType
    <2> QED
      BY <2>1, <2>2
  <1>12. Cardinality(u) = 0 => F[u] = 0 /\ G[u] = 0
    <2>1. Cardinality(u) = 0 => u = {}
      BY <1>11, FS_EmptySet
    <2> QED
      BY <1>5, <2>1
  <1> DEFINE n == Cardinality(u)
             q == G[u]
             a == F[u]
             x == f[p]
  <1>13. /\ n \in Nat /\ q \in Nat /\ a \in Nat /\ x \in Nat
         /\ q <= a * a /\ a * a <= n * q /\ (n = 0 => a = 0 /\ q = 0)
    BY <1>9, <1>10, <1>11, <1>12
  <1>14. F[t] = a + x /\ G[t] = q + x * x /\ Cardinality(t) = n + 1
    <2>1. F[t] = x + a /\ G[t] = x * x + q
      BY <1>7, <1>10
    <2>2. x * x \in Nat
      BY <1>13
    <2> HIDE DEF n, q, a, x
    <2> QED
      BY <1>11, <1>13, <2>1, <2>2 DEF n
  <1>15. F[t] \in Nat /\ G[t] \in Nat
    <2>1. x * x \in Nat
      BY <1>13
    <2> HIDE DEF n, q, a, x
    <2> QED
      BY <1>13, <1>14, <2>1
  <1>16. G[t] <= F[t] * F[t] /\ F[t] * F[t] <= Cardinality(t) * G[t]
    <2> HIDE DEF n, q, a, x
    <2>1. /\ q + x * x <= (a + x) * (a + x)
          /\ (a + x) * (a + x) <= (n + 1) * (q + x * x)
      BY <1>13, SquareStep
    <2> QED
      BY <1>14, <2>1
  <1> QED
    BY <1>4, <1>15, <1>16

(* The four sums of a snapshot.                                            *)
AbsFlows(flows) == [a \in DOMAIN flows |-> AbsVal(flows[a])]
SquaredFlows(flows) == [a \in DOMAIN flows |-> flows[a] * flows[a]]
LargeOf(flows) == {a \in DOMAIN flows : IsLarge(flows[a])}
LargeFlows(flows) == [a \in LargeOf(flows) |-> flows[a]]
WeighedFlows(flows, weight) == [a \in DOMAIN flows |-> flows[a] * weight[a]]

AbsSum(flows) == SumOver(DOMAIN flows, LAMBDA a : AbsVal(flows[a]))
SquaredSum(flows) == SumOver(DOMAIN flows, LAMBDA a : flows[a] * flows[a])
LargeSum(flows) == SumOver(LargeOf(flows), LAMBDA a : flows[a])
WeighedSum(flows, weight) == SumOver(DOMAIN flows, LAMBDA a : flows[a] * weight[a])

FlowsOK(flows) == IsFiniteSet(DOMAIN flows) /\ \A a \in DOMAIN flows : flows[a] \in Int

LEMMA AbsFold ==
    ASSUME NEW flows, FlowsOK(flows)
    PROVE  Terms(AbsFlows(flows)) /\ AddsUp(AbsFlows(flows), AbsSum(flows))
  <1> DEFINE f == AbsFlows(flows)
             I == DOMAIN flows
             IsFold(F) == F = [t \in SUBSET I |-> IF t = {} THEN 0
                                 ELSE AbsVal(flows[Pick(t)]) + F[t \ {Pick(t)}]]
             F0 == CHOOSE it : IsFold(it)
  <1>1. IsFiniteSet(I)
    BY DEF FlowsOK
  <1>2. AbsSum(flows) = F0[I]
    BY DEF AbsSum, SumOver, MapThenSumSet, MapThenFoldSet, Pick
  <1>3. \A t \in SUBSET I : t # {} => f[Pick(t)] = AbsVal(flows[Pick(t)])
    BY PickFacts DEF AbsFlows
  <1>4. \A F : IsSumOver(F, f, SUBSET I) <=> IsFold(F)
    BY <1>3 DEF IsSumOver
  <1>5. \E F : IsFold(F)
    BY <1>1, <1>4, SumExists
  <1>6. IsSumOver(F0, f, SUBSET I)
    <2> HIDE DEF IsFold
    <2> QED
      BY <1>4, <1>5
  <1>7. Terms(f) /\ DOMAIN f = I
    BY <1>1 DEF FlowsOK, Terms, AbsFlows, AbsVal
  <1> QED
    BY <1>2, <1>6, <1>7 DEF AddsUp

LEMMA SquaredFold ==
    ASSUME NEW flows, FlowsOK(flows)
    PROVE  Terms(SquaredFlows(flows)) /\ AddsUp(SquaredFlows(flows), SquaredSum(flows))
  <1> DEFINE f == SquaredFlows(flows)
             I == DOMAIN flows
             IsFold(F) == F = [t \in SUBSET I |-> IF t = {} THEN 0
                                 ELSE flows[Pick(t)] * flows[Pick(t)] + F[t \ {Pick(t)}]]
             F0 == CHOOSE it : IsFold(it)
  <1>1. IsFiniteSet(I)
    BY DEF FlowsOK
  <1>2. SquaredSum(flows) = F0[I]
    BY DEF SquaredSum, SumOver, MapThenSumSet, MapThenFoldSet, Pick
  <1>3. \A t \in SUBSET I : t # {} => f[Pick(t)] = flows[Pick(t)] * flows[Pick(t)]
    BY PickFacts DEF SquaredFlows
  <1>4. \A F : IsSumOver(F, f, SUBSET I) <=> IsFold(F)
    BY <1>3 DEF IsSumOver
  <1>5. \E F : IsFold(F)
    BY <1>1, <1>4, SumExists
  <1>6. IsSumOver(F0, f, SUBSET I)
    <2> HIDE DEF IsFold
    <2> QED
      BY <1>4, <1>5
  <1>7. Terms(f) /\ DOMAIN f = I
    BY <1>1 DEF FlowsOK, Terms, SquaredFlows
  <1> QED
    BY <1>2, <1>6, <1>7 DEF AddsUp

LEMMA LargeFold ==
    ASSUME NEW flows, FlowsOK(flows)
    PROVE  Terms(LargeFlows(flows)) /\ AddsUp(LargeFlows(flows), LargeSum(flows))
  <1> DEFINE f == LargeFlows(flows)
             I == LargeOf(flows)
             IsFold(F) == F = [t \in SUBSET I |-> IF t = {} THEN 0
                                 ELSE flows[Pick(t)] + F[t \ {Pick(t)}]]
             F0 == CHOOSE it : IsFold(it)
  <1>1. IsFiniteSet(I)
    BY FS_Subset DEF FlowsOK, LargeOf
  <1>2. LargeSum(flows) = F0[I]
    BY DEF LargeSum, SumOver, MapThenSumSet, MapThenFoldSet, Pick
  <1>3. \A t \in SUBSET I : t # {} => f[Pick(t)] = flows[Pick(t)]
    BY PickFacts DEF LargeFlows
  <1>4. \A F : IsSumOver(F, f, SUBSET I) <=> IsFold(F)
    BY <1>3 DEF IsSumOver
  <1>5. \E F : IsFold(F)
    BY <1>1, <1>4, SumExists
  <1>6. IsSumOver(F0, f, SUBSET I)
    <2> HIDE DEF IsFold
    <2> QED
      BY <1>4, <1>5
  <1>7. Terms(f) /\ DOMAIN f = I
    BY <1>1 DEF FlowsOK, Terms, LargeFlows, LargeOf
  <1> QED
    BY <1>2, <1>6, <1>7 DEF AddsUp

LEMMA WeighedFold ==
    ASSUME NEW flows, FlowsOK(flows), NEW weight, \A a \in DOMAIN flows : weight[a] \in Int
    PROVE  /\ Terms(WeighedFlows(flows, weight))
           /\ AddsUp(WeighedFlows(flows, weight), WeighedSum(flows, weight))
  <1> DEFINE f == WeighedFlows(flows, weight)
             I == DOMAIN flows
             IsFold(F) == F = [t \in SUBSET I |-> IF t = {} THEN 0
                                 ELSE flows[Pick(t)] * weight[Pick(t)] + F[t \ {Pick(t)}]]
             F0 == CHOOSE it : IsFold(it)
  <1>1. IsFiniteSet(I)
    BY DEF FlowsOK
  <1>2. WeighedSum(flows, weight) = F0[I]
    BY DEF WeighedSum, SumOver, MapThenSumSet, MapThenFoldSet, Pick
  <1>3. \A t \in SUBSET I : t # {} => f[Pick(t)] = flows[Pick(t)] * weight[Pick(t)]
    BY PickFacts DEF WeighedFlows
  <1>4. \A F : IsSumOver(F, f, SUBSET I) <=> IsFold(F)
    BY <1>3 DEF IsSumOver
  <1>5. \E F : IsFold(F)
    BY <1>1, <1>4, SumExists
  <1>6. IsSumOver(F0, f, SUBSET I)
    <2> HIDE DEF IsFold
    <2> QED
      BY <1>4, <1>5
  <1>7. Terms(f) /\ DOMAIN f = I
    BY <1>1 DEF FlowsOK, Terms, WeighedFlows
  <1> QED
    BY <1>2, <1>6, <1>7 DEF AddsUp

(* How they compare.                                                       *)
LEMMA FlowSums ==
    ASSUME NEW flows, FlowsOK(flows), NEW weight, \A a \in DOMAIN flows : weight[a] \in 0..8
    PROVE  LET gross == AbsSum(flows)
               squares == SquaredSum(flows)
           IN  /\ gross \in Nat /\ squares \in Nat
               /\ squares <= gross * gross
               /\ gross * gross <= Cardinality(DOMAIN flows) * squares
               /\ AbsVal(LargeSum(flows)) <= gross
               /\ AbsVal(WeighedSum(flows, weight)) <= 8 * gross
  <1> DEFINE abs == AbsFlows(flows)
             sq == SquaredFlows(flows)
             large == LargeFlows(flows)
             weighed == WeighedFlows(flows, weight)
             gross == AbsSum(flows)
             squares == SquaredSum(flows)
  <1>1. /\ Terms(abs) /\ AddsUp(abs, gross) /\ Terms(sq) /\ AddsUp(sq, squares)
        /\ Terms(large) /\ AddsUp(large, LargeSum(flows))
        /\ Terms(weighed) /\ AddsUp(weighed, WeighedSum(flows, weight))
    BY AbsFold, SquaredFold, LargeFold, WeighedFold
  <1>2. /\ DOMAIN abs = DOMAIN flows /\ DOMAIN sq = DOMAIN flows
        /\ DOMAIN weighed = DOMAIN flows /\ DOMAIN large = LargeOf(flows)
        /\ LargeOf(flows) \subseteq DOMAIN flows
        /\ \A a \in DOMAIN flows : /\ abs[a] = AbsVal(flows[a])
                                   /\ sq[a] = flows[a] * flows[a]
                                   /\ weighed[a] = flows[a] * weight[a]
        /\ \A a \in LargeOf(flows) : large[a] = flows[a]
    BY DEF AbsFlows, SquaredFlows, LargeFlows, WeighedFlows, LargeOf
  <1>3. \A a \in DOMAIN flows : abs[a] \in Nat /\ sq[a] = abs[a] * abs[a]
    BY <1>2 DEF AbsVal, FlowsOK
  <1>4. \A a \in DOMAIN flows : AbsVal(weighed[a]) <= 8 * abs[a]
    <2> SUFFICES ASSUME NEW a \in DOMAIN flows PROVE AbsVal(flows[a] * weight[a]) <= 8 * abs[a]
      BY <1>2
    <2>1. flows[a] \in Int /\ weight[a] \in 0..8
      BY DEF FlowsOK
    <2>2. \A x \in Int, y \in 0..8 : AbsVal(x * y) <= 8 * AbsVal(x)
      <3> SUFFICES ASSUME NEW x \in Int, NEW y \in 0..8 PROVE AbsVal(x * y) <= 8 * AbsVal(x)
        OBVIOUS
      <3> QED
        BY DEF AbsVal
    <2> QED
      BY <1>2, <2>1, <2>2
  <1> DEFINE part == [a \in LargeOf(flows) |-> abs[a]]
  <1>5. /\ Terms(part) /\ DOMAIN part = LargeOf(flows)
        /\ \A a \in LargeOf(flows) : part[a] = abs[a] /\ AbsVal(large[a]) <= 1 * part[a]
    <2>1. IsFiniteSet(LargeOf(flows))
      BY <1>2, FS_Subset DEF FlowsOK
    <2> QED
      BY <1>2, <1>3, <2>1 DEF Terms, AbsVal, FlowsOK
  <1>6. PICK P : IsSumOver(P, part, SUBSET DOMAIN part)
    BY <1>5, SumExists DEF Terms
  <1>7. AddsUp(part, P[DOMAIN part])
    BY <1>6 DEF AddsUp
  <1> DEFINE kept == P[DOMAIN part]
  <1> HIDE DEF abs, sq, large, weighed, gross, squares, part, kept
  <1>8. /\ gross \in Nat /\ squares \in Nat
        /\ squares <= gross * gross
        /\ gross * gross <= Cardinality(DOMAIN abs) * squares
    BY <1>1, <1>2, <1>3, SquaresBound
  <1>9. AbsVal(WeighedSum(flows, weight)) <= 8 * gross
    BY <1>1, <1>2, <1>4, SumBound
  <1>10. AddsUp(part, kept)
    BY <1>7 DEF kept
  <1>11. AbsVal(LargeSum(flows)) <= 1 * kept
    BY <1>1, <1>2, <1>5, <1>10, SumBound
  <1>12. kept <= gross /\ kept \in Int
    BY <1>1, <1>2, <1>3, <1>5, <1>10, PartBound, SumIsIntegral
  <1>13. LargeSum(flows) \in Int
    BY <1>1, SumIsIntegral
  <1>14. AbsVal(LargeSum(flows)) <= gross
    BY <1>8, <1>11, <1>12, <1>13 DEF AbsVal
  <1> QED
    BY <1>2, <1>8, <1>9, <1>14 DEF gross, squares

(* What a bucket holds of its fills bounds those sums: each wallet's flow  *)
(* moves by no more than the fill's notional.                              *)
BucketSane(b) ==
    /\ b.taker_buy + b.taker_sell <= b.volume
    /\ IsFiniteSet(DOMAIN b.wallet_flow)
    /\ \E v : AddsUp(AbsFlows(b.wallet_flow), v) /\ v <= b.volume

SaneInv == \A k \in DOMAIN open : BucketSane(open[k])

LEMMA NewBucketSane ==
    ASSUME NEW ts \in Nat
    PROVE  BucketSane(NewBucket(ts))
  <1> DEFINE b == NewBucket(ts)
  <1>1. /\ b.taker_buy = 0 /\ b.taker_sell = 0 /\ b.volume = 0
        /\ DOMAIN b.wallet_flow = {}
    BY NewBucketType DEF NewBucket
  <1>2. DOMAIN AbsFlows(b.wallet_flow) = {}
    BY <1>1 DEF AbsFlows
  <1> HIDE DEF b
  <1>3. AddsUp(AbsFlows(b.wallet_flow), 0) /\ 0 <= b.volume
    BY <1>1, <1>2, SumOfNoTerms
  <1> QED
    BY <1>1, <1>3, FS_EmptySet DEF BucketSane, b

LEMMA AddFillSane ==
    ASSUME NEW b, IsBucket(b), BucketSane(b), NEW f \in Fills
    PROVE  BucketSane(AddFill(b, f))
  <1> DEFINE b2 == AddFill(b, f)
             n == Notional(f)
             d == SignedNotional(f)
             flows == b.wallet_flow
             flows2 == b2.wallet_flow
  <1>1. /\ b2.volume = b.volume + n
        /\ b2.taker_buy = b.taker_buy + TakerBuy(f)
        /\ b2.taker_sell = b.taker_sell + TakerSell(f)
        /\ DOMAIN flows2 = DOMAIN flows \cup {f.addr}
        /\ IsBucket(b2)
    BY AddFillFacts
  <1>2. n \in Nat /\ d \in Int /\ TakerBuy(f) \in Nat /\ TakerSell(f) \in Nat
    BY FillFacts, TakerFacts
  <1>3. TakerBuy(f) + TakerSell(f) <= n
    BY <1>2 DEF TakerBuy, TakerSell
  <1>4. b.volume \in Nat /\ b.taker_buy \in Nat /\ b.taker_sell \in Nat
    BY DEF IsBucket
  <1>5. b2.taker_buy + b2.taker_sell <= b2.volume
    <2>1. b.taker_buy + b.taker_sell <= b.volume
      BY DEF BucketSane
    <2> HIDE DEF b2, n
    <2> QED
      BY <1>1, <1>2, <1>3, <1>4, <2>1
  <1>6. FlowsOK(flows) /\ FlowsOK(flows2)
    <2>1. IsFiniteSet(DOMAIN flows) /\ IsFiniteSet(DOMAIN flows \cup {f.addr})
      BY FS_AddElement DEF BucketSane
    <2>2. IsFlows(flows) /\ IsFlows(flows2)
      BY <1>1 DEF IsBucket
    <2> HIDE DEF b2
    <2> QED
      BY <1>1, <2>1, <2>2 DEF FlowsOK, IsFlows
  <1> DEFINE old == IF f.addr \in DOMAIN flows THEN AbsVal(flows[f.addr]) ELSE 0
  <1>7. /\ flows2[f.addr] = Flow(flows, f.addr) + d
        /\ \A a \in DOMAIN flows \ {f.addr} : flows2[a] = flows[a]
    BY DEF AddFill, AddFlow
  <1>8. PICK v : AddsUp(AbsFlows(flows), v) /\ v <= b.volume
    BY DEF BucketSane
  <1>9. /\ Terms(AbsFlows(flows)) /\ Terms(AbsFlows(flows2))
        /\ Becomes(AbsFlows(flows), AbsFlows(flows2), f.addr)
    <2> HIDE DEF b2
    <2> QED
      BY <1>1, <1>6, <1>7, AbsFold DEF Becomes, AbsFlows
  <1>10. /\ AbsFlows(flows2)[f.addr] = AbsVal(Flow(flows, f.addr) + d)
         /\ (IF f.addr \in DOMAIN AbsFlows(flows) THEN AbsFlows(flows)[f.addr] ELSE 0) = old
    <2> HIDE DEF b2
    <2> QED
      BY <1>1, <1>7 DEF AbsFlows
  <1> DEFINE new == AbsVal(Flow(flows, f.addr) + d)
  <1>11. old \in Int /\ new \in Int /\ new - old <= n
    <2>1. d = n \/ d = -n
      BY DEF SignedNotional
    <2>2. Flow(flows, f.addr) \in Int /\ old = AbsVal(Flow(flows, f.addr))
      BY <1>6 DEF Flow, FlowsOK, AbsVal
    <2> HIDE DEF n, d, old
    <2> QED
      BY <1>2, <2>1, <2>2 DEF AbsVal
  <1>12. AddsUp(AbsFlows(flows2), v + new - old)
    <2> HIDE DEF b2, old, new
    <2>1. AddsUp(AbsFlows(flows2), v + AbsFlows(flows2)[f.addr]
             - (IF f.addr \in DOMAIN AbsFlows(flows) THEN AbsFlows(flows)[f.addr] ELSE 0))
      BY <1>8, <1>9, SumFollows
    <2> QED
      BY <1>10, <2>1 DEF new
  <1>13. v \in Int
    BY <1>8, <1>9, SumIsIntegral
  <1>14. v + new - old <= b2.volume
    <2> HIDE DEF b2, n, d, old, new
    <2> QED
      BY <1>1, <1>2, <1>4, <1>8, <1>11, <1>13
  <1> HIDE DEF b2, old, new
  <1> QED
    BY <1>5, <1>6, <1>12, <1>14 DEF BucketSane, FlowsOK, b2

LEMMA SaneStep ==
    ASSUME WindowsTypeOK, SaneInv, NEW f \in Fills, NEW weight, UpdateWindows(f, weight)
    PROVE  SaneInv'
  <1>1. /\ DOMAIN open' = DOMAIN open \cup ({f.coin} \X Windows)
        /\ \A k \in DOMAIN open' : open'[k] = BucketAfter(f, k)
        /\ \A k \in DOMAIN open : k[1] # f.coin => open'[k] = open[k]
        /\ WindowsTypeOK'
    BY UpdateType
  <1>2. ASSUME NEW w \in Windows PROVE BucketSane(BucketAfter(f, <<f.coin, w>>))
    <2> DEFINE k == <<f.coin, w>>
               ts == BucketTs(f, w)
    <2>1. ts \in Nat
      BY FillFacts, FloorFacts
    <2>2. BucketSane(AddFill(NewBucket(ts), f))
      BY <2>1, NewBucketType, NewBucketSane, AddFillSane
    <2>3. CASE k \notin DOMAIN open
      BY <2>2, <2>3, BucketAfterFacts
    <2>4. CASE k \in DOMAIN open
      <3>1. /\ BucketSane(open[k]) /\ IsBucket(open[k])
            /\ open[k].bucket_ts \in Nat
        BY <2>4 DEF SaneInv, WindowsTypeOK, IsBucket
      <3>2. BucketSane(AddFill(open[k], f))
        BY <3>1, AddFillSane
      <3>3. ts > open[k].bucket_ts \/ ts = open[k].bucket_ts \/ ts < open[k].bucket_ts
        BY <2>1, <3>1
      <3>4. BucketAfter(f, k) \in {open[k], AddFill(open[k], f), AddFill(NewBucket(ts), f)}
        BY <2>4, <3>3, BucketAfterFacts
      <3> HIDE DEF k, ts
      <3> QED
        BY <2>2, <3>1, <3>2, <3>4 DEF k
    <2> QED
      BY <2>3, <2>4
  <1> SUFFICES ASSUME NEW k \in DOMAIN open' PROVE BucketSane(open'[k])
    BY DEF SaneInv, BucketSane
  <1>3. CASE k[1] = f.coin
    <2>1. PICK w \in Windows : k = <<f.coin, w>>
      BY <1>1, <1>3 DEF WindowsTypeOK, Keys
    <2> QED
      BY <1>1, <1>2, <2>1
  <1>4. CASE k[1] # f.coin
    <2>1. k \in DOMAIN open /\ open'[k] = open[k]
      BY <1>1, <1>4
    <2> QED
      BY <2>1 DEF SaneInv
  <1> QED
    BY <1>3, <1>4

(* wallet_weight is at most one, eight eighths.                            *)
LEMMA WeightBound ==
    ASSUME NEW dict, NEW a
    PROVE  WalletWeight(dict, a) \in 0..8
  BY DEF WalletWeight

LEMMA RowsAreSane ==
    ASSUME WindowsTypeOK, SaneInv
    PROVE  SnapshotsSane
  <1> SUFFICES ASSUME NEW k \in DOMAIN open
               PROVE  SaneRow(OpenSnapshots[k], Gross(open[k]))
    BY DEF SnapshotsSane
  <1> DEFINE b == open[k]
             flows == b.wallet_flow
             weight == Weights(wallets)
             row == Snapshot(b, weight)
             gross == AbsSum(flows)
             squares == SquaredSum(flows)
  <1>1. OpenSnapshots[k] = row
    BY DEF OpenSnapshots
  <1>2. IsBucket(b) /\ BucketSane(b)
    BY DEF WindowsTypeOK, SaneInv
  <1>3. FlowsOK(flows) /\ DOMAIN flows \subseteq Addrs
    BY <1>2 DEF IsBucket, IsFlows, BucketSane, FlowsOK
  <1>4. \A a \in DOMAIN flows : weight[a] \in 0..8
    BY <1>3, WeightBound DEF Weights
  <1> HIDE DEF weight
  <1>5. /\ gross \in Nat /\ squares \in Nat
        /\ squares <= gross * gross
        /\ gross * gross <= Cardinality(DOMAIN flows) * squares
        /\ AbsVal(LargeSum(flows)) <= gross
        /\ AbsVal(WeighedSum(flows, weight)) <= 8 * gross
    BY <1>3, <1>4, FlowSums
  <1>6. gross <= b.volume
    <2>1. PICK v : AddsUp(AbsFlows(flows), v) /\ v <= b.volume
      BY <1>2 DEF BucketSane
    <2>2. gross = v
      BY <1>3, <2>1, AbsFold, SumIsUnique
    <2> QED
      BY <2>1, <2>2
  <1>7. Gross(b) = gross
    BY DEF Gross, AbsSum
  <1>8. /\ row.large_flow = LargeSum(flows)
        /\ row.smart_flow = WeighedSum(flows, weight)
        /\ row.active_wallets = Cardinality(DOMAIN flows)
        /\ row.hhi = Ratio(squares, gross * gross)
    BY <1>7 DEF Snapshot, LargeSum, LargeOf, WeighedSum, SquaredSum
  <1>9. /\ row.imbalance = Ratio(b.taker_buy - b.taker_sell, b.taker_buy + b.taker_sell)
        /\ row.taker_buy = b.taker_buy /\ row.taker_sell = b.taker_sell
        /\ row.volume = b.volume
    BY DEF Snapshot
  <1> HIDE DEF row, gross, squares
  <1>10. /\ b.taker_buy \in Nat /\ b.taker_sell \in Nat /\ b.volume \in Nat
         /\ b.taker_buy + b.taker_sell <= b.volume
    BY <1>2 DEF IsBucket, BucketSane
  <1>11. AbsVal(row.imbalance[1]) <= row.imbalance[2]
    BY <1>9, <1>10 DEF Ratio, AbsVal
  <1>12. gross > 0 => /\ row.hhi[1] <= row.hhi[2]
                      /\ row.hhi[2] <= row.hhi[1] * row.active_wallets
    <2> SUFFICES ASSUME gross > 0
                 PROVE  /\ row.hhi[1] <= row.hhi[2]
                        /\ row.hhi[2] <= row.hhi[1] * row.active_wallets
      OBVIOUS
    <2>1. gross * gross > 0
      BY <1>5
    <2>2. row.hhi = <<squares, gross * gross>>
      BY <1>8, <2>1 DEF Ratio
    <2>3. Cardinality(DOMAIN flows) \in Nat
      BY <1>3, FS_CardinalityType DEF FlowsOK
    <2>4. Cardinality(DOMAIN flows) * squares = squares * Cardinality(DOMAIN flows)
      BY <1>5, <2>3
    <2> QED
      BY <1>5, <1>8, <2>2, <2>4
  <1>13. SaneRow(row, gross)
    BY <1>5, <1>6, <1>8, <1>9, <1>10, <1>11, <1>12 DEF SaneRow
  <1> QED
    BY <1>1, <1>7, <1>13

-----------------------------------------------------------------------------
(* Entries. A leg is described by its first arrival, the latest at which   *)
(* the position left zero or changed sign. What is known of an entry is    *)
(* known for any sequence of fills, so that a fill can be compared with    *)
(* those before it.                                                        *)
KeyArrivals(s, k) == {i \in DOMAIN s : s[i].addr = k[1] /\ s[i].coin = k[2]}
SizesAt(s, I) == [i \in I |-> SignedSz(s[i])]
SizeIn(s, I) == MapThenSumSet(LAMBDA i : SignedSz(s[i]), I)

UpTo(s, k, i) == {j \in KeyArrivals(s, k) : j <= i}
PosAt(s, k, i) == SizeIn(s, UpTo(s, k, i))

Starts(s, k) ==
    {i \in KeyArrivals(s, k) :
        PosAt(s, k, i - 1) = 0 \/ PosAt(s, k, i - 1) * PosAt(s, k, i) < 0}

LegFrom(s, k, first) == {i \in KeyArrivals(s, k) : i >= first}
OpeningOf(s, k, first, pos) == {i \in LegFrom(s, k, first) : SignedSz(s[i]) * pos > 0}

CostOf(s, k, first) ==
    AbsVal(PosAt(s, k, first)) * s[first].px + NotionalIn(s, LegFrom(s, k, first) \ {first})

FirstOfLeg(s, k, first) ==
    first \in Starts(s, k) /\ \A i \in Starts(s, k) : i <= first

EntryOfLeg(s, k, p, first) ==
    /\ \E i \in OpeningOf(s, k, first, p.net_pos) : s[i].px * p.avg_entry[2] <= p.avg_entry[1]
    /\ \E i \in OpeningOf(s, k, first, p.net_pos) : p.avg_entry[1] <= s[i].px * p.avg_entry[2]
    /\ OpeningOf(s, k, first, p.net_pos) = LegFrom(s, k, first) =>
          p.avg_entry[1] * AbsVal(p.net_pos) = p.avg_entry[2] * CostOf(s, k, first)

EntryFits(s, k, p) ==
    /\ p.net_pos = SizeIn(s, KeyArrivals(s, k))
    /\ p.net_pos \in Int /\ p.avg_entry \in Nat \X (Nat \ {0})
    /\ p.net_pos # 0 => \E first : FirstOfLeg(s, k, first) /\ EntryOfLeg(s, k, p, first)

LEMMA SizeFold ==
    ASSUME NEW s \in Seq(Fills), NEW I \in SUBSET DOMAIN s
    PROVE  Terms(SizesAt(s, I)) /\ AddsUp(SizesAt(s, I), SizeIn(s, I))
  <1> DEFINE f == SizesAt(s, I)
             IsFold(F) == F = [t \in SUBSET I |-> IF t = {} THEN 0
                                 ELSE SignedSz(s[Pick(t)]) + F[t \ {Pick(t)}]]
             F0 == CHOOSE it : IsFold(it)
  <1>1. IsFiniteSet(I) /\ \A i \in I : s[i] \in Fills
    BY ArrivalFacts
  <1>2. \A g \in Fills : SignedSz(g) \in Int
    BY FillsAssumption DEF SignedSz
  <1>3. SizeIn(s, I) = F0[I]
    BY DEF SizeIn, MapThenSumSet, MapThenFoldSet, Pick
  <1>4. \A t \in SUBSET I : t # {} => f[Pick(t)] = SignedSz(s[Pick(t)])
    BY PickFacts DEF SizesAt
  <1>5. \A F : IsSumOver(F, f, SUBSET I) <=> IsFold(F)
    BY <1>4 DEF IsSumOver
  <1>6. \E F : IsFold(F)
    BY <1>1, <1>5, SumExists
  <1>7. IsSumOver(F0, f, SUBSET I)
    <2> HIDE DEF IsFold
    <2> QED
      BY <1>5, <1>6
  <1>8. Terms(f) /\ DOMAIN f = I
    BY <1>1, <1>2 DEF Terms, SizesAt
  <1> QED
    BY <1>3, <1>7, <1>8 DEF AddsUp

(* One arrival more.                                                       *)
LEMMA SizeGains ==
    ASSUME NEW s \in Seq(Fills), NEW f \in Fills, NEW I \in SUBSET DOMAIN s
    PROVE  LET s2 == Append(s, f)
               n == Len(s) + 1
           IN  /\ SizeIn(s, I) \in Int
               /\ SizeIn(s2, I) = SizeIn(s, I)
               /\ SizeIn(s2, I \cup {n}) = SizeIn(s, I) + SignedSz(f)
  <1> DEFINE s2 == Append(s, f)
             n == Len(s) + 1
             J == I \cup {n}
  <1>1. /\ s2 \in Seq(Fills) /\ DOMAIN s = 1..Len(s) /\ DOMAIN s2 = 1..n /\ Len(s) \in Nat
        /\ \A i \in DOMAIN s : s2[i] = s[i]
        /\ s2[n] = f
    BY AppendProperties, LenProperties
  <1>2. I \in SUBSET DOMAIN s2 /\ J \in SUBSET DOMAIN s2 /\ n \notin I
    BY <1>1
  <1> HIDE DEF s2, n
  <1> DEFINE g == SizesAt(s, I)
             h == SizesAt(s2, J)
  <1>3. /\ Terms(g) /\ AddsUp(g, SizeIn(s, I))
        /\ Terms(h) /\ AddsUp(h, SizeIn(s2, J))
        /\ AddsUp(SizesAt(s2, I), SizeIn(s2, I))
    <2> HIDE DEF J
    <2> QED
      BY <1>1, <1>2, SizeFold
  <1>4. SizesAt(s2, I) = g
    BY <1>1 DEF SizesAt
  <1>5. /\ DOMAIN g = I /\ DOMAIN h = DOMAIN g \cup {n}
        /\ h[n] = SignedSz(f) /\ \A y \in DOMAIN g : h[y] = g[y]
    BY <1>1, <1>2 DEF SizesAt
  <1>6. SignedSz(f) \in Int
    BY FillsAssumption DEF SignedSz
  <1> HIDE DEF g, h
  <1>7. SizeIn(s2, I) = SizeIn(s, I)
    BY <1>3, <1>4, SumIsUnique
  <1>8. /\ SizeIn(s, I) \in Int
        /\ SizeIn(s2, J) = SizeIn(s, I) + h[n] - (IF n \in DOMAIN g THEN g[n] ELSE 0)
    BY <1>3, <1>5, SumChanges
  <1>9. SizeIn(s2, J) = SizeIn(s, I) + SignedSz(f)
    BY <1>2, <1>5, <1>6, <1>8
  <1> QED
    BY <1>7, <1>8, <1>9 DEF s2, n

(* The arrivals before a fill stay as they are.                            *)
LEMMA AppendFacts ==
    ASSUME NEW s \in Seq(Fills), NEW f \in Fills
    PROVE  LET s2 == Append(s, f)
               n == Len(s) + 1
           IN  /\ s2 \in Seq(Fills) /\ DOMAIN s = 1..Len(s) /\ DOMAIN s2 = DOMAIN s \cup {n}
               /\ n \in Nat /\ n \notin DOMAIN s /\ \A i \in DOMAIN s : i < n /\ i \in Nat
               /\ \A i \in DOMAIN s : s2[i] = s[i]
               /\ s2[n] = f
  BY AppendProperties, LenProperties

LEMMA EarlierStay ==
    ASSUME NEW s \in Seq(Fills), NEW f \in Fills, NEW k
    PROVE  LET s2 == Append(s, f)
               n == Len(s) + 1
           IN  /\ KeyArrivals(s2, k) = IF f.addr = k[1] /\ f.coin = k[2]
                                       THEN KeyArrivals(s, k) \cup {n} ELSE KeyArrivals(s, k)
               /\ \A i \in Int : i < n => /\ UpTo(s2, k, i) = UpTo(s, k, i)
                                          /\ PosAt(s2, k, i) = PosAt(s, k, i)
               /\ UpTo(s, k, n - 1) = KeyArrivals(s, k)
               /\ \A i \in Starts(s2, k) : i \in Starts(s, k) \/ i = n
               /\ Starts(s, k) \subseteq Starts(s2, k)
  <1> DEFINE s2 == Append(s, f)
             n == Len(s) + 1
  <1>1. /\ DOMAIN s = 1..Len(s) /\ DOMAIN s2 = DOMAIN s \cup {n}
        /\ n \in Nat /\ n \notin DOMAIN s /\ (\A i \in DOMAIN s : i < n /\ i \in Nat)
        /\ \A i \in DOMAIN s : s2[i] = s[i]
        /\ s2[n] = f /\ Len(s) \in Nat
    BY AppendFacts, LenProperties
  <1> HIDE DEF s2
  <1>2. KeyArrivals(s2, k) = IF f.addr = k[1] /\ f.coin = k[2]
                             THEN KeyArrivals(s, k) \cup {n} ELSE KeyArrivals(s, k)
    BY <1>1 DEF KeyArrivals
  <1>3. \A i \in Int : i < n => UpTo(s2, k, i) = UpTo(s, k, i)
    BY <1>1, <1>2 DEF UpTo
  <1>4. \A i : UpTo(s, k, i) \in SUBSET DOMAIN s
    BY DEF UpTo, KeyArrivals
  <1>5. \A i \in Int : i < n => PosAt(s2, k, i) = PosAt(s, k, i)
    <2>1. \A I \in SUBSET DOMAIN s : SizeIn(s2, I) = SizeIn(s, I)
      BY SizeGains DEF s2
    <2> QED
      BY <1>3, <1>4, <2>1 DEF PosAt
  <1>6. UpTo(s, k, n - 1) = KeyArrivals(s, k)
    BY <1>1 DEF UpTo, KeyArrivals
  <1>7. \A i \in KeyArrivals(s, k) : i \in Int /\ i < n /\ i - 1 \in Int /\ i - 1 < n
    BY <1>1 DEF KeyArrivals
  <1>8. /\ \A i \in Starts(s2, k) : i \in Starts(s, k) \/ i = n
        /\ Starts(s, k) \subseteq Starts(s2, k)
    BY <1>2, <1>5, <1>7 DEF Starts
  <1> QED
    BY <1>2, <1>3, <1>5, <1>6, <1>8 DEF s2


(* Signs and products.                                                     *)
LEMMA ProductSign ==
    ASSUME NEW x \in Int, NEW y \in Int
    PROVE  /\ x * y > 0 <=> (x > 0 /\ y > 0) \/ (x < 0 /\ y < 0)
           /\ x * y < 0 <=> (x > 0 /\ y < 0) \/ (x < 0 /\ y > 0)
  <1>1. x > 0 /\ y > 0 => x * y > 0
    OBVIOUS
  <1>2. x < 0 /\ y < 0 => x * y > 0
    OBVIOUS
  <1>3. x > 0 /\ y < 0 => x * y < 0
    OBVIOUS
  <1>4. x < 0 /\ y > 0 => x * y < 0
    OBVIOUS
  <1>5. x = 0 \/ y = 0 => x * y = 0
    OBVIOUS
  <1>6. x * y \in Int
    OBVIOUS
  <1> DEFINE z == x * y
  <1> HIDE DEF z
  <1>7. /\ z > 0 <=> (x > 0 /\ y > 0) \/ (x < 0 /\ y < 0)
        /\ z < 0 <=> (x > 0 /\ y < 0) \/ (x < 0 /\ y > 0)
    BY <1>1, <1>2, <1>3, <1>4, <1>5, <1>6 DEF z
  <1> QED
    BY <1>7 DEF z

LEMMA TimesMonotone ==
    ASSUME NEW a \in Nat, NEW x \in Int, NEW y \in Int, x <= y
    PROVE  a * x <= a * y
  <1>1. a * (y - x) >= 0
    OBVIOUS
  <1>2. a * (y - x) = a * y - a * x
    OBVIOUS
  <1> QED
    BY <1>1, <1>2

(* A weighted average of num / den and px is between bounds of both, and   *)
(* adds up the costs.                                                      *)
LEMMA WeightedBetween ==
    ASSUME NEW a \in Nat, NEW d \in Nat, NEW px \in Nat, NEW num \in Nat, NEW den \in Nat,
           NEW q \in Nat
    PROVE  /\ q * den <= num /\ q <= px => q * ((a + d) * den) <= a * num + d * px * den
           /\ num <= q * den /\ px <= q => a * num + d * px * den <= q * ((a + d) * den)
  <1>1. q * ((a + d) * den) = a * (q * den) + (d * den) * q
    OBVIOUS
  <1>2. d * px * den = (d * den) * px /\ d * den \in Nat /\ q * den \in Nat
    OBVIOUS
  <1> DEFINE u == q * den
             v == d * den
  <1>3. /\ u <= num => a * u <= a * num
        /\ num <= u => a * num <= a * u
        /\ q <= px => v * q <= v * px
        /\ px <= q => v * px <= v * q
    <2> u \in Nat /\ v \in Nat
      BY <1>2
    <2> HIDE DEF u, v
    <2> QED
      BY TimesMonotone
  <1>4. a * u \in Int /\ a * num \in Int /\ v * q \in Int /\ v * px \in Int
    OBVIOUS
  <1> DEFINE au == a * u
             an == a * num
             vq == v * q
             vp == v * px
  <1>5. /\ q * ((a + d) * den) = au + vq
        /\ a * num + d * px * den = an + vp
    BY <1>1, <1>2
  <1>6. /\ u <= num => au <= an
        /\ num <= u => an <= au
        /\ q <= px => vq <= vp
        /\ px <= q => vp <= vq
    BY <1>3
  <1>7. au \in Int /\ an \in Int /\ vq \in Int /\ vp \in Int
    BY <1>4
  <1> HIDE DEF au, an, vq, vp
  <1> QED
    BY <1>5, <1>6, <1>7

LEMMA WeightedCost ==
    ASSUME NEW a \in Nat, NEW d \in Nat, NEW px \in Nat, NEW num \in Nat, NEW den \in Nat,
           NEW cost \in Int, num * a = den * cost
    PROVE  (a * num + d * px * den) * (a + d) = ((a + d) * den) * (cost + px * d)
  <1>1. a * num + d * px * den = den * (cost + px * d)
    <2>1. den * (cost + px * d) = den * cost + d * px * den
      OBVIOUS
    <2>2. a * num = num * a
      OBVIOUS
    <2> QED
      BY <2>1, <2>2
  <1> DEFINE c == cost + px * d
  <1>2. c \in Int
    OBVIOUS
  <1>3. (den * c) * (a + d) = ((a + d) * den) * c
    <2> HIDE DEF c
    <2> QED
      BY <1>2
  <1> QED
    BY <1>1, <1>3

(* A fill of another wallet or coin changes no entry.                      *)
LEMMA EntryStays ==
    ASSUME NEW s \in Seq(Fills), NEW f \in Fills, NEW k, ~(f.addr = k[1] /\ f.coin = k[2]),
           NEW p, EntryFits(s, k, p)
    PROVE  EntryFits(Append(s, f), k, p)
  <1> DEFINE s2 == Append(s, f)
             n == Len(s) + 1
             K == KeyArrivals(s, k)
  <1>1. /\ n \notin K /\ K \subseteq DOMAIN s /\ K \subseteq Nat
        /\ \A i \in K : i < n /\ s2[i] = s[i]
    BY AppendFacts DEF KeyArrivals
  <1>2. /\ KeyArrivals(s2, k) = K
        /\ \A i \in Int : i < n => PosAt(s2, k, i) = PosAt(s, k, i)
        /\ \A i \in Starts(s2, k) : i \in Starts(s, k) \/ i = n
        /\ Starts(s, k) \subseteq Starts(s2, k)
    BY EarlierStay
  <1>3. \A I \in SUBSET DOMAIN s :
            SizeIn(s2, I) = SizeIn(s, I) /\ NotionalIn(s2, I) = NotionalIn(s, I)
    BY SizeGains, SumsGain
  <1> HIDE DEF s2, n, K
  <1>4. Starts(s2, k) \subseteq K /\ Starts(s, k) \subseteq K
    BY <1>2 DEF Starts, K
  <1>5. Starts(s2, k) = Starts(s, k)
    BY <1>1, <1>2, <1>4
  <1>6. \A first : LegFrom(s2, k, first) = LegFrom(s, k, first) /\ LegFrom(s, k, first) \subseteq K
    BY <1>2 DEF LegFrom, K
  <1>7. \A first : OpeningOf(s2, k, first, p.net_pos) = OpeningOf(s, k, first, p.net_pos)
                   /\ OpeningOf(s, k, first, p.net_pos) \subseteq K
    BY <1>1, <1>6 DEF OpeningOf
  <1>8. ASSUME NEW first, FirstOfLeg(s, k, first), EntryOfLeg(s, k, p, first)
        PROVE  FirstOfLeg(s2, k, first) /\ EntryOfLeg(s2, k, p, first)
    <2>1. first \in K
      BY <1>4, <1>8 DEF FirstOfLeg
    <2>2. CostOf(s2, k, first) = CostOf(s, k, first)
      <3>1. LegFrom(s, k, first) \ {first} \in SUBSET DOMAIN s
        BY <1>1, <1>6
      <3>2. NotionalIn(s2, LegFrom(s2, k, first) \ {first})
              = NotionalIn(s, LegFrom(s, k, first) \ {first})
        BY <1>3, <1>6, <3>1
      <3> QED
        BY <1>1, <1>2, <2>1, <3>2 DEF CostOf
    <2>3. FirstOfLeg(s2, k, first)
      BY <1>5, <1>8 DEF FirstOfLeg
    <2> QED
      BY <1>1, <1>6, <1>7, <1>8, <2>2, <2>3 DEF EntryOfLeg
  <1>9. SizeIn(s2, KeyArrivals(s2, k)) = SizeIn(s, KeyArrivals(s, k))
    BY <1>1, <1>2, <1>3 DEF K
  <1> QED
    BY <1>8, <1>9 DEF EntryFits, s2


(* A fill of this position, seen from the arrivals before it.              *)
LEMMA EntryArrives ==
    ASSUME NEW s \in Seq(Fills), NEW f \in Fills, NEW k, f.addr = k[1], f.coin = k[2]
    PROVE  LET s2 == Append(s, f)
               n == Len(s) + 1
               K == KeyArrivals(s, k)
               pos == SizeIn(s, K)
           IN  /\ pos \in Int
               /\ KeyArrivals(s2, k) = K \cup {n} /\ K \subseteq DOMAIN s
               /\ SizeIn(s2, KeyArrivals(s2, k)) = pos + SignedSz(f)
               /\ PosAt(s2, k, n - 1) = pos /\ PosAt(s2, k, n) = pos + SignedSz(f)
  <1> DEFINE s2 == Append(s, f)
             n == Len(s) + 1
             K == KeyArrivals(s, k)
  <1>1. /\ KeyArrivals(s2, k) = K \cup {n} /\ UpTo(s, k, n - 1) = K
        /\ \A i \in Int : i < n => PosAt(s2, k, i) = PosAt(s, k, i)
    BY EarlierStay
  <1>2. K \in SUBSET DOMAIN s /\ n \in Nat /\ n - 1 \in Int /\ n - 1 < n
        /\ \A i \in K : i < n /\ i \in Nat
    BY AppendFacts DEF KeyArrivals
  <1>3. SizeIn(s, K) \in Int /\ SizeIn(s2, K \cup {n}) = SizeIn(s, K) + SignedSz(f)
    BY <1>2, SizeGains
  <1> HIDE DEF s2, n, K
  <1>4. PosAt(s2, k, n - 1) = SizeIn(s, K)
    BY <1>1, <1>2 DEF PosAt
  <1>5. UpTo(s2, k, n) = K \cup {n}
    BY <1>1, <1>2 DEF UpTo
  <1>6. PosAt(s2, k, n) = SizeIn(s, K) + SignedSz(f)
    BY <1>3, <1>5 DEF PosAt
  <1> QED
    BY <1>1, <1>2, <1>3, <1>4, <1>6 DEF s2, n, K

(* The fill that opens a leg, from zero or by a flip, is the whole leg.    *)
LEMMA LegOpens ==
    ASSUME NEW s \in Seq(Fills), NEW f \in Fills, NEW k, f.addr = k[1], f.coin = k[2],
           NEW pos, pos = SizeIn(s, KeyArrivals(s, k)),
           NEW new, new = pos + SignedSz(f), new # 0,
           pos = 0 \/ pos * new < 0
    PROVE  LET s2 == Append(s, f)
               n == Len(s) + 1
           IN  /\ FirstOfLeg(s2, k, n) /\ LegFrom(s2, k, n) = {n}
               /\ OpeningOf(s2, k, n, new) = {n}
               /\ CostOf(s2, k, n) = AbsVal(new) * f.px
               /\ s2[n] = f
  <1> DEFINE s2 == Append(s, f)
             n == Len(s) + 1
  <1>1. /\ pos \in Int /\ KeyArrivals(s2, k) = KeyArrivals(s, k) \cup {n}
        /\ PosAt(s2, k, n - 1) = pos /\ PosAt(s2, k, n) = new
    BY EntryArrives
  <1>2. /\ s2 \in Seq(Fills) /\ s2[n] = f /\ n \in Nat
        /\ \A i \in KeyArrivals(s, k) : i < n /\ i \in Nat
    BY AppendFacts DEF KeyArrivals
  <1>3. SignedSz(f) \in Int /\ f.px \in Nat
    BY FillsAssumption DEF SignedSz
  <1>4. NotionalIn(s2, {}) = 0
    BY <1>2, SumsOfNone
  <1> HIDE DEF s2, n
  <1>5. n \in Starts(s2, k) /\ \A i \in Starts(s2, k) : i <= n
    BY <1>1, <1>2 DEF Starts
  <1>6. LegFrom(s2, k, n) = {n}
    BY <1>1, <1>2 DEF LegFrom
  <1>7. SignedSz(f) * new > 0
    <2>1. new \in Int
      BY <1>1, <1>3
    <2>2. pos * new < 0 => (pos > 0 /\ new < 0) \/ (pos < 0 /\ new > 0)
      BY <1>1, <2>1, ProductSign
    <2>3. (SignedSz(f) > 0 /\ new > 0) \/ (SignedSz(f) < 0 /\ new < 0)
      BY <1>1, <1>3, <2>1, <2>2
    <2> QED
      BY <1>3, <2>1, <2>3, ProductSign
  <1>8. OpeningOf(s2, k, n, new) = {n}
    BY <1>2, <1>6, <1>7 DEF OpeningOf
  <1>9. CostOf(s2, k, n) = AbsVal(new) * f.px
    <2>1. NotionalIn(s2, LegFrom(s2, k, n) \ {n}) = 0
      <3>1. LegFrom(s2, k, n) \ {n} = {}
        BY <1>6
      <3> QED
        BY <1>4, <3>1
    <2>2. AbsVal(new) \in Int
      BY <1>1, <1>3 DEF AbsVal
    <2>3. AbsVal(new) * f.px \in Int
      BY <1>3, <2>2
    <2>4. CostOf(s2, k, n) = AbsVal(new) * f.px + 0
      BY <1>1, <1>2, <2>1 DEF CostOf
    <2> QED
      BY <2>3, <2>4
  <1> QED
    BY <1>2, <1>5, <1>6, <1>8, <1>9 DEF FirstOfLeg, s2, n

(* Any other fill that leaves a position open is one more of its leg.      *)
OneMore(s, f, k, pos, new, first) ==
    LET s2 == Append(s, f)
        n == Len(s) + 1
    IN  /\ FirstOfLeg(s2, k, first)
        /\ LegFrom(s2, k, first) = LegFrom(s, k, first) \cup {n}
        /\ n \notin LegFrom(s, k, first)
        /\ \A i \in LegFrom(s, k, first) : s2[i] = s[i]
        /\ OpeningOf(s2, k, first, new) =
              OpeningOf(s, k, first, pos) \cup (IF SignedSz(f) * pos > 0 THEN {n} ELSE {})
        /\ CostOf(s, k, first) \in Int
        /\ CostOf(s2, k, first) = CostOf(s, k, first) + Notional(f)
        /\ s2[n] = f

LEMMA LegGoesOn ==
    ASSUME NEW s \in Seq(Fills), NEW f \in Fills, NEW k, f.addr = k[1], f.coin = k[2],
           NEW pos, pos = SizeIn(s, KeyArrivals(s, k)),
           NEW new, new = pos + SignedSz(f), pos * new > 0,
           NEW first, FirstOfLeg(s, k, first)
    PROVE  OneMore(s, f, k, pos, new, first)
  <1> DEFINE s2 == Append(s, f)
             n == Len(s) + 1
             K == KeyArrivals(s, k)
  <1>1. /\ pos \in Int /\ KeyArrivals(s2, k) = K \cup {n} /\ K \subseteq DOMAIN s
        /\ PosAt(s2, k, n - 1) = pos /\ PosAt(s2, k, n) = new
    BY EntryArrives
  <1>2. /\ s2[n] = f /\ n \in Nat /\ n \notin K
        /\ \A i \in K : i < n /\ i \in Nat /\ s2[i] = s[i] /\ s[i] \in Fills
    BY AppendFacts, ArrivalFacts DEF KeyArrivals
  <1>3. SignedSz(f) \in Int /\ f.px \in Nat /\ \A g \in Fills : SignedSz(g) \in Int
    BY FillsAssumption DEF SignedSz
  <1>4. /\ \A i \in Int : i < n => PosAt(s2, k, i) = PosAt(s, k, i)
        /\ \A i \in Starts(s2, k) : i \in Starts(s, k) \/ i = n
        /\ Starts(s, k) \subseteq Starts(s2, k)
    BY EarlierStay
  <1>5. \A i : PosAt(s, k, i) \in Int
    <2>1. \A i : UpTo(s, k, i) \in SUBSET DOMAIN s
      BY <1>1 DEF UpTo
    <2> QED
      BY <2>1, SizeGains DEF PosAt
  <1> DEFINE L == LegFrom(s, k, first)
  <1>6. first \in K /\ L \subseteq K
    BY <1>4 DEF FirstOfLeg, Starts, LegFrom
  <1>7. /\ NotionalIn(s, L \ {first}) \in Int
        /\ NotionalIn(s2, (L \ {first}) \cup {n}) = NotionalIn(s, L \ {first}) + Notional(f)
    <2>1. L \ {first} \in SUBSET DOMAIN s
      BY <1>1, <1>6
    <2> QED
      BY <2>1, SumsGain
  <1> HIDE DEF s2, n, K
  <1>8. FirstOfLeg(s2, k, first)
    <2>1. n \notin Starts(s2, k)
      <3>1. pos # 0 /\ ~(pos * new < 0)
        BY <1>1, <1>3, ProductSign
      <3> QED
        BY <1>1, <3>1 DEF Starts
    <2> QED
      BY <1>4, <2>1 DEF FirstOfLeg
  <1>9. LegFrom(s2, k, first) = L \cup {n} /\ n \notin L
    <2>1. first <= n
      BY <1>2, <1>6
    <2> QED
      BY <1>1, <1>2, <1>6, <2>1 DEF LegFrom, K
  <1>10. \A x \in Int : x * new > 0 <=> x * pos > 0
    <2>1. new \in Int
      BY <1>1, <1>3
    <2>2. (pos > 0 /\ new > 0) \/ (pos < 0 /\ new < 0)
      BY <1>1, <2>1, ProductSign
    <2>3. \A x \in Int : /\ x * new > 0 <=> (x > 0 /\ new > 0) \/ (x < 0 /\ new < 0)
                        /\ x * pos > 0 <=> (x > 0 /\ pos > 0) \/ (x < 0 /\ pos < 0)
      BY <1>1, <2>1, ProductSign
    <2> QED
      BY <1>1, <2>1, <2>2, <2>3
  <1> HIDE DEF L
  <1>11. OpeningOf(s2, k, first, new) =
            OpeningOf(s, k, first, pos) \cup (IF SignedSz(f) * pos > 0 THEN {n} ELSE {})
    <2>1. \A i \in L : SignedSz(s2[i]) * new > 0 <=> SignedSz(s[i]) * pos > 0
      BY <1>2, <1>3, <1>6, <1>10
    <2>2. SignedSz(s2[n]) * new > 0 <=> SignedSz(f) * pos > 0
      BY <1>2, <1>3, <1>10
    <2> QED
      BY <1>9, <2>1, <2>2 DEF OpeningOf, L
  <1>12. /\ CostOf(s, k, first) \in Int
         /\ CostOf(s2, k, first) = CostOf(s, k, first) + Notional(f)
    <2>1. LegFrom(s2, k, first) \ {first} = (L \ {first}) \cup {n} /\ first # n
      BY <1>2, <1>6, <1>9
    <2>2. PosAt(s2, k, first) = PosAt(s, k, first) /\ s2[first] = s[first]
      BY <1>2, <1>4, <1>6
    <2> DEFINE c == AbsVal(PosAt(s, k, first)) * s[first].px
    <2>3. c \in Int
      <3>1. s[first].px \in Nat
        BY <1>2, <1>6, FillsAssumption
      <3>2. AbsVal(PosAt(s, k, first)) \in Int
        BY <1>5 DEF AbsVal
      <3> QED
        BY <3>1, <3>2
    <2>4. CostOf(s, k, first) = c + NotionalIn(s, L \ {first})
      BY DEF CostOf, L
    <2>5. CostOf(s2, k, first) = c + NotionalIn(s2, (L \ {first}) \cup {n})
      BY <2>1, <2>2 DEF CostOf
    <2>6. Notional(f) \in Int
      BY FillFacts
    <2> HIDE DEF c
    <2> QED
      BY <1>7, <2>3, <2>4, <2>5, <2>6
  <1>13. \A i \in L : s2[i] = s[i]
    BY <1>2, <1>6
  <1> QED
    BY <1>2, <1>8, <1>9, <1>11, <1>12, <1>13 DEF OneMore, s2, n, L


(* The entry after a fill, by how it moves the position.                   *)
LEMMA EntryOpens ==
    ASSUME NEW s \in Seq(Fills), NEW f \in Fills, NEW k, f.addr = k[1], f.coin = k[2],
           NEW p, EntryFits(s, k, p), p.net_pos + SignedSz(f) # 0,
           p.net_pos = 0 \/ p.net_pos * (p.net_pos + SignedSz(f)) < 0
    PROVE  EntryOfLeg(Append(s, f), k, PositionAfter(p, f), Len(s) + 1)
  <1> DEFINE s2 == Append(s, f)
             n == Len(s) + 1
             pos == p.net_pos
             delta == SignedSz(f)
             new == pos + delta
             p2 == PositionAfter(p, f)
  <1>1. /\ pos = SizeIn(s, KeyArrivals(s, k)) /\ pos \in Int /\ delta \in Int
        /\ f.px \in Nat
    BY FillsAssumption DEF EntryFits, SignedSz
  <1>2. PICK num \in Nat, den \in Nat \ {0} : p.avg_entry = <<num, den>>
    BY DEF EntryFits
  <1>3. /\ FirstOfLeg(s2, k, n) /\ LegFrom(s2, k, n) = {n} /\ OpeningOf(s2, k, n, new) = {n}
        /\ CostOf(s2, k, n) = AbsVal(new) * f.px /\ s2[n] = f
    BY <1>1, LegOpens
  <1>4. p2.net_pos = new /\ p2.avg_entry = EntryAfter(p, f)
    BY DEF PositionAfter
  <1> HIDE DEF s2, n, p2
  <1>5. \E d \in Nat : p2.avg_entry = <<f.px * d, d>>
    <2>1. CASE pos = 0
      <3>1. EntryAfter(p, f) = <<AbsVal(pos) * num + AbsVal(delta) * f.px * den,
                                 AbsVal(new) * den>>
        BY <1>2, <2>1 DEF EntryAfter, Grows, Reweighted
      <3>2. AbsVal(pos) = 0 /\ AbsVal(delta) = AbsVal(new) /\ AbsVal(new) \in Nat
        BY <1>1, <2>1 DEF AbsVal
      <3>3. AbsVal(new) * f.px * den = f.px * (AbsVal(new) * den) /\ AbsVal(new) * den \in Nat
        BY <1>1, <1>2, <3>2
      <3>4. 0 * num + AbsVal(new) * f.px * den = AbsVal(new) * f.px * den
        <4>1. AbsVal(new) * f.px \in Nat
          BY <1>1, <3>2
        <4>2. AbsVal(new) * f.px * den \in Nat
          BY <1>2, <4>1
        <4>3. \A x \in Nat : 0 * num + x = x
          BY <1>2
        <4> QED
          BY <4>2, <4>3, Zenon
      <3> QED
        BY <1>4, <3>1, <3>2, <3>3, <3>4
    <2>2. CASE pos # 0
      <3>1. (pos > 0 /\ new < 0) \/ (pos < 0 /\ new > 0)
        BY <1>1, <2>2, ProductSign
      <3>2. ~Grows(pos, delta) /\ Flips(pos, new)
        BY <1>1, <2>2, <3>1 DEF Grows, SameDir, Flips
      <3>3. EntryAfter(p, f) = <<f.px, 1>>
        BY <3>2 DEF EntryAfter
      <3> QED
        BY <1>1, <1>4, <3>3
    <2> QED
      BY <2>1, <2>2
  <1>6. PICK d \in Nat : p2.avg_entry = <<f.px * d, d>>
    BY <1>5
  <1>7. (f.px * d) * AbsVal(new) = d * (AbsVal(new) * f.px) /\ f.px * d <= f.px * d
    <2>1. AbsVal(new) \in Int
      BY <1>1 DEF AbsVal
    <2> DEFINE a == AbsVal(new)
    <2> HIDE DEF a
    <2> QED
      BY <1>1, <1>6, <2>1 DEF a
  <1>8. p2.avg_entry[1] = f.px * d /\ p2.avg_entry[2] = d
    BY <1>6
  <1> HIDE DEF new
  <1>9. \E i \in OpeningOf(s2, k, n, p2.net_pos) : s2[i].px * p2.avg_entry[2] <= p2.avg_entry[1]
    BY <1>3, <1>4, <1>7, <1>8, Zenon
  <1>10. \E i \in OpeningOf(s2, k, n, p2.net_pos) : p2.avg_entry[1] <= s2[i].px * p2.avg_entry[2]
    BY <1>3, <1>4, <1>7, <1>8, Zenon
  <1>11. p2.avg_entry[1] * AbsVal(p2.net_pos) = p2.avg_entry[2] * CostOf(s2, k, n)
    BY <1>3, <1>4, <1>7, <1>8, Zenon
  <1>12. EntryOfLeg(s2, k, p2, n)
    BY <1>9, <1>10, <1>11 DEF EntryOfLeg
  <1> QED
    BY <1>12 DEF s2, n, p2

LEMMA EntryAveraged ==
    ASSUME NEW s \in Seq(Fills), NEW f \in Fills, NEW k, f.addr = k[1], f.coin = k[2],
           NEW p, EntryFits(s, k, p), SignedSz(f) * p.net_pos > 0,
           NEW first, FirstOfLeg(s, k, first), EntryOfLeg(s, k, p, first)
    PROVE  /\ FirstOfLeg(Append(s, f), k, first)
           /\ EntryOfLeg(Append(s, f), k, PositionAfter(p, f), first)
  <1> DEFINE s2 == Append(s, f)
             n == Len(s) + 1
             pos == p.net_pos
             delta == SignedSz(f)
             new == pos + delta
             p2 == PositionAfter(p, f)
             L == LegFrom(s, k, first)
             O == OpeningOf(s, k, first, pos)
             a == AbsVal(pos)
             d == AbsVal(delta)
             cost == CostOf(s, k, first)
  <1>1. /\ pos = SizeIn(s, KeyArrivals(s, k)) /\ pos \in Int /\ delta \in Int
        /\ f.px \in Nat /\ f.sz \in Nat
    BY FillsAssumption DEF EntryFits, SignedSz
  <1>2. PICK num \in Nat, den \in Nat \ {0} : p.avg_entry = <<num, den>>
    BY DEF EntryFits
  <1>3. (pos > 0 /\ delta > 0) \/ (pos < 0 /\ delta < 0)
    BY <1>1, ProductSign
  <1>4. /\ new \in Int /\ new # 0 /\ pos * new > 0 /\ a \in Nat /\ d \in Nat
        /\ AbsVal(new) = a + d
    <2>1. (pos > 0 /\ new > 0) \/ (pos < 0 /\ new < 0)
      BY <1>1, <1>3
    <2> QED
      BY <1>1, <1>3, <2>1, ProductSign DEF AbsVal
  <1>5. Notional(f) = f.px * d
    BY <1>1 DEF Notional, SignedSz, AbsVal
  <1>6. /\ FirstOfLeg(s2, k, first) /\ LegFrom(s2, k, first) = L \cup {n} /\ n \notin L
        /\ OpeningOf(s2, k, first, new) = O \cup {n}
        /\ cost \in Int /\ CostOf(s2, k, first) = cost + Notional(f)
        /\ s2[n] = f /\ \A i \in L : s2[i] = s[i]
    <2>1. OneMore(s, f, k, pos, new, first)
      BY <1>1, <1>4, LegGoesOn
    <2>2. delta * pos > 0
      OBVIOUS
    <2> QED
      BY <2>1, <2>2 DEF OneMore
  <1>7. p2.net_pos = new /\ p2.avg_entry = EntryAfter(p, f)
    BY DEF PositionAfter
  <1>8. p2.avg_entry = <<a * num + d * f.px * den, (a + d) * den>>
    <2>1. Grows(pos, delta)
      BY <1>1, <1>3 DEF Grows, SameDir
    <2>2. EntryAfter(p, f) = <<a * num + d * f.px * den, AbsVal(new) * den>>
      BY <1>2, <1>4, <2>1 DEF EntryAfter, Reweighted
    <2> QED
      BY <1>4, <1>7, <2>2
  <1>9. /\ \E i \in O : s[i].px * den <= num
        /\ \E i \in O : num <= s[i].px * den
        /\ O = L => num * a = den * cost
    BY <1>2 DEF EntryOfLeg
  <1>10. \A i \in O : s[i].px \in Nat /\ s2[i] = s[i] /\ i \in L
    <2>1. O \subseteq L /\ L \subseteq DOMAIN s
      BY DEF OpeningOf, LegFrom, KeyArrivals
    <2>2. \A i \in L : s[i] \in Fills
      BY <2>1, ArrivalFacts
    <2> QED
      BY <1>6, <2>1, <2>2, FillsAssumption
  <1> HIDE DEF s2, n, p2, L, O, a, d, cost, new, delta, pos
  <1>11. \E i \in O \cup {n} : s2[i].px * ((a + d) * den) <= a * num + d * f.px * den
    <2>1. PICK i \in O : s[i].px * den <= num
      BY <1>9
    <2>2. CASE s[i].px <= f.px
      <3>1. s[i].px * ((a + d) * den) <= a * num + d * f.px * den
        BY <1>1, <1>2, <1>4, <1>10, <2>1, <2>2, WeightedBetween
      <3> QED
        BY <1>10, <2>1, <3>1
    <2>3. CASE f.px < s[i].px
      <3>1. f.px * den <= num
        <4>1. den * f.px <= den * s[i].px
          BY <1>1, <1>2, <1>10, <2>1, <2>3, TimesMonotone
        <4>2. den * f.px = f.px * den /\ den * s[i].px = s[i].px * den
              /\ f.px * den \in Int /\ s[i].px * den \in Int
          BY <1>1, <1>2, <1>10, <2>1
        <4> QED
          BY <1>2, <2>1, <4>1, <4>2
      <3>2. f.px * ((a + d) * den) <= a * num + d * f.px * den
        BY <1>1, <1>2, <1>4, <3>1, WeightedBetween
      <3> QED
        BY <1>6, <3>2
    <2> QED
      BY <1>1, <1>10, <2>1, <2>2, <2>3
  <1>12. \E i \in O \cup {n} : a * num + d * f.px * den <= s2[i].px * ((a + d) * den)
    <2>1. PICK i \in O : num <= s[i].px * den
      BY <1>9
    <2>2. CASE f.px <= s[i].px
      <3>1. a * num + d * f.px * den <= s[i].px * ((a + d) * den)
        BY <1>1, <1>2, <1>4, <1>10, <2>1, <2>2, WeightedBetween
      <3> QED
        BY <1>10, <2>1, <3>1
    <2>3. CASE s[i].px < f.px
      <3>1. num <= f.px * den
        <4>1. den * s[i].px <= den * f.px
          BY <1>1, <1>2, <1>10, <2>1, <2>3, TimesMonotone
        <4>2. den * f.px = f.px * den /\ den * s[i].px = s[i].px * den
              /\ f.px * den \in Int /\ s[i].px * den \in Int
          BY <1>1, <1>2, <1>10, <2>1
        <4> QED
          BY <1>2, <2>1, <4>1, <4>2
      <3>2. a * num + d * f.px * den <= f.px * ((a + d) * den)
        <4>1. f.px <= f.px
          BY <1>1
        <4> QED
          BY <1>1, <1>2, <1>4, <3>1, <4>1, WeightedBetween
      <3> QED
        BY <1>6, <3>2
    <2> QED
      BY <1>1, <1>10, <2>1, <2>2, <2>3
  <1>13. O \cup {n} = L \cup {n} =>
            (a * num + d * f.px * den) * (a + d) = ((a + d) * den) * (cost + f.px * d)
    <2>1. O \cup {n} = L \cup {n} => O = L
      BY <1>6, <1>10
    <2> DEFINE px == f.px
    <2>2. a \in Nat /\ d \in Nat /\ px \in Nat /\ num \in Nat /\ den \in Nat /\ cost \in Int
      BY <1>1, <1>2, <1>4, <1>6
    <2>3. num * a = den * cost =>
             (a * num + d * px * den) * (a + d) = ((a + d) * den) * (cost + px * d)
      <3> HIDE DEF px
      <3> QED
        BY <2>2, WeightedCost
    <2> QED
      BY <1>9, <2>1, <2>3
  <1>14. CostOf(s2, k, first) = cost + f.px * d
    BY <1>5, <1>6
  <1>15. EntryOfLeg(s2, k, p2, first)
    BY <1>4, <1>6, <1>7, <1>8, <1>11, <1>12, <1>13, <1>14 DEF EntryOfLeg
  <1> QED
    BY <1>6, <1>15 DEF s2, p2

LEMMA EntryKept ==
    ASSUME NEW s \in Seq(Fills), NEW f \in Fills, NEW k, f.addr = k[1], f.coin = k[2],
           NEW p, EntryFits(s, k, p), ~(SignedSz(f) * p.net_pos > 0),
           p.net_pos * (p.net_pos + SignedSz(f)) > 0,
           NEW first, FirstOfLeg(s, k, first), EntryOfLeg(s, k, p, first)
    PROVE  /\ FirstOfLeg(Append(s, f), k, first)
           /\ EntryOfLeg(Append(s, f), k, PositionAfter(p, f), first)
  <1> DEFINE s2 == Append(s, f)
             n == Len(s) + 1
             pos == p.net_pos
             delta == SignedSz(f)
             new == pos + delta
             p2 == PositionAfter(p, f)
             L == LegFrom(s, k, first)
             O == OpeningOf(s, k, first, pos)
  <1>1. /\ pos = SizeIn(s, KeyArrivals(s, k)) /\ pos \in Int /\ delta \in Int
    BY FillsAssumption DEF EntryFits, SignedSz
  <1>2. new \in Int /\ ((pos > 0 /\ new > 0) \/ (pos < 0 /\ new < 0))
    BY <1>1, ProductSign
  <1>3. ~(pos > 0 /\ delta > 0) /\ ~(pos < 0 /\ delta < 0)
    BY <1>1, ProductSign
  <1>4. p2.net_pos = new /\ p2.avg_entry = EntryAfter(p, f)
    BY DEF PositionAfter
  <1>5. ~Grows(pos, delta) /\ ~Flips(pos, new)
    BY <1>1, <1>2, <1>3 DEF Grows, SameDir, Flips
  <1>6. p2.avg_entry = p.avg_entry
    BY <1>4, <1>5 DEF EntryAfter
  <1>7. /\ FirstOfLeg(s2, k, first) /\ LegFrom(s2, k, first) = L \cup {n} /\ n \notin L
        /\ OpeningOf(s2, k, first, new) = O
        /\ \A i \in L : s2[i] = s[i]
    <2>1. OneMore(s, f, k, pos, new, first)
      BY <1>1, LegGoesOn
    <2>2. ~(delta * pos > 0)
      OBVIOUS
    <2> QED
      BY <2>1, <2>2 DEF OneMore
  <1>8. O \subseteq L
    BY DEF OpeningOf
  <1> HIDE DEF s2, n, p2, L, O, new, delta, pos
  <1>9. O # L \cup {n}
    BY <1>7, <1>8
  <1>10. EntryOfLeg(s, k, p, first)
    OBVIOUS
  <1>11. EntryOfLeg(s2, k, p2, first)
    BY <1>4, <1>6, <1>7, <1>8, <1>9, <1>10 DEF EntryOfLeg, O, L, pos
  <1> QED
    BY <1>7, <1>11 DEF s2, p2

LEMMA EntryMoves ==
    ASSUME NEW s \in Seq(Fills), NEW f \in Fills, NEW k, f.addr = k[1], f.coin = k[2],
           NEW p, EntryFits(s, k, p)
    PROVE  EntryFits(Append(s, f), k, PositionAfter(p, f))
  <1> DEFINE s2 == Append(s, f)
             n == Len(s) + 1
             pos == p.net_pos
             new == pos + SignedSz(f)
             p2 == PositionAfter(p, f)
  <1>1. /\ pos = SizeIn(s, KeyArrivals(s, k)) /\ pos \in Int
        /\ p.avg_entry \in Nat \X (Nat \ {0})
    BY DEF EntryFits
  <1>2. SizeIn(s2, KeyArrivals(s2, k)) = new
    BY <1>1, EntryArrives
  <1>3. new \in Int /\ p2.net_pos = new /\ p2.avg_entry \in Nat \X (Nat \ {0})
    BY <1>1, EntryType DEF PositionAfter
  <1>4. SignedSz(f) \in Int
    BY FillsAssumption DEF SignedSz
  <1>5. ASSUME new # 0
        PROVE  \E first : FirstOfLeg(s2, k, first) /\ EntryOfLeg(s2, k, p2, first)
    <2>1. CASE pos = 0 \/ pos * new < 0
      <3>1. EntryOfLeg(s2, k, p2, n)
        BY <1>5, <2>1, EntryOpens
      <3>2. FirstOfLeg(s2, k, n)
        BY <1>1, <1>5, <2>1, LegOpens
      <3> QED
        BY <3>1, <3>2
    <2>2. CASE pos # 0 /\ ~(pos * new < 0)
      <3>1. PICK first : FirstOfLeg(s, k, first) /\ EntryOfLeg(s, k, p, first)
        BY <2>2 DEF EntryFits
      <3>2. pos * new > 0
        BY <1>1, <1>3, <1>5, <2>2, ProductSign
      <3>3. CASE SignedSz(f) * pos > 0
        BY <3>1, <3>3, EntryAveraged
      <3>4. CASE ~(SignedSz(f) * pos > 0)
        BY <3>1, <3>2, <3>4, EntryKept
      <3> QED
        BY <3>3, <3>4
    <2> QED
      BY <2>1, <2>2
  <1> HIDE DEF s2, n, p2, new
  <1> QED
    BY <1>2, <1>3, <1>5 DEF EntryFits, s2, p2

(* A finite set of integers has a greatest element.                        *)
LEMMA GreatestInteger ==
    ASSUME NEW S, IsFiniteSet(S)
    PROVE  S \subseteq Int /\ S # {} => \E m \in S : \A x \in S : x <= m
  <1> DEFINE Bad == {t \in SUBSET S : t # {} /\ ~\E m \in t : \A x \in t : x <= m}
  <1> SUFFICES Bad # {} => ~(S \subseteq Int)
    OBVIOUS
  <1> HAVE Bad # {}
  <1>1. PICK t \in Bad : \A u \in Bad : u \subseteq t => u = t
    <2>1. Bad \in SUBSET (SUBSET S)
      OBVIOUS
    <2> HIDE DEF Bad
    <2> QED
      BY <2>1, MinimalSet
  <1> SUFFICES ASSUME S \subseteq Int PROVE FALSE
    OBVIOUS
  <1>2. PICK x \in t : TRUE
    BY <1>1
  <1>3. x \in Int /\ x <= x /\ t \subseteq Int
    BY <1>1, <1>2
  <1>4. t \ {x} # {}
    BY <1>1, <1>2, <1>3
  <1>5. t \ {x} \notin Bad
    BY <1>1, <1>2
  <1>6. PICK m \in t \ {x} : \A y \in t \ {x} : y <= m
    BY <1>1, <1>4, <1>5
  <1>7. m \in Int /\ (x <= m \/ m <= x)
    BY <1>3, <1>6
  <1>8. CASE x <= m
    <2>1. \A y \in t : y <= m
      BY <1>6, <1>8
    <2> QED
      BY <1>1, <1>6, <2>1
  <1>9. CASE m <= x
    <2>1. \A y \in t : y <= x
      BY <1>3, <1>6, <1>7, <1>9
    <2> QED
      BY <1>1, <1>2, <2>1
  <1> QED
    BY <1>7, <1>8, <1>9

(* What EntryFits says, in the words of the model.                         *)
LEMMA EntryFitsMeans ==
    ASSUME applied \in Seq(Fills), NEW k, EntryFits(applied, k, wc[k]), wc[k].net_pos # 0
    PROVE  LET num == wc[k].avg_entry[1]
               den == wc[k].avg_entry[2]
               prices == {applied[i].px : i \in Opening(k)}
               first == LegStart(k)
               cost == AbsVal(PosAfter(k, first)) * applied[first].px
                         + Total(Notional, Leg(k) \ {first})
           IN  /\ Min(prices) * den <= num
               /\ num <= Max(prices) * den
               /\ Opening(k) = Leg(k) => num * AbsVal(wc[k].net_pos) = den * cost
  <1> DEFINE s == applied
             p == wc[k]
  <1>1. PICK first : FirstOfLeg(s, k, first) /\ EntryOfLeg(s, k, p, first)
    BY DEF EntryFits
  <1>2. ArrivalsAt(k) = KeyArrivals(s, k)
    BY DEF ArrivalsAt, ArrivalsOf, ArrivalsOn, KeyArrivals
  <1>3. \A i : PosAfter(k, i) = PosAt(s, k, i)
    BY <1>2 DEF PosAfter, Total, PosAt, SizeIn, UpTo
  <1>4. LegStart(k) = first
    <2>1. LegStart(k) = Max(Starts(s, k))
      <3> DEFINE S == {i \in ArrivalsAt(k) : PosBefore(k, i) = 0
                                            \/ PosBefore(k, i) * PosAfter(k, i) < 0}
      <3>1. S = Starts(s, k)
        BY <1>2, <1>3 DEF PosBefore, Starts
      <3>2. LegStart(k) = Max(S)
        BY DEF LegStart
      <3> HIDE DEF S
      <3> QED
        BY <3>1, <3>2
    <2>2. Starts(s, k) \subseteq Nat
      BY AppendFacts, LenProperties DEF Starts, KeyArrivals
    <2>3. Max(Starts(s, k)) \in Starts(s, k) /\ \A i \in Starts(s, k) : Max(Starts(s, k)) >= i
      <3>1. \A i \in Starts(s, k) : first >= i
        BY <1>1, <2>2 DEF FirstOfLeg
      <3> QED
        BY <1>1, <3>1 DEF Max, FirstOfLeg
    <2> QED
      BY <1>1, <2>1, <2>2, <2>3 DEF FirstOfLeg
  <1>5. Leg(k) = LegFrom(s, k, first)
    BY <1>2, <1>4 DEF Leg, LegFrom
  <1>6. Opening(k) = OpeningOf(s, k, first, p.net_pos)
    BY <1>5 DEF Opening, OpeningOf
  <1>7. AbsVal(PosAfter(k, first)) * applied[first].px + Total(Notional, Leg(k) \ {first})
          = CostOf(s, k, first)
    BY <1>3, <1>5 DEF CostOf, NotionalIn, Total
  <1> DEFINE O == Opening(k)
             prices == {s[i].px : i \in O}
             num == p.avg_entry[1]
             den == p.avg_entry[2]
  <1>8. O \subseteq DOMAIN s /\ IsFiniteSet(O) /\ \A i \in O : s[i].px \in Nat
    <2>1. O \subseteq DOMAIN s
      BY <1>6 DEF OpeningOf, LegFrom, KeyArrivals
    <2>2. IsFiniteSet(O) /\ \A i \in O : s[i] \in Fills
      BY <2>1, ArrivalFacts
    <2> QED
      BY <2>1, <2>2, FillsAssumption
  <1>9. num \in Nat /\ den \in Nat
    BY DEF EntryFits
  <1>10. /\ \E i \in O : s[i].px * den <= num
         /\ \E i \in O : num <= s[i].px * den
    BY <1>1, <1>6 DEF EntryOfLeg
  <1>11. O = Leg(k) => num * AbsVal(p.net_pos) = den * CostOf(s, k, first)
    BY <1>1, <1>5, <1>6 DEF EntryOfLeg
  <1> HIDE DEF O, s, p, num, den
  <1>12. prices \subseteq Nat /\ prices # {} /\ IsFiniteSet(prices)
    <2>1. prices \subseteq Nat /\ prices # {}
      BY <1>8, <1>10
    <2> DEFINE g == [i \in O |-> s[i].px]
    <2>2. g \in Surjection(O, prices)
      BY DEF Surjection
    <2> QED
      BY <1>8, <2>1, <2>2, FS_Surjection
  <1>13. Min(prices) * den <= num
    <2>1. PICK i \in O : s[i].px * den <= num
      BY <1>10
    <2>2. s[i].px \in prices /\ s[i].px \in Nat
      BY <1>8
    <2> HIDE DEF prices
    <2>3. Min(prices) \in prices /\ \A x \in prices : Min(prices) <= x
      BY <1>12, LeastNatural DEF Min
    <2>4. Min(prices) \in Nat /\ Min(prices) <= s[i].px
      BY <1>12, <2>2, <2>3
    <2> DEFINE m == Min(prices)
               q == s[i].px
    <2>5. den * m <= den * q
      <3> HIDE DEF m, q
      <3> QED
        BY <1>9, <2>2, <2>4, TimesMonotone DEF m, q
    <2>6. m * den = den * m /\ q * den = den * q /\ den * m \in Int /\ den * q \in Int
      BY <1>9, <2>2, <2>4
    <2> QED
      BY <1>9, <2>1, <2>5, <2>6
  <1>14. num <= Max(prices) * den
    <2>1. PICK i \in O : num <= s[i].px * den
      BY <1>10
    <2>2. s[i].px \in prices /\ s[i].px \in Nat
      BY <1>8
    <2> HIDE DEF prices
    <2>3. Max(prices) \in prices /\ \A x \in prices : Max(prices) >= x
      <3>1. PICK m \in prices : \A x \in prices : x <= m
        <4>1. prices \subseteq Int
          BY <1>12
        <4> QED
          BY <1>12, <4>1, GreatestInteger
      <3>2. \A x \in prices : m >= x
        BY <1>12, <3>1
      <3> QED
        BY <3>2 DEF Max
    <2>4. Max(prices) \in Nat /\ s[i].px <= Max(prices)
      BY <1>12, <2>2, <2>3
    <2> DEFINE m == Max(prices)
               q == s[i].px
    <2>5. den * q <= den * m
      <3> HIDE DEF m, q
      <3> QED
        BY <1>9, <2>2, <2>4, TimesMonotone DEF m, q
    <2>6. m * den = den * m /\ q * den = den * q /\ den * m \in Int /\ den * q \in Int
      BY <1>9, <2>2, <2>4
    <2> QED
      BY <1>9, <2>1, <2>5, <2>6
  <1> QED
    BY <1>4, <1>7, <1>11, <1>13, <1>14 DEF O, s, p, num, den

-----------------------------------------------------------------------------
(* Scores. Of one row each fold of the scorer is a term.                   *)
LEMMA GreaterOfTwo ==
    ASSUME NEW x \in Int, NEW y \in Int
    PROVE  /\ Max({x, y}) = IF x >= y THEN x ELSE y
           /\ Min({x, y}) = IF x <= y THEN x ELSE y
  <1>1. Max({x, y}) \in {x, y} /\ \A z \in {x, y} : Max({x, y}) >= z
    <2>1. \E m \in {x, y} : \A z \in {x, y} : m >= z
      OBVIOUS
    <2> QED
      BY <2>1 DEF Max
  <1>2. Min({x, y}) \in {x, y} /\ \A z \in {x, y} : Min({x, y}) <= z
    <2>1. \E m \in {x, y} : \A z \in {x, y} : m <= z
      OBVIOUS
    <2> QED
      BY <2>1 DEF Min
  <1> QED
    BY <1>1, <1>2

IsQuotient(q, num, den) == q \in Int /\ den * q <= num /\ num < den * q + den

LEMMA QuotientFacts ==
    ASSUME NEW num \in Int, NEW den \in Nat, den > 0
    PROVE  IsQuotient(num \div den, num, den)
  BY DEF IsQuotient

(* What is known of a share q of num in den, in thousandths.               *)
IsShare(q, num, den) ==
    /\ q \in Int
    /\ num <= 0 => q <= 0
    /\ num >= 0 => q >= 0
    /\ AbsVal(num) <= den => q \in -1000..1000

LEMMA PerMilleFacts ==
    ASSUME NEW num \in Int, NEW den \in Nat, den > 0
    PROVE  IsShare(PerMille(num, den), num, den)
  <1> DEFINE q == PerMille(num, den)
             n == 1000 * num
  <1>1. n \in Int /\ q \in Int /\ den * q <= n /\ n < den * q + den
    BY QuotientFacts DEF PerMille, IsQuotient
  <1> HIDE DEF q
  <1>2. num <= 0 => q <= 0
    <2> SUFFICES ASSUME num <= 0, q >= 1 PROVE FALSE
      BY <1>1
    <2>1. den * 1 <= den * q
      BY <1>1, TimesMonotone
    <2> QED
      BY <1>1, <2>1
  <1>3. num >= 0 => q >= 0
    <2> SUFFICES ASSUME num >= 0, q <= -1 PROVE FALSE
      BY <1>1
    <2>1. den * q <= den * (-1)
      BY <1>1, TimesMonotone
    <2>2. den * (-1) = -den /\ den * q \in Int
      BY <1>1
    <2> QED
      BY <1>1, <2>1, <2>2
  <1>4. AbsVal(num) <= den => q \in -1000..1000
    <2> SUFFICES ASSUME AbsVal(num) <= den PROVE q <= 1000 /\ q >= -1000
      BY <1>1
    <2>1. n <= 1000 * den /\ n >= -(1000 * den)
      BY DEF AbsVal
    <2>2. ~(q >= 1001)
      <3> SUFFICES ASSUME q >= 1001 PROVE FALSE
        OBVIOUS
      <3>1. den * 1001 <= den * q
        BY <1>1, TimesMonotone
      <3>2. den * 1001 = 1001 * den /\ den * q \in Int
        BY <1>1
      <3> QED
        BY <1>1, <2>1, <3>1, <3>2
    <2>3. ~(q <= -1001)
      <3> SUFFICES ASSUME q <= -1001 PROVE FALSE
        OBVIOUS
      <3>1. den * q <= den * (-1001)
        BY <1>1, TimesMonotone
      <3>2. den * (-1001) = -(1001 * den) /\ den * q \in Int
        BY <1>1
      <3> QED
        BY <1>1, <2>1, <3>1, <3>2
    <2> QED
      BY <1>1, <2>2, <2>3
  <1> QED
    BY <1>1, <1>2, <1>3, <1>4 DEF q, IsShare

LEMMA FlowShareFacts ==
    ASSUME NEW flow \in Int, NEW volume \in Nat
    PROVE  IsShare(FlowShare(flow, volume), flow, volume)
  <1>1. CASE volume = 0
    BY <1>1 DEF FlowShare, AbsVal, IsShare
  <1>2. CASE volume > 0
    <2>1. FlowShare(flow, volume) = PerMille(flow, volume)
      BY <1>2 DEF FlowShare
    <2>2. IsShare(PerMille(flow, volume), flow, volume)
      BY <1>2, PerMilleFacts
    <2> QED
      BY <2>1, <2>2
  <1> QED
    BY <1>1, <1>2

LEMMA SquashFacts ==
    ASSUME NEW x \in 0..10
    PROVE  Squash(x) \in 0..999
  <1>1. x \in {0, 1, 2, 3, 4, 5, 6, 7, 8, 9, 10}
    OBVIOUS
  <1>2. /\ Squash(0) = 47 /\ Squash(1) = 119 /\ Squash(2) = 268 /\ Squash(3) = 500
        /\ Squash(4) = 731 /\ Squash(5) = 880 /\ Squash(6) = 952 /\ Squash(7) = 982
        /\ Squash(8) = 993 /\ Squash(9) = 997 /\ Squash(10) = 999
    BY DEF Squash
  <1> QED
    BY <1>1, <1>2

(* A sum of which no term is positive, or none negative, is not either.    *)
LEMMA SumSign ==
    ASSUME NEW f, Terms(f), NEW v, AddsUp(f, v)
    PROVE  /\ (\A x \in DOMAIN f : f[x] <= 0) => v <= 0
           /\ (\A x \in DOMAIN f : f[x] >= 0) => v >= 0
  <1> DEFINE S == DOMAIN f
  <1>1. PICK F : IsSumOver(F, f, SUBSET S) /\ v = F[S]
    BY DEF AddsUp
  <1>2. IsFiniteSet(S) /\ \A x \in S : f[x] \in Int
    BY DEF Terms
  <1> HIDE DEF S
  <1>3. \A t \in SUBSET S : F[t] \in Int
    BY <1>1, <1>2, SumType DEF Integral
  <1>4. \A t \in SUBSET S : F[t] = IF t = {} THEN 0 ELSE f[Pick(t)] + F[t \ {Pick(t)}]
    BY <1>1 DEF IsSumOver
  <1>5. ASSUME \A x \in S : f[x] <= 0 PROVE v <= 0
    <2> DEFINE Bad == {t \in SUBSET S : F[t] > 0}
    <2> SUFFICES ASSUME Bad # {} PROVE FALSE
      BY <1>1, <1>3
    <2>1. PICK t \in Bad : \A u \in Bad : u \subseteq t => u = t
      <3>1. Bad \in SUBSET (SUBSET S)
        OBVIOUS
      <3> HIDE DEF Bad
      <3> QED
        BY <1>2, <3>1, MinimalSet
    <2>2. t # {} /\ Pick(t) \in t /\ Pick(t) \in S
      BY <1>4, <2>1, PickFacts
    <2>3. t \ {Pick(t)} \in SUBSET S /\ t \ {Pick(t)} \notin Bad
      BY <2>1, <2>2
    <2>4. F[t \ {Pick(t)}] <= 0 /\ F[t \ {Pick(t)}] \in Int
      BY <1>3, <2>3
    <2>5. f[Pick(t)] <= 0 /\ f[Pick(t)] \in Int
      BY <1>2, <1>5, <2>2
    <2> QED
      BY <1>4, <2>1, <2>2, <2>4, <2>5
  <1>6. ASSUME \A x \in S : f[x] >= 0 PROVE v >= 0
    <2> DEFINE Bad == {t \in SUBSET S : F[t] < 0}
    <2> SUFFICES ASSUME Bad # {} PROVE FALSE
      BY <1>1, <1>3
    <2>1. PICK t \in Bad : \A u \in Bad : u \subseteq t => u = t
      <3>1. Bad \in SUBSET (SUBSET S)
        OBVIOUS
      <3> HIDE DEF Bad
      <3> QED
        BY <1>2, <3>1, MinimalSet
    <2>2. t # {} /\ Pick(t) \in t /\ Pick(t) \in S
      BY <1>4, <2>1, PickFacts
    <2>3. t \ {Pick(t)} \in SUBSET S /\ t \ {Pick(t)} \notin Bad
      BY <2>1, <2>2
    <2>4. F[t \ {Pick(t)}] >= 0 /\ F[t \ {Pick(t)}] \in Int
      BY <1>3, <2>3
    <2>5. f[Pick(t)] >= 0 /\ f[Pick(t)] \in Int
      BY <1>2, <1>6, <2>2
    <2> QED
      BY <1>4, <2>1, <2>2, <2>4, <2>5
  <1> QED
    BY <1>5, <1>6 DEF S

LEMMA SumOfOne ==
    ASSUME NEW f, NEW x, DOMAIN f = {x}, f[x] \in Int, NEW v, AddsUp(f, v)
    PROVE  v = f[x]
  <1>1. PICK F : IsSumOver(F, f, SUBSET {x}) /\ v = F[{x}]
    BY DEF AddsUp
  <1>2. Pick({x}) = x /\ {x} \ {x} = {} /\ {x} # {}
    BY PickFacts
  <1>3. F[{}] = 0 /\ F[{x}] = f[Pick({x})] + F[{x} \ {Pick({x})}]
    BY <1>1 DEF IsSumOver
  <1>4. F[{x}] = f[x] + 0
    BY <1>2, <1>3, Zenon
  <1> QED
    BY <1>1, <1>4

LEMMA OneVolume ==
    ASSUME NEW r, r.volume \in Int
    PROVE  MapThenSumSet(LAMBDA s : s.volume, {r}) = r.volume
  <1> DEFINE f == [s \in {r} |-> s.volume]
             IsFold(F) == F = [t \in SUBSET {r} |-> IF t = {} THEN 0
                                 ELSE Pick(t).volume + F[t \ {Pick(t)}]]
             F0 == CHOOSE it : IsFold(it)
             v == MapThenSumSet(LAMBDA s : s.volume, {r})
  <1>1. IsFiniteSet({r}) /\ DOMAIN f = {r} /\ f[r] = r.volume
    BY FS_Singleton
  <1>2. v = F0[{r}]
    BY DEF MapThenSumSet, MapThenFoldSet, Pick
  <1>3. \A t \in SUBSET {r} : t # {} => f[Pick(t)] = Pick(t).volume
    BY PickFacts
  <1> HIDE DEF f
  <1>4. \A F : IsSumOver(F, f, SUBSET {r}) <=> IsFold(F)
    BY <1>3 DEF IsSumOver
  <1>5. \E F : IsFold(F)
    BY <1>1, <1>4, SumExists
  <1>6. IsSumOver(F0, f, SUBSET {r})
    <2> HIDE DEF IsFold
    <2> QED
      BY <1>4, <1>5
  <1>7. AddsUp(f, v)
    BY <1>1, <1>2, <1>6 DEF AddsUp
  <1> HIDE DEF v
  <1>8. v = f[r]
    BY <1>1, <1>7, SumOfOne
  <1> QED
    BY <1>1, <1>8 DEF v

LEMMA OneImbalance ==
    ASSUME NEW r, PerMille(r.imbalance[1], r.imbalance[2]) \in Int
    PROVE  MapThenSumSet(LAMBDA s : PerMille(s.imbalance[1], s.imbalance[2]), {r}) = PerMille(r.imbalance[1], r.imbalance[2])
  <1> DEFINE f == [s \in {r} |-> PerMille(s.imbalance[1], s.imbalance[2])]
             IsFold(F) == F = [t \in SUBSET {r} |-> IF t = {} THEN 0
                                 ELSE PerMille(Pick(t).imbalance[1], Pick(t).imbalance[2]) + F[t \ {Pick(t)}]]
             F0 == CHOOSE it : IsFold(it)
             v == MapThenSumSet(LAMBDA s : PerMille(s.imbalance[1], s.imbalance[2]), {r})
  <1>1. IsFiniteSet({r}) /\ DOMAIN f = {r} /\ f[r] = PerMille(r.imbalance[1], r.imbalance[2])
    BY FS_Singleton
  <1>2. v = F0[{r}]
    BY DEF MapThenSumSet, MapThenFoldSet, Pick
  <1>3. \A t \in SUBSET {r} : t # {} => f[Pick(t)] = PerMille(Pick(t).imbalance[1], Pick(t).imbalance[2])
    BY PickFacts
  <1> HIDE DEF f
  <1>4. \A F : IsSumOver(F, f, SUBSET {r}) <=> IsFold(F)
    BY <1>3 DEF IsSumOver
  <1>5. \E F : IsFold(F)
    BY <1>1, <1>4, SumExists
  <1>6. IsSumOver(F0, f, SUBSET {r})
    <2> HIDE DEF IsFold
    <2> QED
      BY <1>4, <1>5
  <1>7. AddsUp(f, v)
    BY <1>1, <1>2, <1>6 DEF AddsUp
  <1> HIDE DEF v
  <1>8. v = f[r]
    BY <1>1, <1>7, SumOfOne
  <1> QED
    BY <1>1, <1>8 DEF v

LEMMA OneConcentration ==
    ASSUME NEW r, PerMille(r.hhi[1], r.hhi[2]) \in Int
    PROVE  MapThenSumSet(LAMBDA s : PerMille(s.hhi[1], s.hhi[2]), {r}) = PerMille(r.hhi[1], r.hhi[2])
  <1> DEFINE f == [s \in {r} |-> PerMille(s.hhi[1], s.hhi[2])]
             IsFold(F) == F = [t \in SUBSET {r} |-> IF t = {} THEN 0
                                 ELSE PerMille(Pick(t).hhi[1], Pick(t).hhi[2]) + F[t \ {Pick(t)}]]
             F0 == CHOOSE it : IsFold(it)
             v == MapThenSumSet(LAMBDA s : PerMille(s.hhi[1], s.hhi[2]), {r})
  <1>1. IsFiniteSet({r}) /\ DOMAIN f = {r} /\ f[r] = PerMille(r.hhi[1], r.hhi[2])
    BY FS_Singleton
  <1>2. v = F0[{r}]
    BY DEF MapThenSumSet, MapThenFoldSet, Pick
  <1>3. \A t \in SUBSET {r} : t # {} => f[Pick(t)] = PerMille(Pick(t).hhi[1], Pick(t).hhi[2])
    BY PickFacts
  <1> HIDE DEF f
  <1>4. \A F : IsSumOver(F, f, SUBSET {r}) <=> IsFold(F)
    BY <1>3 DEF IsSumOver
  <1>5. \E F : IsFold(F)
    BY <1>1, <1>4, SumExists
  <1>6. IsSumOver(F0, f, SUBSET {r})
    <2> HIDE DEF IsFold
    <2> QED
      BY <1>4, <1>5
  <1>7. AddsUp(f, v)
    BY <1>1, <1>2, <1>6 DEF AddsUp
  <1> HIDE DEF v
  <1>8. v = f[r]
    BY <1>1, <1>7, SumOfOne
  <1> QED
    BY <1>1, <1>8 DEF v

LEMMA OneLargeFlow ==
    ASSUME NEW r, r.large_flow \in Int
    PROVE  MapThenSumSet(LAMBDA s : s.large_flow, {r}) = r.large_flow
  <1> DEFINE f == [s \in {r} |-> s.large_flow]
             IsFold(F) == F = [t \in SUBSET {r} |-> IF t = {} THEN 0
                                 ELSE Pick(t).large_flow + F[t \ {Pick(t)}]]
             F0 == CHOOSE it : IsFold(it)
             v == MapThenSumSet(LAMBDA s : s.large_flow, {r})
  <1>1. IsFiniteSet({r}) /\ DOMAIN f = {r} /\ f[r] = r.large_flow
    BY FS_Singleton
  <1>2. v = F0[{r}]
    BY DEF MapThenSumSet, MapThenFoldSet, Pick
  <1>3. \A t \in SUBSET {r} : t # {} => f[Pick(t)] = Pick(t).large_flow
    BY PickFacts
  <1> HIDE DEF f
  <1>4. \A F : IsSumOver(F, f, SUBSET {r}) <=> IsFold(F)
    BY <1>3 DEF IsSumOver
  <1>5. \E F : IsFold(F)
    BY <1>1, <1>4, SumExists
  <1>6. IsSumOver(F0, f, SUBSET {r})
    <2> HIDE DEF IsFold
    <2> QED
      BY <1>4, <1>5
  <1>7. AddsUp(f, v)
    BY <1>1, <1>2, <1>6 DEF AddsUp
  <1> HIDE DEF v
  <1>8. v = f[r]
    BY <1>1, <1>7, SumOfOne
  <1> QED
    BY <1>1, <1>8 DEF v

LEMMA OneSmartFlow ==
    ASSUME NEW r, r.smart_flow \in Int
    PROVE  MapThenSumSet(LAMBDA s : s.smart_flow, {r}) = r.smart_flow
  <1> DEFINE f == [s \in {r} |-> s.smart_flow]
             IsFold(F) == F = [t \in SUBSET {r} |-> IF t = {} THEN 0
                                 ELSE Pick(t).smart_flow + F[t \ {Pick(t)}]]
             F0 == CHOOSE it : IsFold(it)
             v == MapThenSumSet(LAMBDA s : s.smart_flow, {r})
  <1>1. IsFiniteSet({r}) /\ DOMAIN f = {r} /\ f[r] = r.smart_flow
    BY FS_Singleton
  <1>2. v = F0[{r}]
    BY DEF MapThenSumSet, MapThenFoldSet, Pick
  <1>3. \A t \in SUBSET {r} : t # {} => f[Pick(t)] = Pick(t).smart_flow
    BY PickFacts
  <1> HIDE DEF f
  <1>4. \A F : IsSumOver(F, f, SUBSET {r}) <=> IsFold(F)
    BY <1>3 DEF IsSumOver
  <1>5. \E F : IsFold(F)
    BY <1>1, <1>4, SumExists
  <1>6. IsSumOver(F0, f, SUBSET {r})
    <2> HIDE DEF IsFold
    <2> QED
      BY <1>4, <1>5
  <1>7. AddsUp(f, v)
    BY <1>1, <1>2, <1>6 DEF AddsUp
  <1> HIDE DEF v
  <1>8. v = f[r]
    BY <1>1, <1>7, SumOfOne
  <1> QED
    BY <1>1, <1>8 DEF v

(* What makes the row of an open bucket score within the range.            *)
ScoredRow(r) ==
    /\ r.volume \in Nat
    /\ r.imbalance[1] \in Int /\ r.imbalance[2] \in Nat /\ r.imbalance[2] > 0
    /\ AbsVal(r.imbalance[1]) <= r.imbalance[2]
    /\ r.hhi[1] \in Nat /\ r.hhi[2] \in Nat /\ r.hhi[2] > 0 /\ r.hhi[1] <= r.hhi[2]
    /\ r.large_flow \in Int
    /\ r.smart_flow \in Int /\ AbsVal(r.smart_flow) <= 8 * r.volume

IsClamped(c, low, x, high) ==
    /\ c \in Int /\ low <= c /\ c <= high
    /\ low <= x /\ x <= high => c = x
    /\ x <= low => c = low

LEMMA ClampFacts ==
    ASSUME NEW low \in Int, NEW x \in Int, NEW high \in Int, low <= high
    PROVE  IsClamped(Clamp(low, x, high), low, x, high)
  <1> DEFINE m == Min({x, high})
  <1>1. m = IF x <= high THEN x ELSE high
    BY GreaterOfTwo
  <1>2. m \in Int
    BY <1>1
  <1> HIDE DEF m
  <1>3. Max({low, m}) = IF low >= m THEN low ELSE m
    BY <1>2, GreaterOfTwo
  <1>4. Clamp(low, x, high) = Max({low, m})
    BY DEF Clamp, m
  <1> QED
    BY <1>1, <1>2, <1>3, <1>4 DEF IsClamped

LEMMA SmartOfOne ==
    ASSUME NEW r, ScoredRow(r)
    PROVE  /\ SmartNorm({r}) = SmartFlow({r}) /\ SmartFlow({r}) \in Int
           /\ r.smart_flow <= 0 => SmartFlow({r}) <= 0
           /\ r.smart_flow >= 0 => SmartFlow({r}) >= 0
  <1> DEFINE q == SmartFlow({r})
  <1>1. r.smart_flow \in Int /\ r.volume \in Nat /\ 8 * r.volume \in Nat
        /\ AbsVal(r.smart_flow) <= 8 * r.volume
    BY DEF ScoredRow
  <1>2. Volume({r}) = r.volume
    BY <1>1, OneVolume DEF Volume
  <1>3. q = FlowShare(r.smart_flow, 8 * r.volume)
    BY <1>1, <1>2, OneSmartFlow DEF SmartFlow
  <1>4. IsShare(q, r.smart_flow, 8 * r.volume)
    BY <1>1, <1>3, FlowShareFacts
  <1>5. q \in Int /\ q \in -1000..1000
    BY <1>1, <1>4 DEF IsShare
  <1> HIDE DEF q
  <1>6. Clamp(-1000, q, 1000) = q
    <2>1. IsClamped(Clamp(-1000, q, 1000), -1000, q, 1000)
      BY <1>5, ClampFacts
    <2> QED
      BY <1>5, <2>1 DEF IsClamped
  <1>7. SmartNorm({r}) = q
    BY <1>6 DEF SmartNorm, q
  <1> QED
    BY <1>4, <1>5, <1>7 DEF IsShare, q

LEMMA VolSpikeRange ==
    ASSUME NEW r, ScoredRow(r), NEW h, ScoredRow(h)
    PROVE  VolSpike({r}, {h}) \in 0..999
  <1>1. r.volume \in Nat /\ h.volume \in Nat
    BY DEF ScoredRow
  <1>2. Volume({r}) = r.volume /\ Volume({h}) = h.volume
    BY <1>1, OneVolume DEF Volume
  <1>3. RateMultiple({r}, {h}) \in 0..10
    <2>1. CASE r.volume = 0 \/ h.volume = 0
      BY <1>2, <2>1 DEF RateMultiple, Limit
    <2>2. CASE r.volume > 0 /\ h.volume > 0
      <3> DEFINE n == 60 * r.volume
                 q == n \div h.volume
      <3>1. n \in Nat
        BY <1>1
      <3>2. q \in Int /\ n < h.volume * q + h.volume
        <4>1. IsQuotient(q, n, h.volume)
          <5> HIDE DEF n
          <5> QED
            BY <1>1, <2>2, <3>1, QuotientFacts
        <4> QED
          BY <4>1 DEF IsQuotient
      <3>3. RateMultiple({r}, {h}) = Min({10, q})
        <4>1. Volume({r}) # 0 /\ Volume({h}) # 0
          BY <1>2, <2>2
        <4>2. RateMultiple({r}, {h}) = Min({Limit, (60 * Volume({r})) \div Volume({h})})
          BY <4>1, Zenon DEF RateMultiple
        <4> QED
          BY <1>2, <4>2, Zenon DEF Limit
      <3> HIDE DEF q
      <3>4. q >= 0
        <4> SUFFICES ASSUME q <= -1 PROVE FALSE
          BY <3>2
        <4>1. h.volume * q <= h.volume * (-1)
          BY <1>1, <3>2, TimesMonotone
        <4>2. h.volume * (-1) = -h.volume /\ h.volume * q \in Int
          BY <1>1, <3>2
        <4> QED
          BY <1>1, <3>1, <3>2, <4>1, <4>2
      <3>5. Min({10, q}) = IF 10 <= q THEN 10 ELSE q
        BY <3>2, GreaterOfTwo
      <3> QED
        BY <3>2, <3>3, <3>4, <3>5
    <2> QED
      BY <1>1, <2>1, <2>2
  <1> QED
    BY <1>3, SquashFacts DEF VolSpike

LEMMA ImbalanceRange ==
    ASSUME NEW r, ScoredRow(r)
    PROVE  /\ Imbalance({r}) \in 0..1000
           /\ r.imbalance[1] <= 0 => Imbalance({r}) = 0
  <1> DEFINE num == r.imbalance[1]
             den == r.imbalance[2]
             q == PerMille(num, den)
  <1>1. num \in Int /\ den \in Nat /\ den > 0 /\ AbsVal(num) <= den
    BY DEF ScoredRow
  <1> HIDE DEF num, den
  <1>2. IsShare(q, num, den)
    BY <1>1, PerMilleFacts
  <1> HIDE DEF q
  <1>3. q \in Int /\ q \in -1000..1000 /\ (num <= 0 => q <= 0)
    BY <1>1, <1>2 DEF IsShare
  <1>4. Imbalance({r}) = Max({0, q})
    BY <1>3, OneImbalance DEF Imbalance, q, num, den
  <1>5. Max({0, q}) = IF 0 >= q THEN 0 ELSE q
    BY <1>3, GreaterOfTwo
  <1>6. Imbalance({r}) \in 0..1000 /\ (num <= 0 => Imbalance({r}) = 0)
    BY <1>3, <1>4, <1>5
  <1> QED
    BY <1>6 DEF num

LEMMA ConcentrationRange ==
    ASSUME NEW r, ScoredRow(r)
    PROVE  Concentration({r}) \in 0..1000
  <1> DEFINE num == r.hhi[1]
             den == r.hhi[2]
             q == PerMille(num, den)
  <1>1. num \in Int /\ num >= 0 /\ den \in Nat /\ den > 0
    BY DEF ScoredRow
  <1> HIDE DEF num, den
  <1>2. IsShare(q, num, den)
    BY <1>1, PerMilleFacts
  <1> HIDE DEF q
  <1>3. q \in Int /\ q >= 0 /\ 5 * q \in Int
    BY <1>1, <1>2 DEF IsShare
  <1>4. Concentration({r}) = Min({1000, 5 * q})
    <2> DEFINE p == MapThenSumSet(LAMBDA s : PerMille(s.hhi[1], s.hhi[2]), {r})
    <2>1. p = q
      BY <1>3, OneConcentration DEF q, num, den
    <2>2. Concentration({r}) = Min({1000, 5 * p})
      BY DEF Concentration
    <2> HIDE DEF p
    <2> QED
      BY <2>1, <2>2, Zenon
  <1>5. Min({1000, 5 * q}) = IF 1000 <= 5 * q THEN 1000 ELSE 5 * q
    BY <1>3, GreaterOfTwo
  <1> QED
    BY <1>3, <1>4, <1>5

LEMMA BigFlowRange ==
    ASSUME NEW r, ScoredRow(r)
    PROVE  /\ BigFlow({r}) \in 0..1000
           /\ r.large_flow <= 0 => BigFlow({r}) = 0
  <1> DEFINE q == FlowShare(r.large_flow, r.volume)
  <1>1. r.large_flow \in Int /\ r.volume \in Nat
    BY DEF ScoredRow
  <1>2. IsShare(q, r.large_flow, r.volume)
    BY <1>1, FlowShareFacts
  <1>3. Volume({r}) = r.volume
    BY <1>1, OneVolume DEF Volume
  <1>4. BigFlow({r}) = Clamp(0, q, 1000)
    BY <1>1, <1>3, OneLargeFlow DEF BigFlow
  <1> HIDE DEF q
  <1>5. q \in Int /\ (r.large_flow <= 0 => q <= 0)
    BY <1>2 DEF IsShare
  <1>6. Clamp(0, q, 1000) \in 0..1000 /\ (q <= 0 => Clamp(0, q, 1000) = 0)
    <2>1. IsClamped(Clamp(0, q, 1000), 0, q, 1000)
      BY <1>5, ClampFacts
    <2> QED
      BY <1>5, <2>1 DEF IsClamped
  <1> QED
    BY <1>4, <1>5, <1>6

LEMMA ScoreOfRows ==
    ASSUME NEW r, ScoredRow(r), NEW h, ScoredRow(h)
    PROVE  /\ Score({r}, {h}) \in 0..1000
           /\ r.imbalance[1] <= 0 /\ r.large_flow <= 0 => Score({r}, {h}) < 600
  <1> DEFINE v == VolSpike({r}, {h})
             i == Imbalance({r})
             c == Concentration({r})
             b == BigFlow({r})
  <1>1. /\ v \in 0..999 /\ i \in 0..1000 /\ c \in 0..1000 /\ b \in 0..1000
        /\ r.imbalance[1] <= 0 => i = 0
        /\ r.large_flow <= 0 => b = 0
    BY VolSpikeRange, ImbalanceRange, ConcentrationRange, BigFlowRange
  <1>2. Score({r}, {h}) = (35 * v + 30 * i + 20 * c + 15 * b) \div 100
    BY DEF Score
  <1> HIDE DEF v, i, c, b
  <1>3. (35 * v + 30 * i + 20 * c + 15 * b) \div 100 \in 0..1000
    <2> DEFINE n == 35 * v + 30 * i + 20 * c + 15 * b
    <2>1. n \in Nat /\ n <= 100000
      BY <1>1
    <2> HIDE DEF n
    <2>2. n \div 100 \in 0..1000
      BY <2>1
    <2> QED
      BY <2>2 DEF n
  <1>4. i = 0 /\ b = 0 => (35 * v + 30 * i + 20 * c + 15 * b) \div 100 < 600
    BY <1>1
  <1> QED
    BY <1>1, <1>2, <1>3, <1>4

(* The row of an open bucket is one of those.                              *)
LEMMA RowIsScored ==
    ASSUME WindowsTypeOK, SaneInv, NEW k \in DOMAIN open
    PROVE  LET row == OpenSnapshots[k]
               b == open[k]
           IN  /\ ScoredRow(row)
               /\ row.volume = b.volume
               /\ b.taker_buy = 0 => row.imbalance[1] <= 0
               /\ row.large_flow = LargeSum(b.wallet_flow)
               /\ row.smart_flow = WeighedSum(b.wallet_flow, Weights(wallets))
               /\ FlowsOK(b.wallet_flow) /\ DOMAIN b.wallet_flow \subseteq Addrs
  <1> DEFINE b == open[k]
             flows == b.wallet_flow
             weight == Weights(wallets)
             row == Snapshot(b, weight)
             gross == AbsSum(flows)
             squares == SquaredSum(flows)
  <1>1. OpenSnapshots[k] = row
    BY DEF OpenSnapshots
  <1>2. IsBucket(b) /\ BucketSane(b)
    BY DEF WindowsTypeOK, SaneInv
  <1>3. FlowsOK(flows) /\ DOMAIN flows \subseteq Addrs
    BY <1>2 DEF IsBucket, IsFlows, BucketSane, FlowsOK
  <1>4. \A a \in DOMAIN flows : weight[a] \in 0..8
    BY <1>3, WeightBound DEF Weights
  <1>5. SaneRow(row, Gross(b))
    BY <1>1, RowsAreSane DEF SnapshotsSane
  <1> HIDE DEF weight
  <1>6. gross \in Nat /\ squares \in Nat
    BY <1>3, <1>4, FlowSums
  <1>7. /\ Terms(LargeFlows(flows)) /\ AddsUp(LargeFlows(flows), LargeSum(flows))
        /\ Terms(WeighedFlows(flows, weight))
        /\ AddsUp(WeighedFlows(flows, weight), WeighedSum(flows, weight))
    BY <1>3, <1>4, LargeFold, WeighedFold
  <1>8. LargeSum(flows) \in Int /\ WeighedSum(flows, weight) \in Int
    BY <1>7, SumIsIntegral
  <1>9. Gross(b) = gross
    BY DEF Gross, AbsSum
  <1>10. /\ row.large_flow = LargeSum(flows)
         /\ row.smart_flow = WeighedSum(flows, weight)
         /\ row.hhi = Ratio(squares, gross * gross)
    BY <1>9 DEF Snapshot, LargeSum, LargeOf, WeighedSum, SquaredSum
  <1>11. /\ row.imbalance = Ratio(b.taker_buy - b.taker_sell, b.taker_buy + b.taker_sell)
         /\ row.volume = b.volume
    BY DEF Snapshot
  <1>12. /\ b.taker_buy \in Nat /\ b.taker_sell \in Nat /\ b.volume \in Nat
    BY <1>2 DEF IsBucket
  <1> HIDE DEF row, gross, squares, b, flows
  <1>13. /\ row.imbalance[1] \in Int /\ row.imbalance[2] \in Nat /\ row.imbalance[2] > 0
         /\ AbsVal(row.imbalance[1]) <= row.imbalance[2]
         /\ b.taker_buy = 0 => row.imbalance[1] <= 0
    BY <1>11, <1>12 DEF Ratio, AbsVal
  <1>14. row.hhi[1] \in Nat /\ row.hhi[2] \in Nat /\ row.hhi[2] > 0 /\ row.hhi[1] <= row.hhi[2]
    <2>1. CASE gross = 0
      <3>1. ~(gross * gross > 0)
        BY <2>1
      <3>2. row.hhi = <<0, 1>>
        BY <1>10, <3>1 DEF Ratio
      <3> QED
        BY <3>2
    <2>2. CASE gross > 0
      <3>1. gross * gross \in Nat /\ gross * gross > 0
        BY <1>6, <2>2
      <3>2. row.hhi = <<squares, gross * gross>>
        BY <1>10, <3>1 DEF Ratio
      <3>3. row.hhi[1] <= row.hhi[2]
        BY <1>5, <1>9, <2>2 DEF SaneRow
      <3> QED
        BY <1>6, <3>1, <3>2, <3>3
    <2> QED
      BY <1>6, <2>1, <2>2
  <1>15. AbsVal(row.smart_flow) <= 8 * row.volume
    <2>1. AbsVal(row.smart_flow) <= 8 * gross /\ gross <= row.volume
      BY <1>5, <1>9 DEF SaneRow
    <2>2. AbsVal(row.smart_flow) \in Int
      BY <1>8, <1>10 DEF AbsVal
    <2> QED
      BY <1>6, <1>11, <1>12, <2>1, <2>2
  <1>16. ScoredRow(row)
    BY <1>8, <1>10, <1>11, <1>12, <1>13, <1>14, <1>15 DEF ScoredRow
  <1> QED
    BY <1>1, <1>3, <1>10, <1>11, <1>13, <1>16 DEF b, flows, weight

(* Buying and selling in a bucket is that of the fills that fall in it.    *)
FillsIn(k) == {applied[i] : i \in InBucket(k, open[k].bucket_ts)}

LEMMA SidesOfBucket ==
    ASSUME WindowsHold, NEW k \in DOMAIN open
    PROVE  LET b == open[k]
           IN  /\ b.taker_buy # 0 => \E f \in FillsIn(k) : f.buy
               /\ \A a \in DOMAIN b.wallet_flow :
                     /\ b.wallet_flow[a] > 0 => \E f \in FillsIn(k) : f.buy = TRUE /\ f.addr = a
                     /\ b.wallet_flow[a] < 0 => \E f \in FillsIn(k) : f.buy = FALSE /\ f.addr = a
  <1> DEFINE b == open[k]
             ts == b.bucket_ts
             I == InBucket(k, ts)
             takers == TakersIn(applied, I, TRUE)
  <1>1. b = BucketOf(ts, I)
    BY ExactHolds DEF OpenBucketsExact
  <1>2. applied \in Seq(Fills)
    BY DEF WindowsHold, ExactInv
  <1>3. I \in SUBSET DOMAIN applied
    BY DEF InBucket, ArrivalsOn
  <1>4. \A i \in I : applied[i] \in Fills /\ applied[i].buy \in BOOLEAN
    BY <1>2, <1>3, ArrivalFacts, FillsAssumption
  <1>5. FillsIn(k) = {applied[i] : i \in I}
    BY DEF FillsIn
  <1> HIDE DEF I, ts
  <1>6. /\ b.taker_buy = NotionalIn(applied, takers)
        /\ \A a \in DOMAIN b.wallet_flow : b.wallet_flow[a] = SignedIn(applied, ByAddr(applied, I, a))
    <2>1. b = BucketIn(applied, ts, I)
      BY <1>1, <1>2, <1>3, BucketInFacts
    <2> HIDE DEF b
    <2> QED
      BY <2>1 DEF BucketIn
  <1> HIDE DEF b
  <1>7. ASSUME b.taker_buy # 0
        PROVE  \E f \in FillsIn(k) : f.buy
    <2>1. takers # {}
      <3> SUFFICES ASSUME takers = {} PROVE FALSE
        OBVIOUS
      <3>1. NotionalIn(applied, {}) = 0
        BY <1>2, SumsOfNone
      <3> QED
        BY <1>6, <1>7, <3>1
    <2> QED
      BY <1>5, <2>1 DEF TakersIn
  <1>8. ASSUME NEW a \in DOMAIN b.wallet_flow
        PROVE  /\ b.wallet_flow[a] > 0 => \E f \in FillsIn(k) : f.buy = TRUE /\ f.addr = a
               /\ b.wallet_flow[a] < 0 => \E f \in FillsIn(k) : f.buy = FALSE /\ f.addr = a
    <2> DEFINE J == ByAddr(applied, I, a)
               g == Signeds(applied, J)
               v == SignedIn(applied, J)
    <2>1. Terms(g) /\ AddsUp(g, v)
      <3>1. J \in SUBSET DOMAIN applied
        BY <1>3 DEF ByAddr
      <3> HIDE DEF J
      <3> QED
        BY <1>2, <3>1, SumsIn
    <2>2. DOMAIN g = J /\ \A i \in J : g[i] = SignedNotional(applied[i])
      BY DEF Signeds
    <2>3. v = b.wallet_flow[a]
      BY <1>6
    <2>4. \A i \in J : applied[i].addr = a /\ i \in I
      BY DEF ByAddr
    <2>5. v \in Int
      BY <2>1, SumIsIntegral
    <2>6. \A i \in J : /\ applied[i].buy = FALSE => SignedNotional(applied[i]) <= 0
                       /\ applied[i].buy = TRUE => SignedNotional(applied[i]) >= 0
      BY <1>4, <2>4, FillFacts DEF SignedNotional
    <2> HIDE DEF J, g, v
    <2>7. /\ (\A x \in J : g[x] <= 0) => v <= 0
          /\ (\A x \in J : g[x] >= 0) => v >= 0
      BY <2>1, <2>2, SumSign
    <2>8. ASSUME v > 0 PROVE \E i \in J : applied[i].buy = TRUE
      <3>1. (\A i \in J : applied[i].buy = FALSE) => v <= 0
        BY <2>2, <2>6, <2>7
      <3> QED
        BY <1>4, <2>4, <2>5, <2>8, <3>1
    <2>9. ASSUME v < 0 PROVE \E i \in J : applied[i].buy = FALSE
      <3>1. (\A i \in J : applied[i].buy = TRUE) => v >= 0
        BY <2>2, <2>6, <2>7
      <3> QED
        BY <1>4, <2>4, <2>5, <2>9, <3>1
    <2> QED
      BY <1>5, <2>3, <2>4, <2>8, <2>9
  <1> QED
    BY <1>7, <1>8 DEF b

LEMMA SumShows ==
    ASSUME NEW f, Terms(f), NEW v, AddsUp(f, v)
    PROVE  /\ v > 0 => \E x \in DOMAIN f : f[x] > 0
           /\ v < 0 => \E x \in DOMAIN f : f[x] < 0
  <1>1. v \in Int /\ \A x \in DOMAIN f : f[x] \in Int
    BY SumIsIntegral DEF Terms
  <1>2. /\ (\A x \in DOMAIN f : f[x] <= 0) => v <= 0
        /\ (\A x \in DOMAIN f : f[x] >= 0) => v >= 0
    BY SumSign
  <1> QED
    BY <1>1, <1>2

(* What the scorer makes of the rows of a coin.                            *)
WeightedIn(k, buy) ==
    {f \in FillsIn(k) : f.buy = buy /\ WalletWeight(wallets, f.addr) > 0}

ScoresOf(c) ==
    LET score == Score({OpenSnapshots[<<c, "1m">>]}, {OpenSnapshots[<<c, "1h">>]})
        smart == SmartNorm({OpenSnapshots[<<c, "5m">>]})
    IN  /\ score \in 0..1000 /\ smart \in Int
        /\ smart = SmartFlow({OpenSnapshots[<<c, "5m">>]})
        /\ Volume({OpenSnapshots[<<c, "1m">>]}) <= Volume({OpenSnapshots[<<c, "1h">>]})
        /\ score >= 600 => \E f \in FillsIn(<<c, "1m">>) : f.buy
        /\ smart > 0 => WeightedIn(<<c, "5m">>, TRUE) # {}
        /\ smart < 0 => WeightedIn(<<c, "5m">>, FALSE) # {}

LEMMA ScoresHold ==
    ASSUME WindowsHold, SaneInv, NEW k \in DOMAIN open, NEW c, c = k[1]
    PROVE  ScoresOf(c)
  <1> DEFINE m == OpenSnapshots[<<c, "1m">>]
             r == OpenSnapshots[<<c, "5m">>]
             h == OpenSnapshots[<<c, "1h">>]
             weight == Weights(wallets)
             flows == open[<<c, "5m">>].wallet_flow
             minute == open[<<c, "1m">>].wallet_flow
  <1>1. WindowsTypeOK /\ WindowsNested
    BY NestedHolds DEF WindowsHold, WindowsInv
  <1>2. c \in Coins /\ k[2] \in Windows /\ k = <<c, k[2]>>
    BY <1>1 DEF WindowsTypeOK, Keys
  <1>3. /\ <<c, "1m">> \in DOMAIN open /\ <<c, "5m">> \in DOMAIN open
        /\ <<c, "1h">> \in DOMAIN open
        /\ Nested(open[<<c, "1m">>], open[<<c, "5m">>])
        /\ Nested(open[<<c, "5m">>], open[<<c, "1h">>])
    <2>1. "1m" \in Windows /\ "5m" \in Windows /\ "1h" \in Windows
      BY DEF Windows
    <2> QED
      BY <1>1, <1>2, <2>1 DEF WindowsNested
  <1>4. /\ ScoredRow(m) /\ m.volume = open[<<c, "1m">>].volume
        /\ open[<<c, "1m">>].taker_buy = 0 => m.imbalance[1] <= 0
        /\ m.large_flow = LargeSum(minute) /\ FlowsOK(minute)
    BY <1>1, <1>3, RowIsScored
  <1>5. /\ ScoredRow(r) /\ r.volume = open[<<c, "5m">>].volume
        /\ r.smart_flow = WeighedSum(flows, weight)
        /\ FlowsOK(flows) /\ DOMAIN flows \subseteq Addrs
    BY <1>1, <1>3, RowIsScored
  <1>6. ScoredRow(h) /\ h.volume = open[<<c, "1h">>].volume
    BY <1>1, <1>3, RowIsScored
  <1>7. Volume({m}) <= Volume({h})
    <2>1. m.volume \in Nat /\ r.volume \in Nat /\ h.volume \in Nat
      BY <1>4, <1>5, <1>6 DEF ScoredRow
    <2>2. m.volume <= r.volume /\ r.volume <= h.volume
      BY <1>3, <1>4, <1>5, <1>6 DEF Nested
    <2>3. Volume({m}) = m.volume /\ Volume({h}) = h.volume
      BY <2>1, OneVolume DEF Volume
    <2> HIDE DEF ScoresOf, m, r, h
    <2> QED
      BY <2>1, <2>2, <2>3
  <1>8. /\ Score({m}, {h}) \in 0..1000
        /\ m.imbalance[1] <= 0 /\ m.large_flow <= 0 => Score({m}, {h}) < 600
    BY <1>4, <1>6, ScoreOfRows
  <1>9. /\ SmartNorm({r}) = SmartFlow({r}) /\ SmartNorm({r}) \in Int
        /\ r.smart_flow <= 0 => SmartNorm({r}) <= 0
        /\ r.smart_flow >= 0 => SmartNorm({r}) >= 0
    BY <1>5, SmartOfOne
  <1> HIDE DEF ScoresOf, m, r, h
  <1>10. ASSUME Score({m}, {h}) >= 600
         PROVE  \E f \in FillsIn(<<c, "1m">>) : f.buy
    <2>1. ~(m.imbalance[1] <= 0) \/ ~(m.large_flow <= 0)
      BY <1>8, <1>10
    <2>2. CASE ~(m.imbalance[1] <= 0)
      <3>1. open[<<c, "1m">>].taker_buy # 0
        BY <1>4, <2>2
      <3> QED
        BY <1>3, <3>1, SidesOfBucket
    <2>3. CASE ~(m.large_flow <= 0)
      <3> DEFINE g == LargeFlows(minute)
      <3>1. Terms(g) /\ AddsUp(g, m.large_flow)
        BY <1>4, LargeFold
      <3>2. DOMAIN g \subseteq DOMAIN minute /\ \A a \in DOMAIN g : g[a] = minute[a]
        BY DEF LargeFlows, LargeOf
      <3>3. m.large_flow > 0
        BY <1>4, <2>3 DEF ScoredRow
      <3> HIDE DEF g
      <3>4. PICK a \in DOMAIN g : g[a] > 0
        BY <3>1, <3>3, SumShows
      <3>5. a \in DOMAIN minute /\ minute[a] > 0
        BY <3>2, <3>4
      <3> QED
        BY <1>3, <3>5, SidesOfBucket
    <2> QED
      BY <2>1, <2>2, <2>3
  <1> DEFINE g == WeighedFlows(flows, weight)
  <1>11. \A a \in DOMAIN flows : weight[a] \in 0..8 /\ weight[a] = WalletWeight(wallets, a)
    BY <1>5, WeightBound DEF Weights
  <1>12. Terms(g) /\ AddsUp(g, r.smart_flow)
    <2>1. \A a \in DOMAIN flows : weight[a] \in Int
      BY <1>11
    <2> HIDE DEF weight, flows
    <2> QED
      BY <1>5, <2>1, WeighedFold
  <1>13. DOMAIN g = DOMAIN flows /\ \A a \in DOMAIN g : g[a] = flows[a] * weight[a]
    BY DEF WeighedFlows
  <1>14. r.smart_flow \in Int /\ \A a \in DOMAIN flows : flows[a] \in Int
    BY <1>5 DEF ScoredRow, FlowsOK
  <1>15. /\ \A a \in DOMAIN flows : flows[a] > 0 => \E f \in FillsIn(<<c, "5m">>) :
                                                       f.buy = TRUE /\ f.addr = a
         /\ \A a \in DOMAIN flows : flows[a] < 0 => \E f \in FillsIn(<<c, "5m">>) :
                                                       f.buy = FALSE /\ f.addr = a
    BY <1>3, SidesOfBucket
  <1> HIDE DEF g, flows, weight
  <1>16. ASSUME SmartNorm({r}) > 0
         PROVE  WeightedIn(<<c, "5m">>, TRUE) # {}
    <2>1. r.smart_flow > 0
      BY <1>9, <1>14, <1>16
    <2>2. PICK a \in DOMAIN g : g[a] > 0
      BY <1>12, <2>1, SumShows
    <2>3. /\ a \in DOMAIN flows /\ flows[a] \in Int /\ weight[a] \in 0..8
          /\ flows[a] * weight[a] > 0
      BY <1>11, <1>13, <1>14, <2>2
    <2>4. flows[a] > 0 /\ weight[a] > 0
      BY <2>3, ProductSign
    <2> QED
      BY <1>11, <1>15, <2>3, <2>4 DEF WeightedIn
  <1>17. ASSUME SmartNorm({r}) < 0
         PROVE  WeightedIn(<<c, "5m">>, FALSE) # {}
    <2>1. r.smart_flow < 0
      BY <1>9, <1>14, <1>17
    <2>2. PICK a \in DOMAIN g : g[a] < 0
      BY <1>12, <2>1, SumShows
    <2>3. /\ a \in DOMAIN flows /\ flows[a] \in Int /\ weight[a] \in 0..8
          /\ flows[a] * weight[a] < 0
      BY <1>11, <1>13, <1>14, <2>2
    <2>4. flows[a] < 0 /\ weight[a] > 0
      BY <2>3, ProductSign
    <2> QED
      BY <1>11, <1>15, <2>3, <2>4 DEF WeightedIn
  <1> QED
    BY <1>7, <1>8, <1>9, <1>10, <1>16, <1>17 DEF ScoresOf, m, r, h

-----------------------------------------------------------------------------
(* The engine fed by a replay. Every step of the replay leaves the engine  *)
(* alone or applies one fill to it, so what holds of the windows for any   *)
(* fills and weights holds of a replay.                                    *)
ReplayTypes ==
    /\ files \in Seq(SUBSET Fills)
    /\ limitDays \in Nat /\ maxFills \in Nat
    /\ day \in Nat
    /\ left \in SUBSET Fills
    /\ \A i \in DOMAIN files : IsFiniteSet(files[i])
    /\ \A i, j \in DOMAIN files : i < j => files[i] \cap files[j] = {}

LEMMA DayFilesFacts ==
    ASSUME ReplayTypes
    PROVE  /\ Len(DayFiles) \in Nat /\ DOMAIN DayFiles = 1..Len(DayFiles)
           /\ \A i \in 1..Len(DayFiles) : /\ i \in DOMAIN files
                                          /\ DayFiles[i] = files[i]
                                          /\ DayFiles[i] \in SUBSET Fills
  <1>1. /\ files \in Seq(SUBSET Fills) /\ limitDays \in Nat /\ Len(files) \in Nat
        /\ DOMAIN files = 1..Len(files)
        /\ \A i \in 1..Len(files) : files[i] \in SUBSET Fills
    BY LenProperties, ElementOfSeq DEF ReplayTypes
  <1>2. CASE limitDays = 0 \/ limitDays > Len(files)
    BY <1>1, <1>2 DEF DayFiles
  <1>3. CASE ~(limitDays = 0 \/ limitDays > Len(files))
    <2>1. /\ DayFiles = SubSeq(files, 1, limitDays)
          /\ \A i \in 1..limitDays : i \in 1..Len(files)
      BY <1>1, <1>3 DEF DayFiles
    <2>2. /\ SubSeq(files, 1, limitDays) \in Seq(SUBSET Fills)
          /\ Len(SubSeq(files, 1, limitDays)) = limitDays
          /\ \A i \in 1..limitDays : SubSeq(files, 1, limitDays)[i] = files[i]
      BY <1>1, <1>3, <2>1, SubSeqProperties
    <2>3. DOMAIN DayFiles = 1..Len(DayFiles)
      BY <2>1, <2>2, LenProperties
    <2> QED
      BY <1>1, <2>1, <2>2, <2>3
  <1> QED
    BY <1>2, <1>3

LEMMA ReplayStarts ==
    ASSUME ReplayInit
    PROVE  ReplayTypes /\ EngineInit
  BY ReplaysAssumption DEF ReplayInit, ReplayTypes

LEMMA ReplaySteps ==
    ASSUME ReplayTypes, [ReplayNext]_replayVars
    PROVE  /\ ReplayTypes'
           /\ (\E f \in Fills : Apply(f)) \/ UNCHANGED engineVars
  <1>1. CASE OpenDay
    <2>1. DayFiles[day + 1] \in SUBSET Fills
      BY <1>1, DayFilesFacts DEF OpenDay, ReplayTypes
    <2> QED
      BY <1>1, <2>1 DEF OpenDay, ReplayTypes, arguments
  <1>2. CASE Yield
    <2>1. PICK f \in NextRows : Apply(f) /\ left' = left \ {f}
      BY <1>2 DEF Yield
    <2>2. f \in Fills
      BY <2>1 DEF NextRows, ReplayTypes
    <2>3. ReplayTypes'
      BY <1>2, <2>1 DEF Yield, ReplayTypes, arguments
    <2> QED
      BY <2>1, <2>2, <2>3
  <1>3. CASE EndOfFiles \/ Finished \/ UNCHANGED replayVars
    BY <1>3 DEF EndOfFiles, Finished, replayVars, ReplayTypes, arguments
  <1> QED
    BY <1>1, <1>2, <1>3 DEF ReplayNext

(* Rows. What was yielded and what is left of the current file are, apart, *)
(* the rows of the files opened so far; and of disjoint files what was     *)
(* yielded comes before what is left.                                      *)
Opened == UNION {DayFiles[i] : i \in 1..day}

RowsYielded ==
    /\ day \in 0..Len(DayFiles)
    /\ Yielded \cup left = Opened
    /\ Yielded \cap left = {}
    /\ IsFiniteSet(Yielded) /\ Cardinality(Yielded) = Len(applied)
    /\ \A i, j \in DOMAIN applied : i # j => applied[i] # applied[j]

LimitKept ==
    /\ maxFills # 0 => Len(applied) <= maxFills /\ (~ended => Len(applied) < maxFills)
    /\ ended => \/ left = {} /\ day = Len(DayFiles)
                \/ maxFills # 0 /\ Len(applied) = maxFills

RowsInOrder ==
    Disjoint => /\ InOrder
                /\ \A f \in Yielded, g \in left : f.ms <= g.ms

YieldInv == ReplayTypes /\ applied \in Seq(Fills) /\ RowsYielded /\ LimitKept /\ RowsInOrder

LEMMA YieldInvInit ==
    ASSUME ReplayInit
    PROVE  YieldInv
  <1>1. /\ applied = <<>> /\ day = 0 /\ left = {} /\ ended = FALSE
        /\ ReplayTypes
    BY ReplayStarts DEF ReplayInit, EngineInit
  <1>2. DOMAIN applied = {} /\ Len(applied) = 0 /\ applied \in Seq(Fills)
    BY <1>1
  <1>3. Yielded = {} /\ Opened = {}
    BY <1>1, <1>2 DEF Yielded, Opened
  <1>4. Len(DayFiles) \in Nat /\ maxFills \in Nat
    BY <1>1, DayFilesFacts DEF ReplayTypes
  <1>5. RowsYielded
    BY <1>1, <1>2, <1>3, <1>4, FS_EmptySet DEF RowsYielded
  <1>6. LimitKept
    BY <1>1, <1>2, <1>4 DEF LimitKept
  <1>7. RowsInOrder
    BY <1>2, <1>3 DEF RowsInOrder, InOrder
  <1> QED
    BY <1>1, <1>2, <1>5, <1>6, <1>7 DEF YieldInv

LEMMA OpenDayYields ==
    ASSUME YieldInv, OpenDay
    PROVE  YieldInv'
  <1>1. /\ ~ended /\ left = {} /\ day < Len(DayFiles) /\ day' = day + 1
        /\ left' = DayFiles[day + 1] /\ ended' = ended /\ applied' = applied
        /\ files' = files /\ limitDays' = limitDays /\ maxFills' = maxFills
    BY DEF OpenDay, engineVars, arguments
  <1>2. /\ ReplayTypes /\ applied \in Seq(Fills)
        /\ day \in 0..Len(DayFiles) /\ Yielded = Opened
        /\ IsFiniteSet(Yielded) /\ Cardinality(Yielded) = Len(applied)
        /\ \A i, j \in DOMAIN applied : i # j => applied[i] # applied[j]
    BY <1>1 DEF YieldInv, RowsYielded
  <1>3. ReplayTypes'
    BY <1>2, ReplaySteps DEF ReplayNext
  <1>4. DayFiles' = DayFiles /\ Yielded' = Yielded /\ InOrder' = InOrder /\ Disjoint' = Disjoint
    BY <1>1 DEF DayFiles, Yielded, InOrder, Disjoint
  <1>5. day \in Nat /\ Len(DayFiles) \in Nat /\ day + 1 \in 1..Len(DayFiles)
    BY <1>1, <1>2, DayFilesFacts
  <1>6. Opened' = Opened \cup DayFiles[day + 1]
    <2>1. 1..(day + 1) = (1..day) \cup {day + 1}
      BY <1>5
    <2> QED
      BY <1>1, <1>4, <2>1 DEF Opened
  <1>7. \A f \in Opened : \E i \in 1..day :
           i \in DOMAIN files /\ i < day + 1 /\ f \in files[i]
    BY <1>2, <1>5, DayFilesFacts DEF Opened
  <1>8. day + 1 \in DOMAIN files /\ left' = files[day + 1]
    BY <1>1, <1>2, <1>5, DayFilesFacts
  <1>9. Yielded \cap left' = {}
    <2> SUFFICES ASSUME NEW f \in Opened, f \in left' PROVE FALSE
      BY <1>2
    <2>1. PICK i \in DOMAIN files : i < day + 1 /\ f \in files[i]
      BY <1>7
    <2>2. files[i] \cap files[day + 1] = {}
      BY <1>2, <1>8, <2>1 DEF ReplayTypes
    <2> QED
      BY <1>8, <2>1, <2>2
  <1>10. RowsYielded'
    BY <1>1, <1>2, <1>4, <1>5, <1>6, <1>9 DEF RowsYielded
  <1>11. LimitKept'
    BY <1>1 DEF LimitKept, YieldInv
  <1>12. RowsInOrder'
    <2> SUFFICES ASSUME Disjoint, NEW f \in Yielded, NEW g \in left' PROVE f.ms <= g.ms
      BY <1>4 DEF RowsInOrder, YieldInv
    <2>1. PICK i \in DOMAIN files : i < day + 1 /\ f \in files[i]
      BY <1>2, <1>7
    <2>2. f.ms < g.ms
      BY <1>8, <2>1 DEF Disjoint
    <2>3. f \in Fills /\ g \in Fills
      BY <1>2, <1>8, <2>1, ElementOfSeq DEF ReplayTypes
    <2>4. f.ms \in Nat /\ g.ms \in Nat
      BY <2>3, FillsAssumption
    <2> QED
      BY <2>2, <2>4
  <1> QED
    BY <1>1, <1>2, <1>3, <1>10, <1>11, <1>12 DEF YieldInv

LEMMA YieldedGains ==
    ASSUME applied \in Seq(Fills), NEW f \in Fills, applied' = Append(applied, f)
    PROVE  Yielded' = Yielded \cup {f}
  <1> DEFINE n == Len(applied)
  <1>1. /\ n \in Nat /\ DOMAIN applied = 1..n /\ DOMAIN applied' = 1..(n + 1)
        /\ \A i \in 1..n : applied'[i] = applied[i]
        /\ applied'[n + 1] = f
    BY AppendProperties, LenProperties
  <1> HIDE DEF n
  <1>2. \A g \in Yielded' : g \in Yielded \cup {f}
    <2> SUFFICES ASSUME NEW i \in 1..(n + 1) PROVE applied'[i] \in Yielded \cup {f}
      BY <1>1 DEF Yielded
    <2>1. i \in 1..n \/ i = n + 1
      BY <1>1
    <2> QED
      BY <1>1, <2>1 DEF Yielded
  <1>3. \A g \in Yielded : g \in Yielded'
    <2> SUFFICES ASSUME NEW i \in 1..n PROVE applied[i] \in Yielded'
      BY <1>1 DEF Yielded
    <2>1. i \in 1..(n + 1)
      BY <1>1
    <2> QED
      BY <1>1, <2>1 DEF Yielded
  <1>4. f \in Yielded'
    <2>1. n + 1 \in 1..(n + 1)
      BY <1>1
    <2> QED
      BY <1>1, <2>1 DEF Yielded
  <1> QED
    BY <1>2, <1>3, <1>4

LEMMA YieldYields ==
    ASSUME YieldInv, Yield
    PROVE  YieldInv'
  <1>1. PICK f \in NextRows : Apply(f) /\ left' = left \ {f}
    BY DEF Yield
  <1>2. /\ applied' = Append(applied, f) /\ ~ended /\ ended' = Enough(Len(applied'))
        /\ files' = files /\ limitDays' = limitDays /\ maxFills' = maxFills /\ day' = day
    BY <1>1 DEF Yield, Apply, Arrive, arguments
  <1>3. ReplayTypes /\ applied \in Seq(Fills) /\ maxFills \in Nat
    BY DEF YieldInv, ReplayTypes
  <1>4. f \in left /\ f \in Fills /\ \A g \in left : f.ms <= g.ms
    BY <1>1, <1>3 DEF NextRows, ReplayTypes
  <1>5. ReplayTypes'
    BY <1>3, ReplaySteps DEF ReplayNext
  <1> DEFINE n == Len(applied)
  <1>6. /\ applied' \in Seq(Fills) /\ n \in Nat /\ Len(applied') = n + 1
        /\ DOMAIN applied = 1..n /\ DOMAIN applied' = 1..(n + 1)
        /\ \A i \in 1..n : applied'[i] = applied[i]
        /\ applied'[n + 1] = f
    BY <1>2, <1>3, <1>4, AppendProperties, LenProperties
  <1>7. DayFiles' = DayFiles /\ Opened' = Opened /\ Disjoint' = Disjoint
    BY <1>2 DEF DayFiles, Opened, Disjoint
  <1> HIDE DEF n
  <1>8. Yielded' = Yielded \cup {f}
    BY <1>2, <1>3, <1>4, YieldedGains
  <1>9. f \notin Yielded /\ \A i \in 1..n : applied[i] # f
    BY <1>4, <1>6 DEF YieldInv, RowsYielded, Yielded
  <1>10. RowsYielded'
    <2>1. Yielded' \cup left' = Opened' /\ Yielded' \cap left' = {}
      BY <1>1, <1>4, <1>7, <1>8 DEF YieldInv, RowsYielded
    <2>2. IsFiniteSet(Yielded') /\ Cardinality(Yielded') = n + 1
      <3>1. /\ IsFiniteSet(Yielded \cup {f})
            /\ Cardinality(Yielded \cup {f}) = Cardinality(Yielded) + 1
        BY <1>9, FS_AddElement DEF YieldInv, RowsYielded
      <3> QED
        BY <1>8, <3>1 DEF YieldInv, RowsYielded, n
    <2>3. \A i, j \in DOMAIN applied' : i # j => applied'[i] # applied'[j]
      <3> SUFFICES ASSUME NEW i \in 1..(n + 1), NEW j \in 1..(n + 1), i # j
                   PROVE  applied'[i] # applied'[j]
        BY <1>6
      <3>1. (i \in 1..n \/ i = n + 1) /\ (j \in 1..n \/ j = n + 1)
        BY <1>6
      <3>2. i \in 1..n /\ j \in 1..n => applied[i] # applied[j]
        BY <1>6 DEF YieldInv, RowsYielded
      <3> QED
        BY <1>6, <1>9, <3>1, <3>2
    <2> QED
      BY <1>2, <1>6, <1>7, <2>1, <2>2, <2>3 DEF YieldInv, RowsYielded
  <1>11. LimitKept'
    <2>1. ended' <=> maxFills # 0 /\ n + 1 >= maxFills
      BY <1>2, <1>6 DEF Enough
    <2>2. maxFills # 0 => n < maxFills
      BY <1>2 DEF YieldInv, LimitKept, n
    <2>3. (maxFills # 0 => n + 1 <= maxFills) /\ (ended' => maxFills # 0 /\ n + 1 = maxFills)
      BY <1>3, <1>6, <2>1, <2>2
    <2>4. maxFills # 0 /\ ~ended' => n + 1 < maxFills
      BY <1>3, <1>6, <2>1
    <2> QED
      BY <1>2, <1>6, <2>3, <2>4 DEF LimitKept
  <1>12. RowsInOrder'
    <2> SUFFICES ASSUME Disjoint
                 PROVE  /\ InOrder'
                        /\ \A g \in Yielded', h \in left' : g.ms <= h.ms
      BY <1>7 DEF RowsInOrder
    <2>1. InOrder /\ \A g \in Yielded, h \in left : g.ms <= h.ms
      BY DEF YieldInv, RowsInOrder
    <2>2. InOrder'
      <3> SUFFICES ASSUME NEW i \in 1..(n + 1), NEW j \in 1..(n + 1), i < j
                   PROVE  applied'[i].ms <= applied'[j].ms
        BY <1>6 DEF InOrder
      <3>1. i \in 1..n /\ (j \in 1..n \/ j = n + 1)
        BY <1>6
      <3>2. j \in 1..n => applied[i].ms <= applied[j].ms
        BY <1>6, <2>1, <3>1 DEF InOrder
      <3>3. applied[i].ms <= f.ms
        BY <1>4, <1>6, <2>1, <3>1 DEF Yielded
      <3> QED
        BY <1>6, <3>1, <3>2, <3>3
    <2> QED
      BY <1>1, <1>4, <1>8, <2>1, <2>2
  <1> QED
    BY <1>5, <1>6, <1>10, <1>11, <1>12 DEF YieldInv

LEMMA YieldInvStep ==
    ASSUME YieldInv, [ReplayNext]_replayVars
    PROVE  YieldInv'
  <1>1. CASE EndOfFiles
    <2>1. /\ UNCHANGED <<applied, files, limitDays, maxFills, day, left>>
          /\ left = {} /\ day = Len(DayFiles) /\ ended' = TRUE
      BY <1>1 DEF EndOfFiles, engineVars, arguments
    <2>2. DayFiles' = DayFiles /\ Yielded' = Yielded /\ Opened' = Opened
      BY <2>1 DEF DayFiles, Yielded, Opened
    <2>3. RowsInOrder' = RowsInOrder
      BY <2>1, <2>2 DEF RowsInOrder, Disjoint, InOrder
    <2>4. RowsYielded'
      BY <2>1, <2>2 DEF YieldInv, RowsYielded
    <2>5. LimitKept'
      BY <2>1, <2>2 DEF YieldInv, LimitKept
    <2> QED
      BY <2>1, <2>3, <2>4, <2>5 DEF YieldInv, ReplayTypes
  <1>2. CASE Finished \/ UNCHANGED replayVars
    <2>1. UNCHANGED <<applied, files, limitDays, maxFills, day, left, ended>>
      BY <1>2 DEF Finished, replayVars, engineVars, arguments
    <2> QED
      BY <2>1 DEF YieldInv, ReplayTypes, RowsYielded, LimitKept, RowsInOrder, DayFiles, Yielded,
                  Opened, Disjoint, InOrder
  <1> QED
    BY <1>1, <1>2, OpenDayYields, YieldYields DEF ReplayNext

LEMMA YieldInvariant == ReplaySpec => []YieldInv
  <1>1. ReplayInit => YieldInv
    BY YieldInvInit
  <1>2. YieldInv /\ [ReplayNext]_replayVars => YieldInv'
    BY YieldInvStep
  <1> QED
    BY <1>1, <1>2, PTL DEF ReplaySpec

LEMMA SelectedFinite ==
    ASSUME ReplayTypes
    PROVE  IsFiniteSet(Selected)
  <1> DEFINE some == {DayFiles[i] : i \in DOMAIN DayFiles}
             h == [i \in DOMAIN DayFiles |-> DayFiles[i]]
  <1>1. IsFiniteSet(DOMAIN DayFiles)
    BY DayFilesFacts, FS_Interval
  <1>2. h \in Surjection(DOMAIN DayFiles, some)
    BY DEF Surjection
  <1>3. IsFiniteSet(some)
    <2> HIDE DEF h, some
    <2> QED
      BY <1>1, <1>2, FS_Surjection
  <1>4. \A s \in some : IsFiniteSet(s)
    BY DayFilesFacts DEF ReplayTypes
  <1> HIDE DEF some
  <1>5. IsFiniteSet(UNION some)
    BY <1>3, <1>4, FS_UNION
  <1> QED
    BY <1>5 DEF Selected, some

LEMMA CompleteYields ==
    ASSUME YieldInv, ended
    PROVE  /\ Yielded \subseteq Selected
           /\ IF Complete THEN Yielded = Selected ELSE Len(applied) = maxFills
           /\ Disjoint => \A f \in Yielded, g \in Selected \ Yielded : f.ms <= g.ms
  <1>1. /\ ReplayTypes /\ RowsYielded /\ LimitKept /\ RowsInOrder
        /\ maxFills \in Nat /\ Len(applied) \in Nat
    BY LenProperties DEF YieldInv, ReplayTypes
  <1>2. /\ Len(DayFiles) \in Nat /\ DOMAIN DayFiles = 1..Len(DayFiles)
        /\ \A i \in 1..Len(DayFiles) : i \in DOMAIN files /\ DayFiles[i] = files[i]
    BY <1>1, DayFilesFacts
  <1>3. day \in Nat /\ 1..day \subseteq 1..Len(DayFiles)
    BY <1>1, <1>2 DEF RowsYielded
  <1>4. Opened \subseteq Selected /\ (day = Len(DayFiles) => Opened = Selected)
    BY <1>2, <1>3 DEF Opened, Selected
  <1>5. Yielded \subseteq Selected /\ (left = {} /\ day = Len(DayFiles) => Yielded = Selected)
    BY <1>1, <1>4 DEF RowsYielded
  <1>6. IsFiniteSet(Selected) /\ Cardinality(Selected) \in Nat
    BY <1>1, SelectedFinite, FS_CardinalityType
  <1>7. ASSUME Complete PROVE Yielded = Selected
    <2>1. CASE left = {} /\ day = Len(DayFiles)
      BY <1>5, <1>7, <2>1
    <2>2. CASE maxFills # 0 /\ Len(applied) = maxFills
      <3>1. Cardinality(Yielded) >= Cardinality(Selected)
        BY <1>1, <1>7, <2>2 DEF Complete, RowsYielded
      <3>2. /\ Cardinality(Yielded) <= Cardinality(Selected)
            /\ Cardinality(Yielded) = Cardinality(Selected) => Yielded = Selected
        BY <1>5, <1>6, FS_Subset
      <3>3. Yielded = Selected
        BY <1>1, <1>6, <3>1, <3>2 DEF RowsYielded
      <3> QED
        BY <1>7, <3>3
    <2> QED
      BY <1>1, <2>1, <2>2 DEF LimitKept
  <1>8. ASSUME ~Complete PROVE Len(applied) = maxFills
    <2>1. maxFills # 0 /\ maxFills < Cardinality(Selected)
      BY <1>1, <1>6, <1>8 DEF Complete
    <2>2. ASSUME Yielded = Selected PROVE FALSE
      BY <1>1, <1>6, <2>1, <2>2 DEF RowsYielded, LimitKept
    <2> QED
      BY <1>1, <1>5, <2>2 DEF LimitKept
  <1>9. ASSUME Disjoint, NEW f \in Yielded, NEW g \in Selected \ Yielded
        PROVE  f.ms <= g.ms
    <2>1. CASE g \in left
      BY <1>1, <1>9, <2>1 DEF RowsInOrder
    <2>2. CASE g \notin left
      <3>1. PICK j \in 1..Len(DayFiles) : g \in files[j]
        BY <1>2 DEF Selected
      <3>2. g \notin Opened
        BY <1>1, <2>2 DEF RowsYielded
      <3>3. j \notin 1..day
        BY <1>2, <3>1, <3>2 DEF Opened
      <3>4. f \in Opened
        BY <1>1 DEF RowsYielded
      <3>5. PICK i \in 1..day : f \in files[i]
        BY <1>2, <1>3, <3>4 DEF Opened
      <3>6. i < j /\ i \in DOMAIN files /\ j \in DOMAIN files
        BY <1>2, <1>3, <3>3
      <3>7. f.ms < g.ms
        BY <1>9, <3>1, <3>5, <3>6 DEF Disjoint
      <3>8. f \in Fills /\ g \in Fills
        BY <1>1, <3>1, <3>5, <3>6, ElementOfSeq DEF ReplayTypes
      <3>9. f.ms \in Nat /\ g.ms \in Nat
        BY <3>8, FillsAssumption
      <3> QED
        BY <3>7, <3>9
    <2> QED
      BY <2>1, <2>2
  <1> QED
    BY <1>5, <1>7, <1>8, <1>9

(* A replay yields exactly the rows it was asked for: all rows of the      *)
(* files --days selects, each once, or the --max-fills first of them, and  *)
(* of disjoint files in time order, however ties come out of the sort.     *)
THEOREM ReplayYieldsItsFiles == ReplaySpec => []WholeFilesReplayed
  <1>1. ASSUME YieldInv PROVE WholeFilesReplayed
    <2>1. Disjoint => InOrder
      BY <1>1 DEF YieldInv, RowsInOrder
    <2>2. Cardinality(Yielded) = Len(applied)
      BY <1>1 DEF YieldInv, RowsYielded
    <2> QED
      BY <1>1, <2>1, <2>2, CompleteYields DEF WholeFilesReplayed
  <1> QED
    BY <1>1, YieldInvariant, PTL

-----------------------------------------------------------------------------
(* Totals. The totals of a position, and the volume of a bucket, are sums  *)
(* over a set of rows, each yielded once: an order is nowhere in them.     *)
SizesOf(R) == [f \in R |-> SignedSz(f)]
PnlsOf(R) == [f \in R |-> f.pnl]
NotionalsOf(R) == [f \in R |-> Notional(f)]

SizesTotal(R) == SumOfRows(R, SignedSz)
PnlTotal(R) == SumOfRows(R, LAMBDA f : f.pnl)
NotionalTotal(R) == SumOfRows(R, Notional)

LEMMA RowFacts ==
    ASSUME NEW f \in Fills
    PROVE  /\ SignedSz(f) \in Int /\ f.pnl \in Int /\ Notional(f) \in Int
           /\ f.addr \in Addrs /\ f.coin \in Coins
  <1>1. f.sz \in Nat /\ f.buy \in BOOLEAN /\ f.pnl \in Int
    BY FillsAssumption
  <1> QED
    BY <1>1, FillFacts DEF SignedSz

LEMMA SizesFold ==
    ASSUME NEW R, IsFiniteSet(R), R \subseteq Fills
    PROVE  Terms(SizesOf(R)) /\ AddsUp(SizesOf(R), SizesTotal(R))
  <1> DEFINE f == SizesOf(R)
             IsFold(F) == F = [t \in SUBSET R |-> IF t = {} THEN 0
                                 ELSE SignedSz(Pick(t)) + F[t \ {Pick(t)}]]
             F0 == CHOOSE it : IsFold(it)
  <1>1. SizesTotal(R) = F0[R]
    BY DEF SizesTotal, SumOfRows, MapThenSumSet, MapThenFoldSet, Pick
  <1>2. \A t \in SUBSET R : t # {} => f[Pick(t)] = SignedSz(Pick(t))
    BY PickFacts DEF SizesOf
  <1>3. \A F : IsSumOver(F, f, SUBSET R) <=> IsFold(F)
    BY <1>2 DEF IsSumOver
  <1>4. \E F : IsFold(F)
    BY <1>3, SumExists
  <1>5. IsSumOver(F0, f, SUBSET R)
    <2> HIDE DEF IsFold
    <2> QED
      BY <1>3, <1>4
  <1>6. Terms(f) /\ DOMAIN f = R
    BY RowFacts DEF Terms, SizesOf
  <1> QED
    BY <1>1, <1>5, <1>6 DEF AddsUp

LEMMA PnlFold ==
    ASSUME NEW R, IsFiniteSet(R), R \subseteq Fills
    PROVE  Terms(PnlsOf(R)) /\ AddsUp(PnlsOf(R), PnlTotal(R))
  <1> DEFINE f == PnlsOf(R)
             IsFold(F) == F = [t \in SUBSET R |-> IF t = {} THEN 0
                                 ELSE Pick(t).pnl + F[t \ {Pick(t)}]]
             F0 == CHOOSE it : IsFold(it)
  <1>1. PnlTotal(R) = F0[R]
    BY DEF PnlTotal, SumOfRows, MapThenSumSet, MapThenFoldSet, Pick
  <1>2. \A t \in SUBSET R : t # {} => f[Pick(t)] = Pick(t).pnl
    BY PickFacts DEF PnlsOf
  <1>3. \A F : IsSumOver(F, f, SUBSET R) <=> IsFold(F)
    BY <1>2 DEF IsSumOver
  <1>4. \E F : IsFold(F)
    BY <1>3, SumExists
  <1>5. IsSumOver(F0, f, SUBSET R)
    <2> HIDE DEF IsFold
    <2> QED
      BY <1>3, <1>4
  <1>6. Terms(f) /\ DOMAIN f = R
    BY RowFacts DEF Terms, PnlsOf
  <1> QED
    BY <1>1, <1>5, <1>6 DEF AddsUp

LEMMA NotionalFold ==
    ASSUME NEW R, IsFiniteSet(R), R \subseteq Fills
    PROVE  Terms(NotionalsOf(R)) /\ AddsUp(NotionalsOf(R), NotionalTotal(R))
  <1> DEFINE f == NotionalsOf(R)
             IsFold(F) == F = [t \in SUBSET R |-> IF t = {} THEN 0
                                 ELSE Notional(Pick(t)) + F[t \ {Pick(t)}]]
             F0 == CHOOSE it : IsFold(it)
  <1>1. NotionalTotal(R) = F0[R]
    BY DEF NotionalTotal, SumOfRows, MapThenSumSet, MapThenFoldSet, Pick
  <1>2. \A t \in SUBSET R : t # {} => f[Pick(t)] = Notional(Pick(t))
    BY PickFacts DEF NotionalsOf
  <1>3. \A F : IsSumOver(F, f, SUBSET R) <=> IsFold(F)
    BY <1>2 DEF IsSumOver
  <1>4. \E F : IsFold(F)
    BY <1>3, SumExists
  <1>5. IsSumOver(F0, f, SUBSET R)
    <2> HIDE DEF IsFold
    <2> QED
      BY <1>3, <1>4
  <1>6. Terms(f) /\ DOMAIN f = R
    BY RowFacts DEF Terms, NotionalsOf
  <1> QED
    BY <1>1, <1>5, <1>6 DEF AddsUp

(* A sum over indices is the sum over what they index, if each is indexed  *)
(* once.                                                                   *)
Indexes(h, I, R) ==
    /\ R = {h[i] : i \in I}
    /\ \A i, j \in I : h[i] = h[j] => i = j

LEMMA SumReindexed ==
    ASSUME NEW f, Terms(f), NEW v, AddsUp(f, v),
           NEW g, Terms(g), NEW w, AddsUp(g, w),
           NEW h, Indexes(h, DOMAIN f, DOMAIN g), \A i \in DOMAIN f : f[i] = g[h[i]]
    PROVE  v = w
  <1> DEFINE S == DOMAIN f
             T == DOMAIN g
             img(s) == {h[i] : i \in s}
  <1>1. PICK F : IsSumOver(F, f, SUBSET S) /\ v = F[S]
    BY DEF AddsUp
  <1>2. PICK G : IsSumOver(G, g, SUBSET T) /\ w = G[T]
    BY DEF AddsUp
  <1>3. T = img(S) /\ \A i, j \in S : h[i] = h[j] => i = j
    BY DEF Indexes
  <1> DEFINE Bad == {s \in SUBSET S : F[s] # G[img(s)]}
  <1> SUFFICES ASSUME Bad # {} PROVE FALSE
    BY <1>1, <1>2, <1>3
  <1>4. PICK t \in Bad : \A u \in Bad : u \subseteq t => u = t
    <2>1. Bad \in SUBSET (SUBSET S) /\ IsFiniteSet(S)
      BY DEF Terms
    <2> HIDE DEF Bad, S
    <2> QED
      BY <2>1, MinimalSet
  <1>5. t \in SUBSET S /\ F[t] # G[img(t)]
    OBVIOUS
  <1>6. F[{}] = 0 /\ Unfolds(F, f, S) /\ G[{}] = 0 /\ TakesAny(G, g, T)
    BY <1>1, <1>2, SumUnfolds, SumTakes DEF Terms
  <1>7. t # {}
    <2> SUFFICES ASSUME t = {} PROVE F[t] = G[img(t)]
      BY <1>5
    <2>1. img(t) = {}
      OBVIOUS
    <2> HIDE DEF Bad, img
    <2> QED
      BY <1>6, <2>1
  <1> DEFINE p == Pick(t)
             u == t \ {p}
  <1>8. p \in t /\ F[t] = f[p] + F[u]
    BY <1>5, <1>6, <1>7 DEF Unfolds
  <1>9. F[u] = G[img(u)]
    <2>1. u \in SUBSET S /\ u # t /\ u \subseteq t
      BY <1>5, <1>8
    <2>2. u \notin Bad
      <3> HIDE DEF Bad, u
      <3> QED
        BY <1>4, <2>1
    <2> QED
      BY <2>1, <2>2
  <1>10. img(u) = img(t) \ {h[p]} /\ h[p] \in img(t) /\ img(t) \in SUBSET T
    BY <1>3, <1>5, <1>8
  <1> HIDE DEF Bad, img, p, u
  <1>11. G[img(t)] = g[h[p]] + G[img(t) \ {h[p]}]
    BY <1>6, <1>10 DEF TakesAny
  <1>12. f[p] = g[h[p]]
    BY <1>5, <1>8
  <1> QED
    BY <1>5, <1>8, <1>9, <1>10, <1>11, <1>12

RowsOfKey(k) == {f \in Yielded : f.addr = k[1] /\ f.coin = k[2]}

IsTotalOf(p, R) ==
    /\ AddsUp(SizesOf(R), p.net_pos)
    /\ AddsUp(PnlsOf(R), p.realized_pnl)
    /\ p.fill_count = Cardinality(R)

TotalsInv ==
    \A k \in Addrs \X Coins :
        /\ k \in DOMAIN wc <=> RowsOfKey(k) # {}
        /\ IsTotalOf(GetOr(wc, k, NewPosition), RowsOfKey(k))

LEMMA TotalsInit ==
    ASSUME ReplayInit
    PROVE  TotalsInv
  <1>1. DOMAIN wc = {} /\ Yielded = {}
    BY ReplayStarts DEF EngineInit, PositionsInit, Yielded
  <1>2. \A k : RowsOfKey(k) = {} /\ GetOr(wc, k, NewPosition) = NewPosition
    BY <1>1 DEF RowsOfKey, GetOr
  <1>3. IsTotalOf(NewPosition, {})
    <2>1. DOMAIN SizesOf({}) = {} /\ DOMAIN PnlsOf({}) = {}
      BY DEF SizesOf, PnlsOf
    <2>2. NewPosition.net_pos = 0 /\ NewPosition.realized_pnl = 0 /\ NewPosition.fill_count = 0
      BY DEF NewPosition
    <2> QED
      BY <2>1, <2>2, SumOfNoTerms, FS_EmptySet DEF IsTotalOf
  <1> QED
    BY <1>1, <1>2, <1>3 DEF TotalsInv

LEMMA TotalGains ==
    ASSUME NEW R, IsFiniteSet(R), R \subseteq Fills, NEW f \in Fills, f \notin R,
           NEW p, IsTotalOf(p, R)
    PROVE  IsTotalOf(PositionAfter(p, f), R \cup {f})
  <1> DEFINE R2 == R \cup {f}
             p2 == PositionAfter(p, f)
  <1>1. R2 \subseteq Fills /\ IsFiniteSet(R2) /\ Cardinality(R2) = Cardinality(R) + 1
    BY FS_AddElement
  <1>2. /\ p2.net_pos = p.net_pos + SignedSz(f) /\ p2.realized_pnl = p.realized_pnl + f.pnl
        /\ p2.fill_count = p.fill_count + 1
    BY DEF PositionAfter
  <1>3. /\ Terms(SizesOf(R)) /\ Terms(SizesOf(R2)) /\ Terms(PnlsOf(R)) /\ Terms(PnlsOf(R2))
    <2> HIDE DEF R2
    <2> QED
      BY <1>1, SizesFold, PnlFold
  <1>4. /\ Becomes(SizesOf(R), SizesOf(R2), f) /\ Becomes(PnlsOf(R), PnlsOf(R2), f)
        /\ SizesOf(R2)[f] = SignedSz(f) /\ PnlsOf(R2)[f] = f.pnl
        /\ f \notin DOMAIN SizesOf(R) /\ f \notin DOMAIN PnlsOf(R)
    BY DEF Becomes, SizesOf, PnlsOf
  <1>5. p.net_pos \in Int /\ p.realized_pnl \in Int
    BY <1>3, SumIsIntegral DEF IsTotalOf
  <1>6. SignedSz(f) \in Int /\ f.pnl \in Int
    BY RowFacts
  <1> HIDE DEF R2, p2
  <1>7. AddsUp(SizesOf(R2), p.net_pos + SignedSz(f) - 0)
    <2>1. AddsUp(SizesOf(R2), p.net_pos + SizesOf(R2)[f]
             - (IF f \in DOMAIN SizesOf(R) THEN SizesOf(R)[f] ELSE 0))
      BY <1>3, <1>4, SumFollows DEF IsTotalOf
    <2> QED
      BY <1>4, <2>1
  <1>8. AddsUp(PnlsOf(R2), p.realized_pnl + f.pnl - 0)
    <2>1. AddsUp(PnlsOf(R2), p.realized_pnl + PnlsOf(R2)[f]
             - (IF f \in DOMAIN PnlsOf(R) THEN PnlsOf(R)[f] ELSE 0))
      BY <1>3, <1>4, SumFollows DEF IsTotalOf
    <2> QED
      BY <1>4, <2>1
  <1>9. /\ p.net_pos + SignedSz(f) - 0 = p.net_pos + SignedSz(f)
        /\ p.realized_pnl + f.pnl - 0 = p.realized_pnl + f.pnl
    BY <1>5, <1>6
  <1>10. AddsUp(SizesOf(R2), p2.net_pos) /\ AddsUp(PnlsOf(R2), p2.realized_pnl)
    BY <1>2, <1>7, <1>8, <1>9
  <1>11. p2.fill_count = Cardinality(R2)
    BY <1>1, <1>2 DEF IsTotalOf
  <1> QED
    BY <1>10, <1>11 DEF IsTotalOf, R2, p2

LEMMA TotalsStep ==
    ASSUME YieldInv, TotalsInv, [ReplayNext]_replayVars
    PROVE  TotalsInv'
  <1>1. CASE Yield
    <2>1. PICK f \in NextRows : Apply(f)
      BY <1>1 DEF Yield
    <2>2. f \in Fills /\ f \notin Yielded /\ applied' = Append(applied, f)
      BY <2>1 DEF NextRows, YieldInv, ReplayTypes, RowsYielded, Apply, Arrive
    <2>3. Yielded' = Yielded \cup {f}
      BY <2>2, YieldedGains DEF YieldInv
    <2> DEFINE key == <<f.addr, f.coin>>
    <2>4. /\ DOMAIN wc' = DOMAIN wc \cup {key}
          /\ wc'[key] = PositionAfter(GetOr(wc, key, NewPosition), f)
          /\ \A k \in DOMAIN wc \ {key} : wc'[k] = wc[k]
      BY <2>1 DEF Apply, UpdatePosition, Put
    <2> SUFFICES ASSUME NEW k \in Addrs \X Coins
                 PROVE  /\ k \in DOMAIN wc' <=> RowsOfKey(k)' # {}
                        /\ IsTotalOf(GetOr(wc', k, NewPosition), RowsOfKey(k)')
      BY DEF TotalsInv, IsTotalOf
    <2>5. /\ k \in DOMAIN wc <=> RowsOfKey(k) # {}
          /\ IsTotalOf(GetOr(wc, k, NewPosition), RowsOfKey(k))
      BY DEF TotalsInv
    <2>6. CASE k = key
      <3>1. RowsOfKey(k)' = RowsOfKey(k) \cup {f}
        BY <2>3, <2>6 DEF RowsOfKey
      <3>2. f \notin RowsOfKey(k) /\ IsFiniteSet(RowsOfKey(k)) /\ RowsOfKey(k) \subseteq Fills
        <4>1. Yielded \subseteq Fills /\ IsFiniteSet(Yielded)
          BY ArrivalFacts DEF YieldInv, RowsYielded, Yielded
        <4> QED
          BY <2>2, <4>1, FS_Subset DEF RowsOfKey
      <3>3. GetOr(wc', k, NewPosition) = PositionAfter(GetOr(wc, k, NewPosition), f)
        BY <2>4, <2>6 DEF GetOr
      <3>4. IsTotalOf(PositionAfter(GetOr(wc, k, NewPosition), f), RowsOfKey(k) \cup {f})
        BY <2>2, <2>5, <3>2, TotalGains
      <3> QED
        BY <2>4, <2>6, <3>1, <3>3, <3>4
    <2>7. CASE k # key
      <3>1. RowsOfKey(k)' = RowsOfKey(k)
        <4>1. ~(f.addr = k[1] /\ f.coin = k[2])
          BY <2>7
        <4> QED
          BY <2>3, <4>1 DEF RowsOfKey
      <3>2. GetOr(wc', k, NewPosition) = GetOr(wc, k, NewPosition)
        BY <2>4, <2>7 DEF GetOr
      <3> QED
        BY <2>4, <2>5, <2>7, <3>1, <3>2
    <2> QED
      BY <2>6, <2>7
  <1>2. CASE ~Yield
    <2>1. applied' = applied /\ wc' = wc
      BY <1>2 DEF ReplayNext, OpenDay, EndOfFiles, Finished, replayVars, engineVars, positionVars
    <2> QED
      BY <2>1 DEF TotalsInv, RowsOfKey, Yielded, IsTotalOf
  <1> QED
    BY <1>1, <1>2

ReplayInv == ReplayTypes /\ WindowsHold /\ PositionsInv /\ ConservedInv /\ SaneInv

LEMMA ReplayInvariant == ReplaySpec => []ReplayInv
  <1>1. ReplayInit => ReplayInv
    <2> SUFFICES ASSUME ReplayInit PROVE ReplayInv
      OBVIOUS
    <2>1. ReplayTypes /\ EngineInit /\ Init /\ PositionsInit
      BY ReplayStarts DEF EngineInit, Init
    <2>2. SaneInv
      BY <2>1 DEF Init, WindowsInit, SaneInv
    <2> QED
      BY <2>1, <2>2, WindowsHoldInit, PositionsInvInit, ConservedInit DEF ReplayInv
  <1>2. ReplayInv /\ [ReplayNext]_replayVars => ReplayInv'
    <2> SUFFICES ASSUME ReplayInv, [ReplayNext]_replayVars PROVE ReplayInv'
      OBVIOUS
    <2>1. ReplayTypes /\ WindowsHold /\ PositionsInv /\ ConservedInv /\ SaneInv
      BY DEF ReplayInv
    <2>2. ReplayTypes'
      BY <2>1, ReplaySteps
    <2>3. CASE UNCHANGED engineVars
      <3>1. UNCHANGED windowsVars /\ UNCHANGED positionVars
        BY <2>3 DEF engineVars, windowsVars
      <3>2. WindowsHold' /\ PositionsInv' /\ ConservedInv'
        BY <2>1, <2>3, <3>1, WindowsHoldStutter, PositionsInvStutter, ConservedStutter
      <3>3. SaneInv'
        BY <2>1, <2>3 DEF SaneInv, BucketSane, engineVars, windowVars
      <3> QED
        BY <2>2, <3>2, <3>3 DEF ReplayInv
    <2>4. ASSUME NEW f \in Fills, Apply(f) PROVE ReplayInv'
      <3>1. PICK weight : UpdateWindows(f, weight)
        BY <2>4 DEF Apply
      <3>2. applied' = Append(applied, f) /\ UpdatePosition(f) /\ UpdateWallet(f)
        BY <2>4 DEF Apply, Arrive
      <3>3. WindowsHold' /\ PositionsInv'
        BY <2>1, <3>1, <3>2, WindowsHoldStep, PositionsInvStep
      <3>4. ConservedInv'
        BY <2>1, <2>4, ConservedStep
      <3>5. SaneInv'
        BY <2>1, <3>1, SaneStep DEF WindowsHold, WindowsInv
      <3> QED
        BY <2>2, <3>3, <3>4, <3>5 DEF ReplayInv
    <2> QED
      BY <2>1, <2>3, <2>4, ReplaySteps
  <1> QED
    BY <1>1, <1>2, PTL DEF ReplaySpec

(* What the windows promise holds of every replay, with the weights the    *)
(* engine gives them: rows that are exact and complete, closed once, and   *)
(* windows that nest and only advance.                                     *)
THEOREM ReplayKeepsWindows ==
    ReplaySpec => /\ [](WindowsNested /\ ClosedOnce /\ OpenBucketsExact /\ OrderedLosesNothing)
                  /\ BucketsAdvance
  <1>1. ReplayInv => WindowsNested /\ ClosedOnce /\ OpenBucketsExact /\ OrderedLosesNothing
    BY NestedHolds, ExactHolds, OrderedHolds, OthersHold DEF ReplayInv
  <1>2. ASSUME ReplayInv, [ReplayNext]_replayVars
        PROVE  [\A k \in Keys : BucketAdvances(k)]_windowsVars
    <2>1. ReplayTypes /\ WindowsTypeOK
      BY <1>2 DEF ReplayInv, WindowsHold, WindowsInv
    <2>2. ASSUME NEW f \in Fills, Apply(f) PROVE \A k \in Keys : BucketAdvances(k)
      <3>1. PICK weight : UpdateWindows(f, weight)
        BY <2>2 DEF Apply
      <3> QED
        BY <2>1, <3>1, UpdateAdvances
    <2>3. UNCHANGED engineVars => UNCHANGED windowsVars
      BY DEF engineVars, windowsVars
    <2> QED
      BY <1>2, <2>1, <2>2, <2>3, ReplaySteps
  <1> QED
    BY <1>1, <1>2, ReplayInvariant, PTL DEF ReplaySpec, BucketsAdvance

(* After any fills a wallet is the sum of its positions: update() of the   *)
(* one and of the other have counted the same fills.                       *)
THEOREM WalletsAreSums == ReplaySpec => [](PositionsTypeOK /\ GroupsAgree)
  <1>1. ReplayInv => PositionsTypeOK /\ GroupsAgree
    BY PositionsAgree DEF ReplayInv, PositionsInv
  <1> QED
    BY <1>1, ReplayInvariant, PTL

(* Of a stream in time order the buckets of each window, closed and open,  *)
(* hold together exactly what the wallets traded.                          *)
THEOREM VolumeIsConserved == ReplaySpec => []VolumeConserved
  <1>1. ReplayInv => VolumeConserved
    BY VolumesAgree DEF ReplayInv
  <1> QED
    BY <1>1, ReplayInvariant, PTL

(* Whatever fills came, the row of an open bucket is sane: an imbalance in *)
(* [-1, 1], a concentration no less than even and no more than one, and    *)
(* large and smart flows within the net flows.                             *)
THEOREM RowsStaySane == ReplaySpec => []SnapshotsSane
  <1>1. ReplayInv => SnapshotsSane
    BY RowsAreSane DEF ReplayInv, WindowsHold, WindowsInv
  <1> QED
    BY <1>1, ReplayInvariant, PTL

(* Whatever fills came, the rows of a coin score within the range, an      *)
(* unusual accumulation takes a purchase in the open minute, and the       *)
(* reader calls LONG or SHORT only after a trade on that side of a wallet  *)
(* with weight.                                                            *)
THEOREM ScoresMeanWhatTheySay == ReplaySpec => []ScoresSane
  <1>1. ASSUME ReplayInv PROVE ScoresSane
    <2> SUFFICES ASSUME NEW c \in {k[1] : k \in DOMAIN open}
                 PROVE  LET row(w) == {OpenSnapshots[<<c, w>>]}
                            score == Score(row("1m"), row("1h"))
                            smart == SmartNorm(row("5m"))
                            fills(w) == {applied[i] :
                                            i \in InBucket(<<c, w>>, open[<<c, w>>].bucket_ts)}
                            weighted(buy) == {f \in fills("5m") :
                                                 f.buy = buy /\ WalletWeight(wallets, f.addr) > 0}
                        IN  /\ score \in 0..1000
                            /\ smart = SmartFlow(row("5m"))
                            /\ Volume(row("1m")) <= Volume(row("1h"))
                            /\ Label(score) = "unusual-accumulation" => \E f \in fills("1m") : f.buy
                            /\ Signal(score, smart) = "LONG" => weighted(TRUE) # {}
                            /\ Signal(score, smart) = "SHORT" => weighted(FALSE) # {}
      BY DEF ScoresSane
    <2> DEFINE score == Score({OpenSnapshots[<<c, "1m">>]}, {OpenSnapshots[<<c, "1h">>]})
               smart == SmartNorm({OpenSnapshots[<<c, "5m">>]})
    <2>1. /\ score \in 0..1000 /\ smart \in Int
          /\ smart = SmartFlow({OpenSnapshots[<<c, "5m">>]})
          /\ Volume({OpenSnapshots[<<c, "1m">>]}) <= Volume({OpenSnapshots[<<c, "1h">>]})
          /\ score >= 600 => \E f \in FillsIn(<<c, "1m">>) : f.buy
          /\ smart > 0 => WeightedIn(<<c, "5m">>, TRUE) # {}
          /\ smart < 0 => WeightedIn(<<c, "5m">>, FALSE) # {}
      <3>1. PICK k \in DOMAIN open : c = k[1]
        OBVIOUS
      <3>2. ScoresOf(c)
        BY <1>1, <3>1, ScoresHold DEF ReplayInv
      <3> QED
        BY <3>2 DEF ScoresOf
    <2> HIDE DEF score, smart
    <2>2. Label(score) = "unusual-accumulation" => score >= 600
      BY <2>1 DEF Label
    <2>3. Signal(score, smart) = "LONG" => smart > 0
      BY <2>1 DEF Signal
    <2>4. Signal(score, smart) = "SHORT" => smart < 0
      BY <2>1 DEF Signal
    <2> QED
      BY <2>1, <2>2, <2>3, <2>4 DEF score, smart, FillsIn, WeightedIn
  <1> QED
    BY <1>1, ReplayInvariant, PTL

LEMMA TotalsInvariant == ReplaySpec => [](YieldInv /\ TotalsInv)
  <1>1. ReplayInit => TotalsInv
    BY TotalsInit
  <1>2. YieldInv /\ TotalsInv /\ [ReplayNext]_replayVars => TotalsInv'
    BY TotalsStep
  <1> QED
    BY <1>1, <1>2, YieldInvariant, PTL DEF ReplaySpec

(* Each row is one arrival, so a sum over the arrivals in an interval is   *)
(* the sum over the rows in it.                                            *)
RowsIn(k, ts) == {f \in Yielded : /\ f.coin = k[1]
                                  /\ ts * 1000 <= f.ms
                                  /\ f.ms < (ts + Size(k[2])) * 1000}

LEMMA VolumeOfRows ==
    ASSUME YieldInv, NEW k, NEW ts
    PROVE  NotionalIn(applied, InBucket(k, ts)) = NotionalTotal(RowsIn(k, ts))
  <1> DEFINE I == InBucket(k, ts)
             R == RowsIn(k, ts)
             f == Notionals(applied, I)
             g == NotionalsOf(R)
  <1>1. applied \in Seq(Fills) /\ IsFiniteSet(Yielded)
        /\ \A i, j \in DOMAIN applied : i # j => applied[i] # applied[j]
    BY DEF YieldInv, RowsYielded
  <1>2. I \in SUBSET DOMAIN applied
    BY DEF InBucket, ArrivalsOn
  <1>3. R = {applied[i] : i \in I}
    BY DEF RowsIn, Yielded, InBucket, ArrivalsOn
  <1>4. R \subseteq Fills /\ IsFiniteSet(R)
    <2>1. Yielded \subseteq Fills
      BY <1>1, ArrivalFacts DEF Yielded
    <2> QED
      BY <1>1, <2>1, FS_Subset DEF RowsIn
  <1>5. DOMAIN f = I /\ DOMAIN g = R
    BY DEF Notionals, NotionalsOf
  <1>6. \A i \in DOMAIN f : f[i] = g[applied[i]]
    BY <1>3 DEF Notionals, NotionalsOf
  <1> HIDE DEF I, R
  <1>7. Terms(f) /\ AddsUp(f, NotionalIn(applied, I))
    BY <1>1, <1>2, SumsIn
  <1>8. Terms(g) /\ AddsUp(g, NotionalTotal(R))
    BY <1>4, NotionalFold
  <1>9. Indexes(applied, I, R)
    BY <1>1, <1>2, <1>3 DEF Indexes
  <1> HIDE DEF f, g
  <1>10. NotionalIn(applied, I) = NotionalTotal(R)
    BY <1>5, <1>6, <1>7, <1>8, <1>9, SumReindexed
  <1> QED
    BY <1>10 DEF I, R

LEMMA TotalsHold ==
    ASSUME WindowsHold, YieldInv, TotalsInv
    PROVE  TotalsIndependentOfTies
  <1> SUFFICES ASSUME Complete PROVE TotalsIndependentOfTies
    BY DEF TotalsIndependentOfTies
  <1>1. Yielded = Selected
    BY CompleteYields DEF Complete
  <1>2. applied \in Seq(Fills) /\ IsFiniteSet(Yielded) /\ Yielded \subseteq Fills
    BY ArrivalFacts DEF YieldInv, RowsYielded, Yielded
  <1>3. ASSUME NEW k \in Addrs \X Coins,
               {f \in Selected : f.addr = k[1] /\ f.coin = k[2]} # {}
        PROVE  LET rows == {f \in Selected : f.addr = k[1] /\ f.coin = k[2]}
               IN  /\ wc[k].net_pos = SumOfRows(rows, SignedSz)
                   /\ wc[k].realized_pnl = SumOfRows(rows, LAMBDA f : f.pnl)
                   /\ wc[k].fill_count = Cardinality(rows)
    <2> DEFINE rows == RowsOfKey(k)
    <2>1. rows = {f \in Selected : f.addr = k[1] /\ f.coin = k[2]}
      BY <1>1 DEF RowsOfKey
    <2>2. rows \subseteq Fills /\ IsFiniteSet(rows)
      BY <1>2, FS_Subset DEF RowsOfKey
    <2>3. IsTotalOf(wc[k], rows)
      BY <1>3, <2>1 DEF TotalsInv, GetOr
    <2> HIDE DEF rows
    <2>4. /\ Terms(SizesOf(rows)) /\ AddsUp(SizesOf(rows), SizesTotal(rows))
          /\ Terms(PnlsOf(rows)) /\ AddsUp(PnlsOf(rows), PnlTotal(rows))
      BY <2>2, SizesFold, PnlFold
    <2>5. wc[k].net_pos = SizesTotal(rows) /\ wc[k].realized_pnl = PnlTotal(rows)
      BY <2>3, <2>4, SumIsUnique DEF IsTotalOf
    <2> QED
      BY <2>1, <2>3, <2>5 DEF SizesTotal, PnlTotal, IsTotalOf
  <1>4. ASSUME Disjoint, NEW k \in DOMAIN open,
               NEW b \in {open[k]} \cup {closed[k][i] : i \in DOMAIN closed[k]}
        PROVE  LET rows == {f \in Selected : f.coin = k[1]
                              /\ b.bucket_ts * 1000 <= f.ms
                              /\ f.ms < (b.bucket_ts + Size(k[2])) * 1000}
               IN  b.volume = SumOfRows(rows, Notional)
    <2> DEFINE ts == b.bucket_ts
    <2>1. InOrder
      BY <1>4 DEF YieldInv, RowsInOrder
    <2>2. k \in Keys /\ NothingLost(k)
      BY <2>1 DEF WindowsHold, WindowsInv, WindowsTypeOK, OrderedInv
    <2>3. b.volume = NotionalIn(applied, InBucket(k, ts))
      <3>1. CASE b = open[k]
        <4>1. PICK c \in Coins, w \in Windows : k = <<c, w>>
          BY <2>2 DEF Keys
        <4>2. PICK t \in Nat : ts = Floor(t, w)
          BY <3>1, <4>1 DEF WindowsHold, WindowsInv, CoinInv, FloorsOf, Bucket
        <4>3. InBucket(k, ts) = Held(applied, k, ts)
          BY <1>2, <2>2, <4>1, <4>2, HeldIsInBucket
        <4>4. b = BucketIn(applied, ts, Held(applied, k, ts))
          BY <2>2, <3>1 DEF WindowsHold, ExactInv, HoldsAll
        <4>5. BucketIn(applied, ts, Held(applied, k, ts)).volume
                = NotionalIn(applied, Held(applied, k, ts))
          BY DEF BucketIn
        <4> HIDE DEF ts
        <4> QED
          BY <4>3, <4>4, <4>5
      <3>2. CASE b \in {closed[k][i] : i \in DOMAIN closed[k]}
        <4>1. RowExact(k, b)
          BY <2>2, <3>2 DEF NothingLost, RowsOf
        <4>2. InBucket(k, ts) = Held(applied, k, ts)
          BY <1>2, <2>2, <4>1, HeldIsInBucket DEF RowExact
        <4>3. [b EXCEPT !.smart_flow = 0]
                = Snapshot(BucketIn(applied, ts, Held(applied, k, ts)), NoWeights)
          BY <4>1 DEF RowExact
        <4>4. [b EXCEPT !.smart_flow = 0].volume = b.volume
          BY <4>1 DEF RowExact
        <4>5. Snapshot(BucketIn(applied, ts, Held(applied, k, ts)), NoWeights).volume
                = NotionalIn(applied, Held(applied, k, ts))
          BY DEF Snapshot, BucketIn
        <4> QED
          BY <4>2, <4>3, <4>4, <4>5
      <3> QED
        BY <3>1, <3>2
    <2>4. b.volume = NotionalTotal(RowsIn(k, ts))
      BY <2>3, VolumeOfRows
    <2> QED
      BY <1>1, <2>4 DEF NotionalTotal, RowsIn
  <1> QED
    BY <1>3, <1>4 DEF TotalsIndependentOfTies

(* Two complete replays of the same files leave the same totals, however   *)
(* ties come out of the sort: they are sums over the set of rows.          *)
THEOREM TiesDoNotMatter == ReplaySpec => []TotalsIndependentOfTies
  BY TotalsHold, ReplayInvariant, TotalsInvariant, PTL DEF ReplayInv

-----------------------------------------------------------------------------
(* The entry of a position nothing was traded in yet, too, fits: there is  *)
(* no leg.                                                                 *)
EntryInv == \A k \in Addrs \X Coins : EntryFits(applied, k, GetOr(wc, k, NewPosition))

LEMMA EntryInvInit ==
    ASSUME ReplayInit
    PROVE  EntryInv
  <1>1. applied = <<>> /\ wc = <<>>
    BY ReplayStarts DEF EngineInit, PositionsInit
  <1>2. \A k : KeyArrivals(applied, k) = {} /\ GetOr(wc, k, NewPosition) = NewPosition
    BY <1>1 DEF KeyArrivals, GetOr
  <1>3. SizeIn(<<>>, {}) = 0
    <2>1. <<>> \in Seq(Fills)
      BY EmptySeq
    <2>2. AddsUp(SizesAt(<<>>, {}), SizeIn(<<>>, {}))
      BY <2>1, SizeFold
    <2>3. DOMAIN SizesAt(<<>>, {}) = {}
      BY DEF SizesAt
    <2> QED
      BY <2>2, <2>3, SumOfNothing
  <1>4. NewPosition.net_pos = 0 /\ NewPosition.avg_entry = <<0, 1>>
    BY DEF NewPosition
  <1>5. <<0, 1>> \in Nat \X (Nat \ {0})
    OBVIOUS
  <1>6. \A k : EntryFits(<<>>, k, NewPosition)
    <2> TAKE k
    <2>1. KeyArrivals(<<>>, k) = {}
      BY <1>1, <1>2
    <2> DEFINE p == NewPosition
    <2>2. p.net_pos = 0 /\ p.avg_entry \in Nat \X (Nat \ {0})
      BY <1>4, <1>5
    <2> HIDE DEF p
    <2>3. p.net_pos = SizeIn(<<>>, KeyArrivals(<<>>, k))
      BY <1>3, <2>1, <2>2
    <2>4. EntryFits(<<>>, k, p)
      BY <2>2, <2>3 DEF EntryFits
    <2> QED
      BY <2>4 DEF p
  <1> QED
    BY <1>1, <1>2, <1>6, Zenon DEF EntryInv

LEMMA EntryInvStep ==
    ASSUME YieldInv, EntryInv, [ReplayNext]_replayVars
    PROVE  EntryInv'
  <1>1. CASE Yield
    <2>1. PICK f \in NextRows : Apply(f)
      BY <1>1 DEF Yield
    <2>2. f \in Fills /\ applied' = Append(applied, f) /\ applied \in Seq(Fills)
      BY <2>1 DEF NextRows, YieldInv, ReplayTypes, Apply, Arrive
    <2> DEFINE key == <<f.addr, f.coin>>
    <2>3. /\ DOMAIN wc' = DOMAIN wc \cup {key}
          /\ wc'[key] = PositionAfter(GetOr(wc, key, NewPosition), f)
          /\ \A k \in DOMAIN wc \ {key} : wc'[k] = wc[k]
      BY <2>1 DEF Apply, UpdatePosition, Put
    <2> SUFFICES ASSUME NEW k \in Addrs \X Coins
                 PROVE  EntryFits(applied', k, GetOr(wc', k, NewPosition))
      BY DEF EntryInv
    <2>4. EntryFits(applied, k, GetOr(wc, k, NewPosition))
      BY DEF EntryInv
    <2>5. CASE k = key
      <3>1. GetOr(wc', k, NewPosition) = PositionAfter(GetOr(wc, k, NewPosition), f)
        BY <2>3, <2>5 DEF GetOr
      <3>2. f.addr = k[1] /\ f.coin = k[2]
        BY <2>5
      <3>3. EntryFits(Append(applied, f), k, PositionAfter(GetOr(wc, k, NewPosition), f))
        BY <2>2, <2>4, <3>2, EntryMoves
      <3> QED
        BY <2>2, <3>1, <3>3
    <2>6. CASE k # key
      <3>1. ~(f.addr = k[1] /\ f.coin = k[2])
        BY <2>6
      <3>2. GetOr(wc', k, NewPosition) = GetOr(wc, k, NewPosition)
        BY <2>3, <2>6 DEF GetOr
      <3>3. EntryFits(Append(applied, f), k, GetOr(wc, k, NewPosition))
        BY <2>2, <2>4, <3>1, EntryStays
      <3> QED
        BY <2>2, <3>2, <3>3
    <2> QED
      BY <2>5, <2>6
  <1>2. CASE ~Yield
    <2>1. applied' = applied /\ wc' = wc
      BY <1>2 DEF ReplayNext, OpenDay, EndOfFiles, Finished, replayVars, engineVars, positionVars
    <2> QED
      BY <2>1 DEF EntryInv
  <1> QED
    BY <1>1, <1>2

(* Whatever fills come, the average entry of an open position lies between *)
(* the prices at which its own leg was opened and added to, and is their   *)
(* volume-weighted price while the leg has only grown.                     *)
THEOREM EntriesAreOfTheirLeg == ReplaySpec => []EntryIsOfItsLeg
  <1>1. ReplayInit => EntryInv
    BY EntryInvInit
  <1>2. YieldInv /\ EntryInv /\ [ReplayNext]_replayVars => EntryInv'
    BY EntryInvStep
  <1>3. ReplayInv /\ YieldInv /\ EntryInv => EntryIsOfItsLeg
    <2> SUFFICES ASSUME ReplayInv, YieldInv, EntryInv, NEW k \in DOMAIN wc, wc[k].net_pos # 0
                 PROVE  LET num == wc[k].avg_entry[1]
                            den == wc[k].avg_entry[2]
                            prices == {applied[i].px : i \in Opening(k)}
                            first == LegStart(k)
                            cost == AbsVal(PosAfter(k, first)) * applied[first].px
                                      + Total(Notional, Leg(k) \ {first})
                        IN  /\ Min(prices) * den <= num
                            /\ num <= Max(prices) * den
                            /\ Opening(k) = Leg(k) => num * AbsVal(wc[k].net_pos) = den * cost
      BY DEF EntryIsOfItsLeg
    <2>1. k \in Addrs \X Coins
      BY DEF ReplayInv, PositionsInv, PositionsTypeOK
    <2>2. EntryFits(applied, k, wc[k]) /\ applied \in Seq(Fills)
      BY <2>1 DEF EntryInv, GetOr, YieldInv
    <2> QED
      BY <2>2, EntryFitsMeans
  <1> QED
    BY <1>1, <1>2, <1>3, YieldInvariant, ReplayInvariant, PTL DEF ReplaySpec
=============================================================================
