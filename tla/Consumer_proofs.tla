--------------------------- MODULE Consumer_proofs ---------------------------
(***************************************************************************)
(* Theorems about the tables the ingestion job writes, for any stream of   *)
(* fills, number of writes in flight, of failures and of crashes. The      *)
(* argument: within a run a row's writes carry versions that grow with     *)
(* their timestamps, so the store, which keeps the newest timestamp, keeps *)
(* the newest value, in whatever order the writes reach it; and a value    *)
(* that is due is always on its way, failed, or in the table.              *)
(***************************************************************************)
EXTENDS Consumer, FiniteSetTheorems, SequenceTheorems, WellFoundedInduction, TLAPS

-----------------------------------------------------------------------------
(* Naturals.                                                               *)
LEMMA LeastNatural ==
    ASSUME NEW S \in SUBSET Nat, S # {}
    PROVE  \E s \in S : \A x \in S : s <= x
  <1> DEFINE T == {0..x : x \in S}
  <1>1. T \in SUBSET FiniteSubsetsOf(Nat) /\ T # {}
    <2>1. \A x \in S : IsFiniteSet(0..x) /\ 0..x \in SUBSET Nat
      BY FS_Interval
    <2> QED
      BY <2>1 DEF FiniteSubsetsOf
  <1>2. IsWellFoundedOn(StrictSubsetOrdering(Nat), FiniteSubsetsOf(Nat))
    BY FS_StrictSubsetOrderingWellFounded
  <1>3. PICK t \in T : \A u \in T : ~(<<u, t>> \in StrictSubsetOrdering(Nat))
    <2> HIDE DEF T
    <2> QED
      BY <1>1, <1>2, WFMin
  <1>4. PICK s \in S : t = 0..s
    BY <1>3
  <1>5. ASSUME NEW y \in S, y < s PROVE FALSE
    <2>1. 0..y \in SUBSET Nat /\ 0..s \in SUBSET Nat /\ 0..y \subseteq 0..s
      BY <1>5
    <2>2. s \in 0..s /\ s \notin 0..y
      BY <1>5
    <2>3. 0..y # 0..s
      BY <2>2
    <2>4. <<0..y, 0..s>> \in StrictSubsetOrdering(Nat)
      BY <2>1, <2>3, Zenon DEF StrictSubsetOrdering
    <2> QED
      BY <1>3, <1>4, <2>4
  <1> QED
    BY <1>5

LEMMA GreatestUpTo ==
    ASSUME NEW b \in Nat, NEW S \in SUBSET (0..b), S # {}
    PROVE  \E s \in S : \A x \in S : s >= x
  <1> DEFINE D == {b - x : x \in S}
  <1>0. \A x \in S : x \in Int /\ b - x \in Nat
    OBVIOUS
  <1>1. D \in SUBSET Nat /\ D # {}
    BY <1>0
  <1>2. PICK d \in D : \A e \in D : d <= e
    <2> HIDE DEF D
    <2> QED
      BY <1>1, LeastNatural
  <1>3. PICK s \in S : d = b - s
    BY <1>2
  <1>4. ASSUME NEW x \in S PROVE s >= x
    <2>1. b - s <= b - x
      BY <1>2, <1>3
    <2> QED
      BY <1>0, <2>1
  <1> QED
    BY <1>4

-----------------------------------------------------------------------------
(* Counting the fills of a row.                                            *)
LEMMA UpToFinite ==
    ASSUME NEW n \in Nat, NEW S \in SUBSET (1..n)
    PROVE  IsFiniteSet(S) /\ Cardinality(S) \in Nat
  <1>1. 1 \in Int /\ n \in Int
    OBVIOUS
  <1>2. IsFiniteSet(1..n)
    BY <1>1, FS_Interval, Zenon
  <1>3. S \subseteq 1..n
    OBVIOUS
  <1>4. IsFiniteSet(S)
    BY <1>2, <1>3, FS_Subset, Zenon
  <1> QED
    BY <1>4, FS_CardinalityType, Zenon

FillsOf(row, n) == {i \in 1..n : row \in RowsOf(i)}

LEMMA VersionFacts ==
    ASSUME NEW row, NEW n \in Nat
    PROVE  /\ Version(row, n) \in Nat
           /\ \A m \in 0..n : Version(row, m) <= Version(row, n)
           /\ (\E i \in 1..n : row \in RowsOf(i)) => Version(row, n) >= 1
           /\ (\A i \in 1..n : row \notin RowsOf(i)) => Version(row, n) = 0
           /\ row \notin RowsOf(n + 1) => Version(row, n + 1) = Version(row, n)
  <1> DEFINE F == FillsOf(row, n)
  <1>1. Version(row, n) = Cardinality(F)
    BY DEF Version, FillsOf
  <1>2. IsFiniteSet(F) /\ Cardinality(F) \in Nat
    <2>1. F \in SUBSET (1..n)
      BY DEF FillsOf
    <2> QED
      BY <2>1, UpToFinite
  <1>3. ASSUME NEW m \in 0..n PROVE Version(row, m) <= Version(row, n)
    <2>1. FillsOf(row, m) \subseteq F
      BY DEF FillsOf
    <2>2. Cardinality(FillsOf(row, m)) <= Cardinality(F)
      BY <1>2, <2>1, FS_Subset, Zenon
    <2> QED
      BY <1>1, <2>2 DEF Version, FillsOf
  <1>4. ASSUME NEW i \in 1..n, row \in RowsOf(i) PROVE Version(row, n) >= 1
    <2>1. F # {}
      BY <1>4 DEF FillsOf
    <2>2. Cardinality(F) # 0
      BY <1>2, <2>1, FS_EmptySet, Zenon
    <2> QED
      BY <1>1, <1>2, <2>2
  <1>5. ASSUME \A i \in 1..n : row \notin RowsOf(i) PROVE Version(row, n) = 0
    <2>1. F = {}
      BY <1>5 DEF FillsOf
    <2> QED
      BY <1>1, <2>1, FS_EmptySet, Zenon
  <1>6. ASSUME row \notin RowsOf(n + 1) PROVE Version(row, n + 1) = Version(row, n)
    <2>1. {i \in 1..(n + 1) : row \in RowsOf(i)} = {i \in 1..n : row \in RowsOf(i)}
      BY <1>6
    <2> QED
      BY <2>1 DEF Version
  <1> QED
    BY <1>1, <1>2, <1>3, <1>4, <1>5, <1>6

-----------------------------------------------------------------------------
(* Which rows a fill belongs to.                                           *)
LEMMA RowFacts ==
    ASSUME NEW i \in 1..Len(Stream)
    PROVE  /\ WalletCoinRow(i) \in RowsOf(i) /\ WalletRow(i) \in RowsOf(i)
           /\ WindowRow(i) \in RowsOf(i) /\ RawRows(i) \subseteq RowsOf(i)
           /\ RowsOf(i) \subseteq Rows
  BY StreamAssumption DEF RowsOf, Rows

LEMMA RawFacts ==
    ASSUME NEW i
    PROVE  /\ RawWrites(i) = <<>> \/ RawWrites(i) = <<RawRow(i)>>
           /\ \A row \in RawRows(i) : RawWrites(i) = <<row>> /\ row = RawRow(i)
           /\ RawRow(i)[1] \in {"fill_bucket", "fill_hot"}
  BY DEF RawWrites, RawRows, RawRow, ToSet

(* A wallet's row belongs to the wallet's fills, a bucket's to its own.    *)
LEMMA RowsApart ==
    ASSUME NEW i, NEW j
    PROVE  /\ WalletRow(i) \in RowsOf(j) => WalletRow(i) = WalletRow(j)
           /\ WindowRow(i) \in RowsOf(j) => WindowRow(i) = WindowRow(j)
           /\ WindowRow(i) # WalletRow(j)
           /\ WalletCoinRow(i) # WalletRow(j) /\ WalletCoinRow(i) # WindowRow(j)
           /\ \A row \in RawRows(i) : row # WalletRow(j) /\ row # WindowRow(j)
  <1>1. /\ WalletRow(i)[1] = "wallet" /\ WindowRow(i)[1] = "coin_window"
        /\ WalletRow(j)[1] = "wallet" /\ WindowRow(j)[1] = "coin_window"
        /\ WalletCoinRow(j)[1] = "wallet_coin" /\ WalletCoinRow(i)[1] = "wallet_coin"
    BY DEF WalletRow, WindowRow, WalletCoinRow
  <1>2. /\ \A row \in RawRows(i) : row[1] \in {"fill_bucket", "fill_hot"}
        /\ \A row \in RawRows(j) : row[1] \in {"fill_bucket", "fill_hot"}
    BY RawFacts
  <1> QED
    BY <1>1, <1>2 DEF RowsOf

LEMMA WindowOfCoin ==
    ASSUME NEW i, NEW j, WindowRow(i) = WindowRow(j)
    PROVE  Stream[i].coin = Stream[j].coin /\ Stream[i].bucket = Stream[j].bucket
  BY DEF WindowRow

-----------------------------------------------------------------------------
(* Open buckets.                                                           *)
LEMMA OpenFacts ==
    ASSUME NEW n \in 1..Len(Stream), NEW i \in 1..n
    PROVE  \E k \in 1..n :
              /\ k >= i /\ Stream[k].coin = Stream[i].coin
              /\ OpenRow(Stream[i].coin, n) = WindowRow(k)
              /\ \A j \in 1..n : Stream[j].coin = Stream[i].coin => j <= k
  <1> DEFINE S == {j \in 1..n : Stream[j].coin = Stream[i].coin}
  <1>1. S \in SUBSET (0..n) /\ S # {} /\ n \in Nat
    BY StreamAssumption
  <1>2. \E s \in S : \A x \in S : s >= x
    <2> HIDE DEF S
    <2> QED
      BY <1>1, GreatestUpTo
  <1>3. Max(S) \in S /\ \A x \in S : Max(S) >= x
    <2> HIDE DEF S
    <2> QED
      BY <1>2 DEF Max
  <1>4. OpenRow(Stream[i].coin, n) = WindowRow(Max(S))
    BY DEF OpenRow, LastOfCoin
  <1> QED
    BY <1>3, <1>4

LEMMA OpenNext ==
    ASSUME NEW n \in Nat, n + 1 \in 1..Len(Stream)
    PROVE  /\ OpenRow(Stream[n + 1].coin, n + 1) = WindowRow(n + 1)
           /\ \A coin : coin # Stream[n + 1].coin => OpenRow(coin, n + 1) = OpenRow(coin, n)
  <1>1. PICK k \in 1..(n + 1) :
            /\ k >= n + 1
            /\ OpenRow(Stream[n + 1].coin, n + 1) = WindowRow(k)
    BY OpenFacts
  <1>2. k = n + 1
    BY <1>1
  <1>3. ASSUME NEW coin, coin # Stream[n + 1].coin
        PROVE  OpenRow(coin, n + 1) = OpenRow(coin, n)
    <2>1. {i \in 1..(n + 1) : Stream[i].coin = coin} = {i \in 1..n : Stream[i].coin = coin}
      BY <1>3
    <2> QED
      BY <2>1 DEF OpenRow, LastOfCoin
  <1> QED
    BY <1>1, <1>2, <1>3
-----------------------------------------------------------------------------
(* Positions in order.                                                     *)
Enumerates(s, F) ==
    /\ \A x \in F : \E i \in 1..Cardinality(F) : s[i] = x
    /\ \A i, j \in 1..Cardinality(F) : i < j => s[i] < s[j]

LEMMA OrderExists ==
    ASSUME NEW n \in Nat, NEW F \in SUBSET (1..n)
    PROVE  \E s \in [1..Cardinality(F) -> F] : Enumerates(s, F)
  <1> DEFINE Listed(G) == \E s \in [1..Cardinality(G) -> G] : Enumerates(s, G)
             Bad == {m \in Nat : \E G \in SUBSET (1..m) : ~Listed(G)}
  <1> SUFFICES ASSUME Bad # {} PROVE FALSE
    <2> HIDE DEF Listed
    <2>1. n \in Bad \/ Listed(F)
      OBVIOUS
    <2> QED
      BY <2>1 DEF Listed
  <1>1. PICK m \in Bad : \A x \in Bad : m <= x
    <2>1. Bad \in SUBSET Nat
      OBVIOUS
    <2> HIDE DEF Bad
    <2> QED
      BY <2>1, LeastNatural
  <1> HIDE DEF Listed
  <1>2. PICK G \in SUBSET (1..m) : m \in Nat /\ ~Listed(G)
    BY <1>1
  <1>3. m # 0
    <2> SUFFICES ASSUME m = 0 PROVE FALSE
      OBVIOUS
    <2>1. G = {}
      BY <1>2
    <2>2. Cardinality(G) = 0
      BY <2>1, FS_EmptySet, Zenon
    <2>3. [i \in 1..Cardinality(G) |-> i] \in [1..Cardinality(G) -> G]
      BY <2>1, <2>2
    <2>4. Listed(G)
      BY <2>1, <2>2, <2>3 DEF Listed, Enumerates
    <2> QED
      BY <1>2, <2>4
  <1>4. \A H \in SUBSET (1..(m - 1)) : Listed(H)
    <2>1. m - 1 \notin Bad /\ m - 1 \in Nat
      <3> HIDE DEF Bad
      <3> QED
        BY <1>1, <1>2, <1>3
    <2> QED
      BY <2>1
  <1>5. m \in G
    <2> SUFFICES ASSUME m \notin G PROVE FALSE
      OBVIOUS
    <2>1. G \in SUBSET (1..(m - 1))
      BY <1>2
    <2> QED
      BY <1>2, <1>4, <2>1
  <1> DEFINE H == G \ {m}
             c == Cardinality(H)
  <1>6. H \in SUBSET (1..(m - 1))
    BY <1>2
  <1>7. Cardinality(G) = c + 1 /\ c \in Nat
    <2>1. IsFiniteSet(H) /\ c \in Nat
      BY <1>2, <1>3, <1>6, UpToFinite
    <2>2. m \notin H /\ H \cup {m} = G
      BY <1>5
    <2> HIDE DEF H
    <2>3. Cardinality(H \cup {m}) = Cardinality(H) + 1
      BY <2>1, <2>2, FS_AddElement, Zenon
    <2> QED
      BY <2>1, <2>2, <2>3
  <1>8. PICK s \in [1..c -> H] : Enumerates(s, H)
    BY <1>4, <1>6 DEF Listed
  <1> DEFINE t == [i \in 1..(c + 1) |-> IF i = c + 1 THEN m ELSE s[i]]
  <1>9. \A i \in 1..c : s[i] \in H /\ s[i] \in 1..(m - 1)
    BY <1>6
  <1> HIDE DEF c
  <1>10. t \in [1..Cardinality(G) -> G]
    BY <1>5, <1>7, <1>9
  <1>11. ASSUME NEW x \in G PROVE \E i \in 1..(c + 1) : t[i] = x
    <2>1. CASE x = m
      BY <1>7, <2>1
    <2>2. CASE x # m
      <3>1. PICK i \in 1..c : s[i] = x
        BY <1>8, <2>2 DEF Enumerates, c
      <3>2. i \in 1..(c + 1) /\ i # c + 1
        BY <1>7
      <3> QED
        BY <3>1, <3>2
    <2> QED
      BY <2>1, <2>2
  <1>12. ASSUME NEW i \in 1..(c + 1), NEW j \in 1..(c + 1), i < j PROVE t[i] < t[j]
    <2>1. i \in 1..c /\ t[i] = s[i] /\ s[i] \in 1..(m - 1)
      BY <1>7, <1>9, <1>12
    <2>2. CASE j = c + 1
      BY <1>2, <2>1, <2>2
    <2>3. CASE j # c + 1
      <3>1. j \in 1..c /\ t[j] = s[j]
        BY <1>7, <2>3
      <3>2. s[i] < s[j]
        BY <1>8, <1>12, <2>1, <3>1 DEF Enumerates, c
      <3> QED
        BY <2>1, <3>1, <3>2
    <2> QED
      BY <2>2, <2>3
  <1> HIDE DEF t
  <1>13. Enumerates(t, G)
    BY <1>7, <1>11, <1>12 DEF Enumerates
  <1> QED
    BY <1>2, <1>10, <1>13 DEF Listed

LEMMA InOrderFacts ==
    ASSUME NEW n \in Nat, NEW F \in SUBSET (1..n)
    PROVE  /\ Cardinality(F) \in Nat
           /\ DOMAIN InOrder(F) = 1..Cardinality(F)
           /\ \A i \in 1..Cardinality(F) : InOrder(F)[i] \in F
           /\ \A x \in F : \E i \in 1..Cardinality(F) : InOrder(F)[i] = x
  <1>1. \E s \in [1..Cardinality(F) -> F] : Enumerates(s, F)
    BY OrderExists
  <1>2. InOrder(F) = CHOOSE s \in [1..Cardinality(F) -> F] : Enumerates(s, F)
    BY DEF InOrder, Enumerates
  <1>3. InOrder(F) \in [1..Cardinality(F) -> F] /\ Enumerates(InOrder(F), F)
    BY <1>1, <1>2
  <1> QED
    BY <1>3, UpToFinite DEF Enumerates
-----------------------------------------------------------------------------
(* What an iteration and a flush write.                                    *)
LEMMA FirstOfCoinsFacts ==
    ASSUME NEW n \in 0..Len(Stream)
    PROVE  /\ \E len \in Nat : DOMAIN FirstOfCoins(n) = 1..len
           /\ \A k \in DOMAIN FirstOfCoins(n) : FirstOfCoins(n)[k] \in 1..n
           /\ \A i \in 1..n : \E k \in DOMAIN FirstOfCoins(n) :
                 Stream[FirstOfCoins(n)[k]].coin = Stream[i].coin
  <1> DEFINE F == {i \in 1..n : \A j \in 1..(i - 1) : Stream[j].coin # Stream[i].coin}
  <1>1. FirstOfCoins(n) = InOrder(F) /\ F \in SUBSET (1..n) /\ n \in Nat
    BY StreamAssumption DEF FirstOfCoins
  <1>2. ASSUME NEW i \in 1..n PROVE \E f \in F : Stream[f].coin = Stream[i].coin
    <2> DEFINE S == {j \in 1..n : Stream[j].coin = Stream[i].coin}
    <2>1. S \in SUBSET Nat /\ S # {}
      BY <1>1
    <2>2. PICK f \in S : \A x \in S : f <= x
      <3> HIDE DEF S
      <3> QED
        BY <2>1, LeastNatural
    <2>3. \A j \in 1..(f - 1) : j \notin S /\ j \in 1..n
      BY <2>2
    <2> QED
      BY <2>2, <2>3
  <1> HIDE DEF F
  <1>3. /\ Cardinality(F) \in Nat /\ DOMAIN InOrder(F) = 1..Cardinality(F)
        /\ \A i \in 1..Cardinality(F) : InOrder(F)[i] \in F
        /\ \A x \in F : \E i \in 1..Cardinality(F) : InOrder(F)[i] = x
    BY <1>1, InOrderFacts
  <1> DEFINE s == InOrder(F)
             c == Cardinality(F)
  <1>4. /\ \E len \in Nat : DOMAIN s = 1..len
        /\ \A k \in DOMAIN s : s[k] \in 1..n
        /\ \A i \in 1..n : \E k \in DOMAIN s : Stream[s[k]].coin = Stream[i].coin
    <2>1. c \in Nat /\ DOMAIN s = 1..c /\ \A i \in 1..c : s[i] \in F
      BY <1>3
    <2>2. \A x \in F : \E i \in 1..c : s[i] = x
      BY <1>3
    <2> HIDE DEF s, c
    <2>3. \E len \in Nat : DOMAIN s = 1..len
      BY <2>1
    <2>4. \A k \in DOMAIN s : s[k] \in 1..n
      BY <1>1, <2>1
    <2>5. ASSUME NEW i \in 1..n
          PROVE  \E k \in DOMAIN s : Stream[s[k]].coin = Stream[i].coin
      <3>1. PICK f \in F : Stream[f].coin = Stream[i].coin
        BY <1>2
      <3>2. PICK k \in 1..c : s[k] = f
        BY <2>2
      <3> QED
        BY <2>1, <3>1, <3>2
    <2> QED
      BY <2>3, <2>4, <2>5
  <1> QED
    BY <1>1, <1>4

LEMMA FirstOfAddrsFacts ==
    ASSUME NEW n \in 0..Len(Stream)
    PROVE  /\ \E len \in Nat : DOMAIN FirstOfAddrs(n) = 1..len
           /\ \A k \in DOMAIN FirstOfAddrs(n) : FirstOfAddrs(n)[k] \in 1..n
           /\ \A i \in 1..n : \E k \in DOMAIN FirstOfAddrs(n) :
                 Stream[FirstOfAddrs(n)[k]].addr = Stream[i].addr
  <1> DEFINE F == {i \in 1..n : \A j \in 1..(i - 1) : Stream[j].addr # Stream[i].addr}
  <1>1. FirstOfAddrs(n) = InOrder(F) /\ F \in SUBSET (1..n) /\ n \in Nat
    BY StreamAssumption DEF FirstOfAddrs
  <1>2. ASSUME NEW i \in 1..n PROVE \E f \in F : Stream[f].addr = Stream[i].addr
    <2> DEFINE S == {j \in 1..n : Stream[j].addr = Stream[i].addr}
    <2>1. S \in SUBSET Nat /\ S # {}
      BY <1>1
    <2>2. PICK f \in S : \A x \in S : f <= x
      <3> HIDE DEF S
      <3> QED
        BY <2>1, LeastNatural
    <2>3. \A j \in 1..(f - 1) : j \notin S /\ j \in 1..n
      BY <2>2
    <2> QED
      BY <2>2, <2>3
  <1> HIDE DEF F
  <1>3. /\ Cardinality(F) \in Nat /\ DOMAIN InOrder(F) = 1..Cardinality(F)
        /\ \A i \in 1..Cardinality(F) : InOrder(F)[i] \in F
        /\ \A x \in F : \E i \in 1..Cardinality(F) : InOrder(F)[i] = x
    BY <1>1, InOrderFacts
  <1> DEFINE s == InOrder(F)
             c == Cardinality(F)
  <1>4. /\ \E len \in Nat : DOMAIN s = 1..len
        /\ \A k \in DOMAIN s : s[k] \in 1..n
        /\ \A i \in 1..n : \E k \in DOMAIN s : Stream[s[k]].addr = Stream[i].addr
    <2>1. c \in Nat /\ DOMAIN s = 1..c /\ \A i \in 1..c : s[i] \in F
      BY <1>3
    <2>2. \A x \in F : \E i \in 1..c : s[i] = x
      BY <1>3
    <2> HIDE DEF s, c
    <2>3. \E len \in Nat : DOMAIN s = 1..len
      BY <2>1
    <2>4. \A k \in DOMAIN s : s[k] \in 1..n
      BY <1>1, <2>1
    <2>5. ASSUME NEW i \in 1..n
          PROVE  \E k \in DOMAIN s : Stream[s[k]].addr = Stream[i].addr
      <3>1. PICK f \in F : Stream[f].addr = Stream[i].addr
        BY <1>2
      <3>2. PICK k \in 1..c : s[k] = f
        BY <2>2
      <3> QED
        BY <2>1, <3>1, <3>2
    <2> QED
      BY <2>3, <2>4, <2>5
  <1> QED
    BY <1>1, <1>4

(* A row written by flushes alone, by its kind, after n fills.             *)
LazyAt(row, n) ==
    \/ \E i \in 1..Len(Stream) : row = WalletRow(i)
    \/ \E i \in 1..n : row = OpenRow(Stream[i].coin, n)

LEMMA FlushedRowsFacts ==
    ASSUME NEW n \in 0..Len(Stream)
    PROVE  /\ FlushedRows(n) \in Seq(Rows)
           /\ \A k \in 1..Len(FlushedRows(n)) : \E i \in 1..n : FlushedRows(n)[k] \in RowsOf(i)
           /\ \A i \in 1..n : \E k \in 1..Len(FlushedRows(n)) :
                 FlushedRows(n)[k] = OpenRow(Stream[i].coin, n)
           /\ \A i \in 1..n : \E k \in 1..Len(FlushedRows(n)) :
                 FlushedRows(n)[k] = WalletRow(i)
  <1> DEFINE A == [k \in DOMAIN FirstOfCoins(n) |-> OpenRow(Stream[FirstOfCoins(n)[k]].coin, n)]
             B == FlushedWallets(n)
             R == UNION {RowsOf(i) : i \in 1..n}
  <1>0. n \in Nat /\ 1..n \subseteq 1..Len(Stream) /\ n <= Len(Stream)
    BY StreamAssumption
  <1>1. \A i \in 1..n : OpenRow(Stream[i].coin, n) \in R /\ WalletRow(i) \in R
    <2> SUFFICES ASSUME NEW i \in 1..n
                 PROVE  OpenRow(Stream[i].coin, n) \in R /\ WalletRow(i) \in R
      OBVIOUS
    <2>1. n \in 1..Len(Stream)
      BY <1>0
    <2>2. PICK k \in 1..n : OpenRow(Stream[i].coin, n) = WindowRow(k)
      BY <2>1, OpenFacts
    <2>3. WindowRow(k) \in RowsOf(k) /\ WalletRow(i) \in RowsOf(i)
      BY <1>0, RowFacts
    <2> QED
      BY <2>2, <2>3
  <1>2. R \subseteq Rows
    BY <1>0, RowFacts
  <1>3. PICK la \in Nat : DOMAIN FirstOfCoins(n) = 1..la
    BY FirstOfCoinsFacts
  <1>4. PICK lb \in Nat : DOMAIN FirstOfAddrs(n) = 1..lb
    BY FirstOfAddrsFacts
  <1>5. A \in Seq(R) /\ Len(A) = la
    <2>1. \A k \in 1..la : FirstOfCoins(n)[k] \in 1..n
      BY <1>3, FirstOfCoinsFacts
    <2>2. \A k \in 1..la : OpenRow(Stream[FirstOfCoins(n)[k]].coin, n) \in R
      BY <1>1, <2>1
    <2> HIDE DEF R
    <2> QED
      BY <1>3, <2>2
  <1>6. B \in Seq(R) /\ Len(B) = lb
    <2>1. \A k \in 1..lb : FirstOfAddrs(n)[k] \in 1..n
      BY <1>4, FirstOfAddrsFacts
    <2>2. \A k \in 1..lb : WalletRow(FirstOfAddrs(n)[k]) \in R
      BY <1>1, <2>1
    <2> HIDE DEF R
    <2> QED
      BY <1>4, <2>2 DEF FlushedWallets
  <1>7. \A i \in 1..n : \E k \in 1..la : A[k] = OpenRow(Stream[i].coin, n)
    BY <1>3, FirstOfCoinsFacts
  <1>8. \A i \in 1..n : \E k \in 1..lb : B[k] = WalletRow(i)
    <2> SUFFICES ASSUME NEW i \in 1..n PROVE \E k \in 1..lb : B[k] = WalletRow(i)
      OBVIOUS
    <2>1. PICK k \in 1..lb : Stream[FirstOfAddrs(n)[k]].addr = Stream[i].addr
      BY <1>4, FirstOfAddrsFacts
    <2> QED
      BY <1>4, <2>1 DEF FlushedWallets, WalletRow
  <1>9. FlushedRows(n) = A \o B
    BY DEF FlushedRows
  <1> HIDE DEF A, B, R
  <1>10. /\ A \o B \in Seq(R) /\ Len(A \o B) = la + lb
         /\ \A k \in 1..(la + lb) : (A \o B)[k] = IF k <= la THEN A[k] ELSE B[k - la]
    BY <1>5, <1>6, ConcatProperties
  <1>11. \A k \in 1..la : (A \o B)[k] = A[k] /\ k \in 1..(la + lb)
    BY <1>10
  <1>12. \A k \in 1..lb : (A \o B)[la + k] = B[k] /\ la + k \in 1..(la + lb)
    BY <1>10
  <1>13. \A k \in 1..(la + lb) : (A \o B)[k] \in R
    BY <1>10, ElementOfSeq
  <1>14. A \o B \in Seq(Rows)
    BY <1>2, <1>10, SeqMonotonic
  <1>15. \A k \in 1..(la + lb) : \E i \in 1..n : (A \o B)[k] \in RowsOf(i)
    BY <1>13 DEF R
  <1>16. \A i \in 1..n : \E k \in 1..(la + lb) : (A \o B)[k] = OpenRow(Stream[i].coin, n)
    BY <1>7, <1>11
  <1>17. \A i \in 1..n : \E k \in 1..(la + lb) : (A \o B)[k] = WalletRow(i)
    BY <1>8, <1>12
  <1> QED
    BY <1>9, <1>10, <1>14, <1>15, <1>16, <1>17
FillRows(n) == <<WalletCoinRow(n)>> \o ClosedRows(n) \o RawWrites(n)

LEMMA ClosedFacts ==
    ASSUME NEW n \in 1..Len(Stream)
    PROVE  \/ /\ ClosedRows(n) = <<>>
              /\ \A i \in 1..(n - 1) : Stream[i].coin = Stream[n].coin =>
                    OpenRow(Stream[n].coin, n - 1) = OpenRow(Stream[n].coin, n)
           \/ /\ ClosedRows(n) = <<OpenRow(Stream[n].coin, n - 1)>>
              /\ OpenRow(Stream[n].coin, n - 1) # OpenRow(Stream[n].coin, n)
              /\ \E i \in 1..(n - 1) : Stream[i].coin = Stream[n].coin
  BY DEF ClosedRows

LEMMA ClosedRowFacts ==
    ASSUME NEW n \in 1..Len(Stream), NEW i \in 1..(n - 1), Stream[i].coin = Stream[n].coin,
           OpenRow(Stream[n].coin, n - 1) # OpenRow(Stream[n].coin, n)
    PROVE  LET row == OpenRow(Stream[n].coin, n - 1)
           IN  ~LazyAt(row, n) /\ \E k \in 1..n : row \in RowsOf(k)
  <1> DEFINE row == OpenRow(Stream[n].coin, n - 1)
  <1>1. n \in Nat /\ n - 1 \in 1..Len(Stream) /\ n <= Len(Stream)
    BY StreamAssumption
  <1>2. PICK k \in 1..(n - 1) : Stream[k].coin = Stream[n].coin /\ row = WindowRow(k)
    BY <1>1, OpenFacts
  <1>3. k \in 1..n /\ k \in 1..Len(Stream)
    BY <1>1
  <1>4. row \in RowsOf(k)
    BY <1>2, <1>3, RowFacts
  <1>5. ASSUME NEW j \in 1..Len(Stream) PROVE row # WalletRow(j)
    BY <1>2, RowsApart
  <1>6. ASSUME NEW j \in 1..n PROVE row # OpenRow(Stream[j].coin, n)
    <2>1. CASE Stream[j].coin = Stream[n].coin
      BY <2>1
    <2>2. CASE Stream[j].coin # Stream[n].coin
      <3>1. PICK m \in 1..n :
                Stream[m].coin = Stream[j].coin /\ OpenRow(Stream[j].coin, n) = WindowRow(m)
        BY OpenFacts
      <3> QED
        BY <1>2, <2>2, <3>1, WindowOfCoin
    <2> QED
      BY <2>1, <2>2
  <1> QED
    BY <1>3, <1>4, <1>5, <1>6 DEF LazyAt

LEMMA FillRowsFacts ==
    ASSUME NEW n \in 1..Len(Stream)
    PROVE  /\ FillRows(n) \in Seq(Rows)
           /\ \A k \in 1..Len(FillRows(n)) :
                 ~LazyAt(FillRows(n)[k], n) /\ \E i \in 1..n : FillRows(n)[k] \in RowsOf(i)
           /\ \A row \in {WalletCoinRow(n)} \cup RawRows(n) :
                 \E k \in 1..Len(FillRows(n)) : FillRows(n)[k] = row
           /\ \A i \in 1..(n - 1) :
                 Stream[i].coin = Stream[n].coin
                    /\ OpenRow(Stream[n].coin, n - 1) # OpenRow(Stream[n].coin, n) =>
                       \E k \in 1..Len(FillRows(n)) :
                          FillRows(n)[k] = OpenRow(Stream[n].coin, n - 1)
  <1> DEFINE R == {row \in Rows : ~LazyAt(row, n) /\ \E i \in 1..n : row \in RowsOf(i)}
             A == <<WalletCoinRow(n)>>
             B == ClosedRows(n)
             C == RawWrites(n)
  <1>0. n \in Nat /\ n \in 1..n /\ 1..n \subseteq 1..Len(Stream)
    BY StreamAssumption
  <1>1. ASSUME NEW row \in {WalletCoinRow(n)} \cup RawRows(n) PROVE row \in R
    <2>1. row \in RowsOf(n) /\ row \in Rows
      BY RowFacts
    <2>2. \A j : row # WalletRow(j) /\ row # WindowRow(j)
      BY RowsApart
    <2>3. \A i \in 1..n : row # OpenRow(Stream[i].coin, n)
      BY <2>2, OpenFacts
    <2> QED
      BY <1>0, <2>1, <2>2, <2>3 DEF LazyAt
  <1>2. A \in Seq(R) /\ Len(A) = 1 /\ A[1] = WalletCoinRow(n)
    BY <1>1
  <1>3. B \in Seq(R)
    <2>1. CASE ClosedRows(n) = <<>>
      BY <2>1
    <2>2. CASE ClosedRows(n) # <<>>
      <3>1. OpenRow(Stream[n].coin, n - 1) \in R
        BY <1>0, <2>2, ClosedFacts, ClosedRowFacts, RowFacts
      <3>2. B = <<OpenRow(Stream[n].coin, n - 1)>>
        BY <2>2, ClosedFacts
      <3> HIDE DEF R, B
      <3> QED
        BY <3>1, <3>2
    <2> QED
      BY <2>1, <2>2
  <1>4. C \in Seq(R) /\ \A row \in RawRows(n) : Len(C) = 1 /\ C[1] = row
    <2>1. CASE RawSink = "off"
      <3>1. C = <<>> /\ RawRows(n) = {}
        BY <2>1 DEF RawWrites, RawRows, ToSet
      <3> HIDE DEF C
      <3> QED
        BY <3>1
    <2>2. CASE RawSink # "off"
      <3>1. C = <<RawRow(n)>> /\ RawRow(n) \in RawRows(n)
        BY <2>2 DEF RawWrites, RawRows, ToSet
      <3>2. RawRow(n) \in R
        BY <1>1, <3>1
      <3>3. \A row \in RawRows(n) : C = <<row>>
        BY RawFacts
      <3> HIDE DEF R, C
      <3> QED
        BY <3>1, <3>2, <3>3
    <2> QED
      BY <2>1, <2>2
  <1>5. FillRows(n) = (A \o B) \o C
    BY DEF FillRows
  <1> HIDE DEF A, B, C, R
  <1>6. /\ A \o B \in Seq(R) /\ Len(A \o B) = 1 + Len(B) /\ Len(B) \in Nat
        /\ \A k \in 1..(1 + Len(B)) : (A \o B)[k] = IF k <= 1 THEN A[k] ELSE B[k - 1]
    <2>1. Len(B) \in Nat
      BY <1>3, LenProperties
    <2> QED
      BY <1>2, <1>3, <2>1, ConcatProperties
  <1> DEFINE AB == A \o B
  <1> HIDE DEF AB
  <1>7. /\ AB \o C \in Seq(R) /\ Len(AB \o C) = Len(AB) + Len(C)
        /\ Len(AB) \in Nat /\ Len(C) \in Nat
        /\ \A k \in 1..(Len(AB) + Len(C)) :
              (AB \o C)[k] = IF k <= Len(AB) THEN AB[k] ELSE C[k - Len(AB)]
    <2>1. AB \in Seq(R) /\ C \in Seq(R)
      BY <1>4, <1>6 DEF AB
    <2>2. Len(AB) \in Nat /\ Len(C) \in Nat
      BY <2>1, LenProperties
    <2> QED
      BY <2>1, <2>2, ConcatProperties
  <1> DEFINE s == AB \o C
  <1>8. s \in Seq(Rows)
    <2>1. R \subseteq Rows
      BY DEF R
    <2> QED
      BY <1>7, <2>1, SeqMonotonic
  <1>9. \A k \in 1..Len(s) : s[k] \in R
    BY <1>7, ElementOfSeq
  <1>10. 1 \in 1..Len(s) /\ s[1] = WalletCoinRow(n)
    <2>1. 1 \in 1..(1 + Len(B)) /\ AB[1] = A[1] /\ 1 <= Len(AB)
      BY <1>6 DEF AB
    <2>2. 1 \in 1..(Len(AB) + Len(C))
      BY <1>7, <2>1
    <2> QED
      BY <1>2, <1>7, <2>1, <2>2
  <1>11. ASSUME NEW row \in RawRows(n) PROVE \E k \in 1..Len(s) : s[k] = row
    <2>1. Len(C) = 1 /\ C[1] = row
      BY <1>4
    <2>2. Len(AB) + 1 \in 1..Len(s) /\ s[Len(AB) + 1] = C[1]
      BY <1>7, <2>1
    <2> QED
      BY <2>1, <2>2
  <1>12. ASSUME NEW i \in 1..(n - 1), Stream[i].coin = Stream[n].coin,
                OpenRow(Stream[n].coin, n - 1) # OpenRow(Stream[n].coin, n)
         PROVE  \E k \in 1..Len(s) : s[k] = OpenRow(Stream[n].coin, n - 1)
    <2>1. B = <<OpenRow(Stream[n].coin, n - 1)>>
      BY <1>12, ClosedFacts DEF B
    <2>2. Len(B) = 1 /\ B[1] = OpenRow(Stream[n].coin, n - 1)
      BY <2>1
    <2>3. AB[2] = B[1] /\ Len(AB) = 2
      BY <1>6, <2>2 DEF AB
    <2>4. 2 \in 1..Len(s) /\ s[2] = AB[2]
      BY <1>7, <2>3
    <2> QED
      BY <2>2, <2>3, <2>4
  <1>13. FillRows(n) = s
    BY <1>5 DEF AB
  <1> HIDE DEF s
  <1>14. \A k \in 1..Len(s) : ~LazyAt(s[k], n) /\ \E i \in 1..n : s[k] \in RowsOf(i)
    BY <1>9 DEF R
  <1> QED
    BY <1>8, <1>10, <1>11, <1>12, <1>13, <1>14
-----------------------------------------------------------------------------
(* The writes of an iteration.                                             *)
Holds(t, row, version) == \E k \in 1..Len(t) : t[k].row = row /\ t[k].version = version

(* Every write of t carries the engine's value after n fills.              *)
UpToDate(t, n) ==
    \A k \in 1..Len(t) : t[k].version = Version(t[k].row, n) /\ t[k].version >= 1

LEMMA AtFacts ==
    ASSUME NEW n \in Nat, NEW rows \in Seq(Rows)
    PROVE  /\ At(rows, n) \in Seq([row : Rows, version : Nat])
           /\ Len(At(rows, n)) = Len(rows)
           /\ \A k \in 1..Len(rows) :
                 At(rows, n)[k].row = rows[k] /\ At(rows, n)[k].version = Version(rows[k], n)
  <1>1. DOMAIN rows = 1..Len(rows) /\ Len(rows) \in Nat /\ \A k \in 1..Len(rows) : rows[k] \in Rows
    BY LenProperties, ElementOfSeq
  <1>2. \A k \in 1..Len(rows) : Version(rows[k], n) \in Nat
    BY VersionFacts
  <1> QED
    BY <1>1, <1>2 DEF At

LEMMA FlushWritesFacts ==
    ASSUME NEW n \in 0..Len(Stream)
    PROVE  /\ FlushWrites(n) \in Seq([row : Rows, version : Nat])
           /\ UpToDate(FlushWrites(n), n)
           /\ \A i \in 1..n :
                 /\ Holds(FlushWrites(n), WalletRow(i), Version(WalletRow(i), n))
                 /\ Holds(FlushWrites(n), OpenRow(Stream[i].coin, n),
                          Version(OpenRow(Stream[i].coin, n), n))
  <1> DEFINE rows == FlushedRows(n)
             t == At(rows, n)
  <1>0. n \in Nat
    BY StreamAssumption
  <1>1. /\ rows \in Seq(Rows)
        /\ \A k \in 1..Len(rows) : \E i \in 1..n : rows[k] \in RowsOf(i)
        /\ \A i \in 1..n : \E k \in 1..Len(rows) : rows[k] = OpenRow(Stream[i].coin, n)
        /\ \A i \in 1..n : \E k \in 1..Len(rows) : rows[k] = WalletRow(i)
    BY FlushedRowsFacts
  <1>2. FlushWrites(n) = t
    BY DEF FlushWrites
  <1> HIDE DEF rows
  <1>3. /\ t \in Seq([row : Rows, version : Nat])
        /\ Len(t) = Len(rows)
        /\ \A k \in 1..Len(rows) : t[k].row = rows[k] /\ t[k].version = Version(rows[k], n)
    BY <1>0, <1>1, AtFacts
  <1> HIDE DEF t
  <1>4. UpToDate(t, n)
    <2>1. \A k \in 1..Len(rows) : Version(rows[k], n) >= 1
      BY <1>0, <1>1, VersionFacts
    <2> QED
      BY <1>3, <2>1 DEF UpToDate
  <1>5. \A i \in 1..n : Holds(t, WalletRow(i), Version(WalletRow(i), n))
    BY <1>1, <1>3 DEF Holds
  <1>6. \A i \in 1..n :
            Holds(t, OpenRow(Stream[i].coin, n), Version(OpenRow(Stream[i].coin, n), n))
    <2> SUFFICES ASSUME NEW i \in 1..n
                 PROVE  Holds(t, OpenRow(Stream[i].coin, n),
                              Version(OpenRow(Stream[i].coin, n), n))
      OBVIOUS
    <2>1. PICK k \in 1..Len(rows) : rows[k] = OpenRow(Stream[i].coin, n)
      BY <1>1
    <2> QED
      BY <1>3, <2>1 DEF Holds
  <1> QED
    BY <1>2, <1>3, <1>4, <1>5, <1>6

LEMMA FillWritesFacts ==
    ASSUME NEW n \in 1..Len(Stream)
    PROVE  /\ FillWrites(n) \in Seq([row : Rows, version : Nat])
           /\ UpToDate(FillWrites(n), n)
           /\ \A k \in 1..Len(FillWrites(n)) : ~LazyAt(FillWrites(n)[k].row, n)
           /\ \A row \in {WalletCoinRow(n)} \cup RawRows(n) :
                 Holds(FillWrites(n), row, Version(row, n))
           /\ \A i \in 1..(n - 1) :
                 Stream[i].coin = Stream[n].coin
                    /\ OpenRow(Stream[n].coin, n - 1) # OpenRow(Stream[n].coin, n) =>
                       Holds(FillWrites(n), OpenRow(Stream[n].coin, n - 1),
                             Version(OpenRow(Stream[n].coin, n - 1), n))
  <1> DEFINE rows == FillRows(n)
             t == At(rows, n)
  <1>0. n \in Nat
    BY StreamAssumption
  <1>1. /\ rows \in Seq(Rows)
        /\ \A k \in 1..Len(rows) :
              ~LazyAt(rows[k], n) /\ \E i \in 1..n : rows[k] \in RowsOf(i)
        /\ \A row \in {WalletCoinRow(n)} \cup RawRows(n) : \E k \in 1..Len(rows) : rows[k] = row
        /\ \A i \in 1..(n - 1) :
              Stream[i].coin = Stream[n].coin
                 /\ OpenRow(Stream[n].coin, n - 1) # OpenRow(Stream[n].coin, n) =>
                    \E k \in 1..Len(rows) : rows[k] = OpenRow(Stream[n].coin, n - 1)
    BY FillRowsFacts
  <1>2. FillWrites(n) = t
    BY DEF FillWrites, FillRows
  <1> HIDE DEF rows
  <1>3. /\ t \in Seq([row : Rows, version : Nat])
        /\ Len(t) = Len(rows)
        /\ \A k \in 1..Len(rows) : t[k].row = rows[k] /\ t[k].version = Version(rows[k], n)
    BY <1>0, <1>1, AtFacts
  <1> HIDE DEF t
  <1>4. UpToDate(t, n)
    <2>1. \A k \in 1..Len(rows) : Version(rows[k], n) >= 1
      BY <1>0, <1>1, VersionFacts
    <2> QED
      BY <1>3, <2>1 DEF UpToDate
  <1>5. \A k \in 1..Len(t) : ~LazyAt(t[k].row, n)
    BY <1>1, <1>3
  <1>6. \A row \in {WalletCoinRow(n)} \cup RawRows(n) : Holds(t, row, Version(row, n))
    BY <1>1, <1>3 DEF Holds
  <1>7. \A i \in 1..(n - 1) :
            Stream[i].coin = Stream[n].coin
               /\ OpenRow(Stream[n].coin, n - 1) # OpenRow(Stream[n].coin, n) =>
                  Holds(t, OpenRow(Stream[n].coin, n - 1),
                        Version(OpenRow(Stream[n].coin, n - 1), n))
    BY <1>1, <1>3 DEF Holds
  <1> QED
    BY <1>2, <1>3, <1>4, <1>5, <1>6, <1>7

LEMMA BothWrites ==
    ASSUME NEW s \in Seq([row : Rows, version : Nat]),
           NEW t \in Seq([row : Rows, version : Nat]),
           NEW n, UpToDate(s, n), UpToDate(t, n)
    PROVE  /\ s \o t \in Seq([row : Rows, version : Nat])
           /\ UpToDate(s \o t, n)
           /\ \A row, v : Holds(s, row, v) \/ Holds(t, row, v) => Holds(s \o t, row, v)
  <1> DEFINE u == s \o t
             W == [row : Rows, version : Nat]
  <1>1. /\ u \in Seq(W) /\ Len(u) = Len(s) + Len(t)
        /\ Len(s) \in Nat /\ Len(t) \in Nat
        /\ \A k \in 1..(Len(s) + Len(t)) : u[k] = IF k <= Len(s) THEN s[k] ELSE t[k - Len(s)]
    <2>1. Len(s) \in Nat /\ Len(t) \in Nat
      BY LenProperties
    <2> QED
      BY <2>1, ConcatProperties
  <1> HIDE DEF u, W
  <1>2. \A k \in 1..Len(s) : k \in 1..Len(u) /\ u[k] = s[k]
    BY <1>1
  <1>3. ASSUME NEW k \in 1..Len(t)
        PROVE  Len(s) + k \in 1..Len(u) /\ u[Len(s) + k] = t[k]
    <2> DEFINE j == Len(s) + k
    <2>1. j \in 1..(Len(s) + Len(t)) /\ ~(j <= Len(s)) /\ j - Len(s) = k
      BY <1>1
    <2> HIDE DEF j
    <2>2. u[j] = t[k]
      BY <1>1, <2>1
    <2> QED
      BY <1>1, <2>1, <2>2 DEF j
  <1>4. UpToDate(u, n)
    <2> SUFFICES ASSUME NEW k \in 1..Len(u)
                 PROVE  u[k].version = Version(u[k].row, n) /\ u[k].version >= 1
      BY DEF UpToDate
    <2>1. CASE k <= Len(s)
      <3>1. k \in 1..Len(s) /\ u[k] = s[k]
        BY <1>1, <2>1
      <3> QED
        BY <3>1 DEF UpToDate
    <2>2. CASE ~(k <= Len(s))
      <3>1. k - Len(s) \in 1..Len(t) /\ u[k] = t[k - Len(s)]
        BY <1>1, <2>2
      <3> QED
        BY <3>1 DEF UpToDate
    <2> QED
      BY <2>1, <2>2
  <1>5. ASSUME NEW row, NEW v, Holds(s, row, v) PROVE Holds(u, row, v)
    BY <1>2, <1>5 DEF Holds
  <1>6. ASSUME NEW row, NEW v, Holds(t, row, v) PROVE Holds(u, row, v)
    <2>1. PICK k \in 1..Len(t) : t[k].row = row /\ t[k].version = v
      BY <1>6 DEF Holds
    <2>2. Len(s) + k \in 1..Len(u) /\ u[Len(s) + k] = t[k]
      BY <1>3
    <2> QED
      BY <2>1, <2>2 DEF Holds
  <1> QED
    BY <1>1, <1>4, <1>5, <1>6 DEF u, W
-----------------------------------------------------------------------------
(* The inductive invariant.                                                *)
TypeInv ==
    /\ TypeOK
    /\ clock \in Nat
    /\ IsFiniteSet(inflight)

(* Writes in flight and failed are of this run; the clock is ahead of all. *)
(* A run that drains has flushed the whole stream.                         *)
Times ==
    /\ \A w \in inflight \cup failed : w.ts > runStart
    /\ \A w \in inflight \cup limbo : w.ts <= clock
    /\ pc # "run" => pos = Len(Stream) /\ flushedAt = pos
    /\ pc = "done" => todo = <<>> /\ inflight = {}

(* The write a row shows, and all a reader may come to see.                *)
Cell(r) == [row |-> r, version |-> table[r].version, ts |-> table[r].ts]
Told == inflight \cup limbo \cup {Cell(r) : r \in Rows}

ToWrite ==
    /\ UpToDate(todo, pos)
    /\ \A k \in 1..Len(todo) : LazyAt(todo[k].row, pos) => flushedAt = pos

Bounds(w) ==
    /\ w.version >= 1 /\ w.version <= Version(w.row, pos)
    /\ LazyAt(w.row, pos) => w.version <= Version(w.row, flushedAt)

Bounded == \A w \in Told : w.ts > runStart => Bounds(w)

(* In a run, what is written to a row later is not older.                  *)
InTimeOrder ==
    \A w, v \in Told :
        /\ w.ts > runStart /\ v.ts > runStart
        /\ w.row = v.row /\ w.ts <= v.ts
        => w.version <= v.version

(* A value that is due is to be written, on its way, failed or there.      *)
Due(row, m) ==
    \/ Holds(todo, row, Version(row, m))
    \/ \E w \in inflight \cup failed : w.row = row /\ w.version = Version(row, m)
    \/ table[row].ts > runStart /\ table[row].version = Version(row, m)

WrittenThrough ==
    \A i \in 1..pos :
        /\ \A row \in {WalletCoinRow(i)} \cup RawRows(i) : Due(row, pos)
        /\ WindowRow(i) # OpenRow(Stream[i].coin, pos) => Due(WindowRow(i), pos)

Flushed ==
    \A i \in 1..flushedAt :
        /\ Due(WalletRow(i), flushedAt)
        /\ WindowRow(i) = OpenRow(Stream[i].coin, pos) => Due(WindowRow(i), flushedAt)

WriteInv == TypeInv /\ Times /\ ToWrite /\ Bounded /\ InTimeOrder
Inv == WriteInv /\ WrittenThrough /\ Flushed

-----------------------------------------------------------------------------
LEMMA TypeFacts ==
    ASSUME TypeInv
    PROVE  /\ pos \in Nat /\ flushedAt \in 0..pos /\ pos \in 0..Len(Stream) /\ clock \in Nat
           /\ flushedAt \in Nat /\ runStart \in Nat /\ runStart <= clock
           /\ Told \in SUBSET Writes
           /\ \A r \in Rows : /\ Cell(r) \in Told /\ Cell(r).row = r
                              /\ Cell(r).version = table[r].version
                              /\ Cell(r).ts = table[r].ts
                              /\ table[r].ts \in Nat /\ table[r].version \in Nat
                              /\ table[r].ts <= clock
  <1>1. /\ pos \in Nat /\ flushedAt \in 0..pos /\ pos \in 0..Len(Stream) /\ clock \in Nat
        /\ flushedAt \in Nat /\ runStart \in Nat /\ runStart <= clock
    BY StreamAssumption DEF TypeInv, TypeOK
  <1>2. \A r \in Rows : table[r] \in [version : Nat, ts : 0..clock]
    BY DEF TypeInv, TypeOK
  <1>3. \A r \in Rows : /\ table[r].ts \in Nat /\ table[r].version \in Nat
                        /\ table[r].ts <= clock
    BY <1>1, <1>2
  <1>4. \A r \in Rows : Cell(r) \in Writes
    BY <1>3 DEF Cell, Writes
  <1>5. inflight \in SUBSET Writes /\ limbo \in SUBSET Writes
    BY DEF TypeInv, TypeOK
  <1>6. Told \in SUBSET Writes
    BY <1>4, <1>5 DEF Told
  <1>7. \A r \in Rows : /\ Cell(r).row = r /\ Cell(r) \in Told
                        /\ Cell(r).version = table[r].version /\ Cell(r).ts = table[r].ts
    BY DEF Cell, Told
  <1> QED
    BY <1>1, <1>3, <1>6, <1>7

LEMMA WriteRecord ==
    ASSUME NEW w \in Writes
    PROVE  /\ w.row \in Rows /\ w.version \in Nat /\ w.ts \in Nat
           /\ w = [row |-> w.row, version |-> w.version, ts |-> w.ts]
  BY DEF Writes

(* The store takes a write, or keeps what it has, which is newer.          *)
LEMMA UpsertFacts ==
    ASSUME TypeInv, NEW w \in Writes, w.ts <= clock, table' = Upsert(w)
    PROVE  /\ table' \in [Rows -> [version : Nat, ts : 0..clock]]
           /\ \A r \in Rows :
                 \/ table'[r] = table[r] /\ (r = w.row => w.ts <= table[r].ts)
                 \/ /\ r = w.row /\ w.ts > table[r].ts
                    /\ table'[r].version = w.version /\ table'[r].ts = w.ts
                    /\ Cell(r)' = w
  <1>1. w.row \in Rows /\ w.version \in Nat /\ w.ts \in Nat /\ w.ts \in 0..clock
    BY WriteRecord DEF TypeInv
  <1>2. table \in [Rows -> [version : Nat, ts : 0..clock]]
    BY DEF TypeInv, TypeOK
  <1>3. table[w.row].ts \in Nat
    BY <1>1, TypeFacts
  <1> DEFINE new == [version |-> w.version, ts |-> w.ts]
  <1>4. CASE w.ts > table[w.row].ts
    <2>1. table' = [table EXCEPT ![w.row] = new]
      BY <1>4 DEF Upsert, LastWriterWins
    <2>2. new \in [version : Nat, ts : 0..clock] /\ new.version = w.version /\ new.ts = w.ts
      BY <1>1
    <2> HIDE DEF new
    <2>3. table' \in [Rows -> [version : Nat, ts : 0..clock]]
      BY <1>2, <2>1, <2>2
    <2>4. \A r \in Rows : table'[r] = IF r = w.row THEN new ELSE table[r]
      BY <1>2, <2>1
    <2>5. Cell(w.row)' = w
      BY <1>1, <2>2, <2>4, WriteRecord DEF Cell
    <2> QED
      BY <1>4, <2>2, <2>3, <2>4, <2>5
  <1>5. CASE ~(w.ts > table[w.row].ts)
    <2>1. table' = table
      BY <1>5 DEF Upsert, LastWriterWins
    <2> QED
      BY <1>1, <1>2, <1>3, <1>5, <2>1
  <1> QED
    BY <1>4, <1>5

LEMMA StoreTold ==
    ASSUME TypeInv, NEW w \in inflight \cup limbo, w.ts <= clock, table' = Upsert(w),
           inflight' \subseteq inflight, limbo' \subseteq limbo
    PROVE  Told' \subseteq Told
  <1>1. w \in Writes /\ w \in Told
    BY DEF TypeInv, TypeOK, Told
  <1>2. \A r \in Rows : Cell(r)' = Cell(r) \/ Cell(r)' = w
    BY <1>1, UpsertFacts DEF Cell
  <1> QED
    BY <1>1, <1>2 DEF Told

-----------------------------------------------------------------------------
LEMMA TypeInit == Init => TypeInv
  <1> SUFFICES ASSUME Init PROVE TypeInv
    OBVIOUS
  <1>1. IsFiniteSet({}) /\ Cardinality({}) = 0
    BY FS_EmptySet, Zenon
  <1>2. Cardinality(inflight) <= MaxInflight /\ IsFiniteSet(inflight)
    BY <1>1, StreamAssumption DEF Init
  <1>3. [version |-> 0, ts |-> 0] \in [version : Nat, ts : 0..clock]
    BY DEF Init
  <1>4. table \in [Rows -> [version : Nat, ts : 0..clock]]
    BY <1>3 DEF Init
  <1>5. /\ pos \in 0..Len(Stream) /\ flushedAt \in 0..pos /\ runStart \in 0..clock
        /\ failures \in 0..MaxFailures /\ crashes \in 0..MaxCrashes /\ clock \in Nat
    BY StreamAssumption DEF Init
  <1>6. todo \in Seq([row : Rows, version : Nat])
    BY EmptySeq DEF Init
  <1> QED
    BY <1>2, <1>4, <1>5, <1>6 DEF Init, TypeInv, TypeOK

LEMMA TypeStep == TypeInv /\ Times /\ [Next]_vars => TypeInv'
  <1> SUFFICES ASSUME TypeInv, Times, [Next]_vars PROVE TypeInv'
    OBVIOUS
  <1>0. /\ pos \in Nat /\ flushedAt \in 0..pos /\ Len(Stream) \in Nat
        /\ inflight \in SUBSET Writes /\ limbo \in SUBSET Writes /\ failed \in SUBSET Writes
        /\ clock \in Nat /\ runStart \in 0..clock
        /\ table \in [Rows -> [version : Nat, ts : 0..clock]]
        /\ failures \in 0..MaxFailures /\ crashes \in 0..MaxCrashes
        /\ MaxFailures \in Nat /\ MaxCrashes \in Nat /\ MaxInflight \in Nat
    BY TypeFacts, StreamAssumption DEF TypeInv, TypeOK
  <1>a. ASSUME NEW w PROVE /\ IsFiniteSet(inflight \ {w})
                           /\ Cardinality(inflight \ {w}) <= MaxInflight
    <2>1. inflight \ {w} \subseteq inflight
      OBVIOUS
    <2>2. /\ IsFiniteSet(inflight \ {w}) /\ Cardinality(inflight) \in Nat
          /\ Cardinality(inflight \ {w}) \in Nat
          /\ Cardinality(inflight \ {w}) <= Cardinality(inflight)
      BY <2>1, FS_Subset, FS_CardinalityType, Zenon DEF TypeInv
    <2> QED
      BY <1>0, <2>2 DEF TypeInv, TypeOK
  <1>1. CASE NextFill
    <2>1. /\ pos' = pos + 1 /\ pos' \in 1..Len(Stream) /\ flushedAt' \in 0..pos'
      BY <1>0, <1>1 DEF NextFill, TypeInv, TypeOK
    <2>2. todo' \in Seq([row : Rows, version : Nat])
      <3>1. pos' \in 0..Len(Stream)
        BY <1>0, <2>1
      <3> QED
        BY <1>1, <2>1, <3>1, FillWritesFacts, FlushWritesFacts, BothWrites DEF NextFill
    <2>3. UNCHANGED <<pc, inflight, limbo, table, clock, failed, runStart, failures, crashes>>
      BY <1>1 DEF NextFill, storeVars
    <2> QED
      BY <1>0, <2>1, <2>2, <2>3 DEF TypeInv, TypeOK
  <1>2. CASE FinalFlush
    <2>1. pos \in 0..Len(Stream) /\ todo' = FlushWrites(pos)
      BY <1>2 DEF FinalFlush, TypeInv, TypeOK
    <2>2. todo' \in Seq([row : Rows, version : Nat])
      BY <2>1, FlushWritesFacts
    <2>3. UNCHANGED <<pos, inflight, limbo, table, clock, failed, runStart, failures, crashes>>
      BY <1>2 DEF FinalFlush, storeVars
    <2>4. pc' = "drain" /\ flushedAt' \in 0..pos'
      BY <1>0, <1>2 DEF FinalFlush
    <2> QED
      BY <2>2, <2>3, <2>4 DEF TypeInv, TypeOK
  <1>3. CASE Issue
    <2> DEFINE new == [row |-> Head(todo).row, version |-> Head(todo).version, ts |-> clock']
    <2>1. Head(todo) \in [row : Rows, version : Nat] /\ Tail(todo) \in Seq([row : Rows, version : Nat])
      BY <1>3, HeadTailProperties DEF Issue, TypeInv, TypeOK
    <2>2. clock' = clock + 1 /\ clock' \in Nat /\ inflight' = inflight \cup {new} /\ todo' = Tail(todo)
      BY <1>0, <1>3 DEF Issue
    <2>3. new \in Writes
      BY <2>1, <2>2 DEF Writes
    <2> HIDE DEF new
    <2>4. IsFiniteSet(inflight') /\ Cardinality(inflight') <= MaxInflight
      <3>1. Cardinality(inflight) \in Nat /\ Cardinality(inflight) + 1 <= MaxInflight
        <4>1. Cardinality(inflight) \in Nat
          BY FS_CardinalityType, Zenon DEF TypeInv
        <4> QED
          BY <1>0, <1>3, <4>1 DEF Issue, PermitFree
      <3>2. /\ IsFiniteSet(inflight \cup {new})
            /\ \/ Cardinality(inflight \cup {new}) = Cardinality(inflight)
               \/ Cardinality(inflight \cup {new}) = Cardinality(inflight) + 1
        BY FS_AddElement, Zenon DEF TypeInv
      <3> QED
        BY <1>0, <2>2, <3>1, <3>2
    <2>5. table' \in [Rows -> [version : Nat, ts : 0..clock']] /\ runStart' \in 0..clock'
      <3>1. 0..clock \subseteq 0..clock' /\ table' = table /\ runStart' = runStart
        BY <1>0, <1>3, <2>2 DEF Issue, storeVars
      <3>2. [version : Nat, ts : 0..clock] \subseteq [version : Nat, ts : 0..clock']
        BY <3>1
      <3>3. \A r \in Rows : table[r] \in [version : Nat, ts : 0..clock']
        BY <1>0, <3>2
      <3> QED
        BY <1>0, <3>1, <3>3
    <2>6. UNCHANGED <<pc, pos, limbo, failed, flushedAt, failures, crashes>>
      BY <1>3 DEF Issue, storeVars
    <2>7. inflight' \in SUBSET Writes
      BY <1>0, <2>2, <2>3
    <2> QED
      BY <2>1, <2>2, <2>4, <2>5, <2>6, <2>7 DEF TypeInv, TypeOK
  <1>4. CASE Drained
    BY <1>4 DEF Drained, storeVars, TypeInv, TypeOK
  <1>5. ASSUME NEW w \in inflight, Ack(w) PROVE TypeInv'
    <2>1. w \in Writes /\ w.ts <= clock /\ table' = Upsert(w) /\ inflight' = inflight \ {w}
      BY <1>0, <1>5 DEF Times, Ack
    <2>2. table' \in [Rows -> [version : Nat, ts : 0..clock]]
      BY <2>1, UpsertFacts
    <2>3. UNCHANGED <<pc, pos, todo, limbo, clock, failed, flushedAt, runStart, failures, crashes>>
      BY <1>5 DEF Ack
    <2> QED
      BY <1>0, <1>a, <2>1, <2>2, <2>3 DEF TypeInv, TypeOK
  <1>6. ASSUME NEW w \in inflight, Fail(w) PROVE TypeInv'
    <2>1. /\ inflight' = inflight \ {w} /\ failed' \in SUBSET Writes /\ limbo' \in SUBSET Writes
          /\ failures' \in 0..MaxFailures
      BY <1>0, <1>6 DEF Fail
    <2>2. UNCHANGED <<pc, pos, todo, table, clock, flushedAt, runStart, crashes>>
      BY <1>6 DEF Fail
    <2> QED
      BY <1>0, <1>a, <2>1, <2>2 DEF TypeInv, TypeOK
  <1>7. ASSUME NEW w \in limbo, LateApply(w) PROVE TypeInv'
    <2>1. w \in Writes /\ w.ts <= clock /\ table' = Upsert(w) /\ limbo' = limbo \ {w}
      BY <1>0, <1>7 DEF Times, LateApply
    <2>2. table' \in [Rows -> [version : Nat, ts : 0..clock]]
      BY <2>1, UpsertFacts
    <2>3. UNCHANGED <<pc, pos, todo, inflight, clock, failed, flushedAt, runStart, failures, crashes>>
      BY <1>7 DEF LateApply
    <2> QED
      BY <1>0, <2>1, <2>2, <2>3 DEF TypeInv, TypeOK
  <1>8. CASE CrashAndRestart
    <2>1. /\ pc' = "run" /\ pos' = 0 /\ flushedAt' = 0 /\ todo' = <<>> /\ inflight' = {}
          /\ failed' = {} /\ limbo' = limbo \cup inflight /\ runStart' = clock
          /\ crashes' = crashes + 1 /\ crashes < MaxCrashes
          /\ UNCHANGED <<table, clock, failures>>
      BY <1>8 DEF CrashAndRestart
    <2>2. IsFiniteSet({}) /\ Cardinality({}) = 0
      BY FS_EmptySet, Zenon
    <2>3. IsFiniteSet(inflight') /\ Cardinality(inflight') <= MaxInflight
      BY <1>0, <2>1, <2>2
    <2>4. todo' \in Seq([row : Rows, version : Nat])
      BY <2>1, EmptySeq
    <2>5. /\ pos' \in 0..Len(Stream) /\ flushedAt' \in 0..pos' /\ crashes' \in 0..MaxCrashes
          /\ runStart' \in 0..clock' /\ limbo' \in SUBSET Writes
      BY <1>0, <2>1
    <2> QED
      BY <1>0, <2>1, <2>3, <2>4, <2>5 DEF TypeInv, TypeOK
  <1>9. CASE UNCHANGED vars
    BY <1>9 DEF vars, TypeInv, TypeOK
  <1> QED
    BY <1>1, <1>2, <1>3, <1>4, <1>5, <1>6, <1>7, <1>8, <1>9
       DEF Next, Job, Answer, Terminated
LEMMA TimesStep == TypeInv /\ Times /\ [Next]_vars => Times'
  <1> SUFFICES ASSUME TypeInv, Times, [Next]_vars PROVE Times'
    OBVIOUS
  <1> USE DEF Times
  <1>0. /\ clock \in Nat /\ runStart \in Nat /\ runStart <= clock
        /\ \A w \in inflight \cup limbo : w.ts \in Nat
    BY TypeFacts DEF TypeInv, TypeOK, Writes
  <1>1. CASE NextFill
    BY <1>1 DEF NextFill, storeVars
  <1>2. CASE FinalFlush
    BY <1>2 DEF FinalFlush, storeVars
  <1>3. CASE Issue
    <2> DEFINE new == [row |-> Head(todo).row, version |-> Head(todo).version, ts |-> clock']
    <2>1. new.ts = clock + 1 /\ clock' = clock + 1 /\ inflight' = inflight \cup {new}
      BY <1>3 DEF Issue
    <2> HIDE DEF new
    <2>2. /\ todo # <<>> /\ pc # "done"
          /\ UNCHANGED <<pc, pos, limbo, failed, flushedAt, runStart>>
      BY <1>3 DEF Issue, storeVars
    <2> QED
      BY <1>0, <2>1, <2>2
  <1>4. CASE Drained
    BY <1>4 DEF Drained, storeVars, AllAnswered
  <1>5. ASSUME NEW w \in inflight, Ack(w) PROVE Times'
    BY <1>5 DEF Ack
  <1>6. ASSUME NEW w \in inflight, Fail(w) PROVE Times'
    BY <1>6 DEF Fail
  <1>7. ASSUME NEW w \in limbo, LateApply(w) PROVE Times'
    BY <1>7 DEF LateApply
  <1>8. CASE CrashAndRestart
    BY <1>8 DEF CrashAndRestart
  <1>9. CASE UNCHANGED vars
    BY <1>9 DEF vars
  <1> QED
    BY <1>1, <1>2, <1>3, <1>4, <1>5, <1>6, <1>7, <1>8, <1>9
       DEF Next, Job, Answer, Terminated

LEMMA ToWriteStep == TypeInv /\ ToWrite /\ [Next]_vars => ToWrite'
  <1> SUFFICES ASSUME TypeInv, ToWrite, [Next]_vars PROVE ToWrite'
    OBVIOUS
  <1>0. pos \in Nat /\ pos \in 0..Len(Stream) /\ Len(Stream) \in Nat
    BY TypeFacts, StreamAssumption
  <1>1. CASE NextFill
    <2> DEFINE n == pos + 1
    <2>1. n \in 1..Len(Stream) /\ n \in 0..Len(Stream) /\ pos' = n
      BY <1>0, <1>1 DEF NextFill
    <2> HIDE DEF n
    <2>2. CASE todo' = FillWrites(n)
      <3>1. /\ UpToDate(todo', n)
            /\ \A k \in 1..Len(todo') : ~LazyAt(todo'[k].row, n)
        BY <2>1, <2>2, FillWritesFacts
      <3> QED
        BY <2>1, <3>1 DEF ToWrite
    <2>3. CASE todo' = FillWrites(n) \o FlushWrites(n) /\ flushedAt' = pos'
      <3>1. UpToDate(todo', n)
        BY <2>1, <2>3, FillWritesFacts, FlushWritesFacts, BothWrites
      <3> QED
        BY <2>1, <2>3, <3>1 DEF ToWrite
    <2> QED
      BY <1>1, <2>1, <2>2, <2>3 DEF NextFill
  <1>2. CASE FinalFlush
    <2>1. todo' = FlushWrites(pos) /\ pos' = pos /\ flushedAt' = pos
      BY <1>2 DEF FinalFlush
    <2>2. UpToDate(todo', pos)
      BY <1>0, <2>1, FlushWritesFacts
    <2> QED
      BY <2>1, <2>2 DEF ToWrite
  <1>3. CASE Issue
    <2>1. /\ Len(todo') = Len(todo) - 1 /\ Len(todo) \in Nat
          /\ \A k \in 1..Len(todo') : todo'[k] = todo[k + 1]
      BY <1>3, HeadTailProperties, LenProperties DEF Issue, TypeInv, TypeOK
    <2>2. \A k \in 1..Len(todo') : k + 1 \in 1..Len(todo)
      BY <2>1
    <2>3. pos' = pos /\ flushedAt' = flushedAt
      BY <1>3 DEF Issue
    <2>4. \A k \in 1..Len(todo') :
              /\ todo'[k].version = Version(todo'[k].row, pos) /\ todo'[k].version >= 1
              /\ LazyAt(todo'[k].row, pos) => flushedAt = pos
      BY <2>1, <2>2 DEF ToWrite, UpToDate
    <2> QED
      BY <2>3, <2>4 DEF ToWrite, UpToDate
  <1>4. CASE CrashAndRestart
    <2>1. todo' = <<>> /\ Len(<<>>) = 0
      BY <1>4 DEF CrashAndRestart
    <2> QED
      BY <2>1 DEF ToWrite, UpToDate
  <1>5. ASSUME ~NextFill, ~FinalFlush, ~Issue, ~CrashAndRestart
        PROVE  UNCHANGED <<todo, pos, flushedAt>>
    BY <1>5 DEF Next, Job, Drained, Answer, Ack, Fail, LateApply, Terminated, vars
  <1>6. CASE UNCHANGED <<todo, pos, flushedAt>>
    BY <1>6 DEF ToWrite, UpToDate
  <1> QED
    BY <1>1, <1>2, <1>3, <1>4, <1>5, <1>6

-----------------------------------------------------------------------------
(* What can be told of the store grows by the writes that are issued.      *)
LEMMA ToldStep ==
    ASSUME TypeInv, Times, [Next]_vars, ~Issue
    PROVE  Told' \subseteq Told
  <1>1. ASSUME NEW w \in inflight, Ack(w) PROVE Told' \subseteq Told
    BY <1>1, StoreTold DEF Ack, Times
  <1>2. ASSUME NEW w \in limbo, LateApply(w) PROVE Told' \subseteq Told
    BY <1>2, StoreTold DEF LateApply, Times
  <1>3. ASSUME NEW w \in inflight, Fail(w) PROVE Told' \subseteq Told
    BY <1>3 DEF Fail, Told, Cell
  <1>4. CASE CrashAndRestart
    BY <1>4 DEF CrashAndRestart, Told, Cell
  <1>5. CASE UNCHANGED <<inflight, limbo, table>>
    BY <1>5 DEF Told, Cell
  <1> QED
    BY <1>1, <1>2, <1>3, <1>4, <1>5
       DEF Next, Job, NextFill, FinalFlush, Drained, Answer, Terminated, vars, storeVars

LEMMA IssueFacts ==
    ASSUME TypeInv, ToWrite, Issue
    PROVE  \E new \in Writes :
              /\ Told' = Told \cup {new} /\ new \in inflight'
              /\ new.row = Head(todo).row /\ new.version = Head(todo).version
              /\ new.ts = clock + 1
              /\ new.version = Version(new.row, pos) /\ new.version >= 1
              /\ LazyAt(new.row, pos) => flushedAt = pos
  <1> DEFINE new == [row |-> Head(todo).row, version |-> Head(todo).version, ts |-> clock']
  <1>1. clock' = clock + 1 /\ clock' \in Nat
    BY TypeFacts DEF Issue
  <1>2. Head(todo) \in [row : Rows, version : Nat] /\ Head(todo) = todo[1] /\ 1 \in 1..Len(todo)
    <2>1. todo \in Seq([row : Rows, version : Nat]) /\ todo # <<>>
      BY DEF Issue, TypeInv, TypeOK
    <2>2. Head(todo) \in [row : Rows, version : Nat]
      BY <2>1, HeadTailProperties
    <2>3. Len(todo) \in Nat /\ Len(todo) # 0
      BY <2>1
    <2>4. Head(todo) = todo[1]
      BY <2>1
    <2> QED
      BY <2>2, <2>3, <2>4
  <1>3. new \in Writes
    BY <1>1, <1>2 DEF Writes
  <1>4. /\ new.row = Head(todo).row /\ new.version = Head(todo).version /\ new.ts = clock + 1
        /\ new.version = Version(new.row, pos) /\ new.version >= 1
        /\ LazyAt(new.row, pos) => flushedAt = pos
    BY <1>1, <1>2 DEF ToWrite, UpToDate
  <1>5. inflight' = inflight \cup {new} /\ limbo' = limbo /\ table' = table
    BY DEF Issue, storeVars
  <1> HIDE DEF new
  <1>6. Told' = Told \cup {new}
    BY <1>5 DEF Told, Cell
  <1> QED
    BY <1>3, <1>4, <1>5, <1>6

LEMMA ToldTyped ==
    ASSUME TypeInv, Times, ToWrite, [Next]_vars
    PROVE  Told' \in SUBSET Writes
  <1>1. CASE Issue
    BY <1>1, IssueFacts, TypeFacts
  <1>2. CASE ~Issue
    BY <1>2, ToldStep, TypeFacts
  <1> QED
    BY <1>1, <1>2

(* A bucket that opens with a fill has not been written in this run.       *)
LEMMA NewlyLazy ==
    ASSUME NEW n \in Nat, n + 1 \in 1..Len(Stream), NEW row,
           LazyAt(row, n + 1), ~LazyAt(row, n)
    PROVE  Version(row, n) = 0
  <1>0. 1..n \subseteq 1..Len(Stream) /\ n + 1 \in Nat
    BY StreamAssumption
  <1>1. PICK i \in 1..(n + 1) : row = OpenRow(Stream[i].coin, n + 1)
    BY DEF LazyAt
  <1>2. Stream[i].coin = Stream[n + 1].coin
    <2> SUFFICES ASSUME Stream[i].coin # Stream[n + 1].coin PROVE FALSE
      OBVIOUS
    <2>1. i \in 1..n
      BY <1>1
    <2>2. row = OpenRow(Stream[i].coin, n)
      BY <1>1, OpenNext
    <2> QED
      BY <2>1, <2>2 DEF LazyAt
  <1>3. row = WindowRow(n + 1)
    BY <1>1, <1>2, OpenNext
  <1>4. ASSUME NEW j \in 1..n, row \in RowsOf(j) PROVE FALSE
    <2>1. WindowRow(j) = WindowRow(n + 1)
      BY <1>3, <1>4, RowsApart
    <2>2. Stream[j].coin = Stream[n + 1].coin /\ Stream[j].bucket = Stream[n + 1].bucket
      BY <2>1, WindowOfCoin
    <2>3. n \in 1..Len(Stream)
      BY <1>0
    <2>4. PICK k \in 1..n : /\ Stream[k].coin = Stream[j].coin
                            /\ OpenRow(Stream[j].coin, n) = WindowRow(k) /\ k >= j
      BY <2>3, OpenFacts
    <2>5. Stream[j].bucket <= Stream[k].bucket /\ Stream[k].bucket <= Stream[n + 1].bucket
      <3>1. j \in 1..Len(Stream) /\ k \in 1..Len(Stream) /\ k < n + 1 /\ (j < k \/ j = k)
        BY <1>0, <2>4
      <3>2. Stream[j].bucket \in Nat /\ Stream[k].bucket \in Nat
        BY <3>1, StreamAssumption
      <3>3. Stream[k].bucket <= Stream[n + 1].bucket
        BY <2>2, <2>4, <3>1, StreamAssumption
      <3>4. Stream[j].bucket <= Stream[k].bucket
        BY <2>4, <3>1, <3>2, StreamAssumption
      <3> QED
        BY <3>3, <3>4
    <2>6. Stream[k].bucket = Stream[n + 1].bucket
      <3>1. Stream[k].bucket \in Nat /\ Stream[n + 1].bucket \in Nat
        BY <1>0, StreamAssumption
      <3> QED
        BY <2>2, <2>5, <3>1
    <2>7. WindowRow(k) = WindowRow(n + 1)
      BY <2>2, <2>4, <2>6 DEF WindowRow
    <2> QED
      BY <1>3, <2>4, <2>7 DEF LazyAt
  <1> QED
    BY <1>4, VersionFacts
LEMMA BoundedStep ==
    TypeInv /\ TypeInv' /\ Times /\ ToWrite /\ Bounded /\ [Next]_vars => Bounded'
  <1> SUFFICES ASSUME TypeInv, TypeInv', Times, ToWrite, Bounded, [Next]_vars,
                      NEW w \in Told', w.ts > runStart'
               PROVE  Bounds(w)'
    BY DEF Bounded
  <1>0. /\ pos \in Nat /\ flushedAt \in Nat /\ pos' \in Nat /\ flushedAt' \in Nat
        /\ flushedAt <= pos
        /\ Len(Stream) \in Nat
    <2>1. pos' \in 0..Len(Stream) /\ flushedAt' \in 0..pos'
      BY DEF TypeInv, TypeOK
    <2> QED
      BY <2>1, TypeFacts, StreamAssumption
  <1>00. w \in Writes /\ w.version \in Nat
    BY ToldTyped, WriteRecord
  <1>1. CASE NextFill
    <2>1. w \in Told /\ w.ts > runStart /\ Bounds(w)
      <3>1. ~Issue
        BY <1>1 DEF NextFill, Issue
      <3> QED
        BY <1>1, <3>1, ToldStep DEF Bounded, NextFill
    <2>2. pos' = pos + 1 /\ pos + 1 \in 1..Len(Stream)
      BY <1>0, <1>1 DEF NextFill
    <2>3. Version(w.row, pos) <= Version(w.row, pos') /\ Version(w.row, pos) \in Nat
          /\ Version(w.row, pos') \in Nat
      <3>1. pos \in 0..pos'
        BY <1>0, <2>2
      <3> QED
        BY <1>0, <3>1, VersionFacts
    <2>4. ASSUME LazyAt(w.row, pos') PROVE w.version <= Version(w.row, flushedAt')
      <3>1. CASE flushedAt' = pos'
        BY <1>00, <2>1, <2>3, <3>1 DEF Bounds
      <3>2. CASE flushedAt' = flushedAt
        <4>1. CASE LazyAt(w.row, pos)
          BY <2>1, <3>2, <4>1 DEF Bounds
        <4>2. CASE ~LazyAt(w.row, pos)
          <5>1. Version(w.row, pos) = 0
            BY <1>0, <2>2, <2>4, <4>2, NewlyLazy
          <5> QED
            BY <1>00, <2>1, <5>1 DEF Bounds
        <4> QED
          BY <4>1, <4>2
      <3> QED
        BY <1>1, <3>1, <3>2 DEF NextFill
    <2> QED
      BY <1>00, <2>1, <2>3, <2>4 DEF Bounds
  <1>2. CASE FinalFlush
    <2>1. w \in Told /\ w.ts > runStart /\ Bounds(w)
      <3>1. ~Issue
        BY <1>2 DEF FinalFlush, Issue
      <3> QED
        BY <1>2, <3>1, ToldStep DEF Bounded, FinalFlush
    <2> QED
      BY <1>2, <2>1 DEF FinalFlush, Bounds
  <1>3. CASE Issue
    <2>1. PICK new \in Writes :
              /\ Told' = Told \cup {new}
              /\ new.version = Version(new.row, pos) /\ new.version >= 1
              /\ LazyAt(new.row, pos) => flushedAt = pos
      BY <1>3, IssueFacts
    <2>2. pos' = pos /\ flushedAt' = flushedAt /\ runStart' = runStart
      BY <1>3 DEF Issue
    <2>3. CASE w \in Told
      BY <2>2, <2>3 DEF Bounded, Bounds
    <2>4. CASE w = new
      <3>1. new.version \in Nat
        BY WriteRecord
      <3> QED
        BY <2>1, <2>2, <2>4, <3>1 DEF Bounds
    <2> QED
      BY <2>1, <2>3, <2>4
  <1>4. CASE CrashAndRestart
    <2>1. runStart' = clock /\ clock' = clock
      BY <1>4 DEF CrashAndRestart
    <2>2. w \in Told
      <3>1. ~Issue
        <4>1. clock \in Nat /\ clock # clock + 1
          BY TypeFacts
        <4> QED
          BY <2>1, <4>1 DEF Issue
      <3> QED
        BY <3>1, ToldStep
    <2>3. w.ts <= clock
      BY <2>2, TypeFacts DEF Told, Times
    <2> QED
      BY <1>00, <2>1, <2>3, TypeFacts, WriteRecord
  <1>5. ASSUME ~NextFill, ~FinalFlush, ~Issue, ~CrashAndRestart
        PROVE  UNCHANGED <<pos, flushedAt, runStart>> /\ w \in Told
    <2>1. w \in Told
      BY <1>5, ToldStep
    <2> QED
      BY <1>5, <2>1 DEF Next, Job, Drained, Answer, Ack, Fail, LateApply, Terminated, vars
  <1>6. CASE UNCHANGED <<pos, flushedAt, runStart>> /\ w \in Told
    BY <1>6 DEF Bounded, Bounds
  <1> QED
    BY <1>1, <1>2, <1>3, <1>4, <1>5, <1>6

LEMMA InTimeOrderStep ==
    TypeInv /\ Times /\ ToWrite /\ Bounded /\ InTimeOrder /\ [Next]_vars => InTimeOrder'
  <1> SUFFICES ASSUME TypeInv, Times, ToWrite, Bounded, InTimeOrder, [Next]_vars,
                      NEW w \in Told', NEW v \in Told',
                      w.ts > runStart', v.ts > runStart', w.row = v.row, w.ts <= v.ts
               PROVE  w.version <= v.version
    BY DEF InTimeOrder
  <1>0. /\ w.ts \in Nat /\ v.ts \in Nat /\ w.version \in Nat /\ v.version \in Nat
        /\ clock \in Nat /\ runStart \in Nat
    BY ToldTyped, TypeFacts, WriteRecord
  <1>1. \A u \in Told : u.ts <= clock
    BY TypeFacts DEF Told, Times
  <1>2. CASE Issue
    <2>1. PICK new \in Writes :
              /\ Told' = Told \cup {new} /\ new.ts = clock + 1
              /\ new.version = Version(new.row, pos)
      BY <1>2, IssueFacts
    <2>2. runStart' = runStart
      BY <1>2 DEF Issue
    <2>3. CASE w \in Told /\ v \in Told
      BY <2>2, <2>3 DEF InTimeOrder
    <2>4. CASE w \in Told /\ v = new
      BY <2>1, <2>2, <2>4 DEF Bounded, Bounds
    <2>5. CASE w = new /\ v \in Told
      BY <1>0, <1>1, <2>1, <2>5
    <2>6. CASE w = new /\ v = new
      BY <1>0, <2>6
    <2> QED
      BY <2>1, <2>3, <2>4, <2>5, <2>6
  <1>3. CASE ~Issue /\ runStart' = runStart
    BY <1>3, ToldStep DEF InTimeOrder
  <1>4. CASE CrashAndRestart
    <2>1. runStart' = clock /\ ~Issue
      <3>1. clock # clock + 1 /\ clock' = clock /\ runStart' = clock
        BY <1>0, <1>4 DEF CrashAndRestart
      <3> QED
        BY <3>1 DEF Issue
    <2>2. w.ts <= clock
      BY <1>1, <2>1, ToldStep
    <2> QED
      BY <1>0, <2>1, <2>2
  <1>5. CrashAndRestart \/ runStart' = runStart
    BY DEF Next, Job, NextFill, FinalFlush, Issue, Drained, Answer, Ack, Fail, LateApply,
           Terminated, vars
  <1> QED
    BY <1>2, <1>3, <1>4, <1>5
-----------------------------------------------------------------------------
(* A write the store takes leaves a row that has its value with it.        *)
LEMMA ValueStays ==
    ASSUME TypeInv, Times, Bounded, InTimeOrder, NEW w \in inflight \cup limbo,
           table' = Upsert(w), NEW row \in Rows, NEW value \in Nat,
           \A v \in Told : v.ts > runStart /\ v.row = row => v.version <= value,
           table[row].ts > runStart, table[row].version = value
    PROVE  table'[row].ts > runStart /\ table'[row].version = value
  <1>1. w \in Writes /\ w \in Told /\ w.ts <= clock
    BY DEF TypeInv, TypeOK, Told, Times
  <1>2. \/ table'[row] = table[row]
        \/ /\ row = w.row /\ w.ts > table[row].ts
           /\ table'[row].version = w.version /\ table'[row].ts = w.ts
    BY <1>1, UpsertFacts
  <1>3. CASE /\ row = w.row /\ w.ts > table[row].ts
             /\ table'[row].version = w.version /\ table'[row].ts = w.ts
    <2>1. /\ Cell(row) \in Told /\ Cell(row).row = row /\ Cell(row).ts = table[row].ts
          /\ Cell(row).version = value
          /\ w.ts \in Nat /\ w.version \in Nat /\ table[row].ts \in Nat /\ runStart \in Nat
      BY <1>1, TypeFacts, WriteRecord
    <2>2. w.ts > runStart
      BY <1>3, <2>1
    <2>3. value <= w.version
      BY <1>1, <1>3, <2>1, <2>2 DEF InTimeOrder
    <2>4. w.version <= value
      BY <1>1, <1>3, <2>2
    <2> QED
      BY <1>3, <2>1, <2>2, <2>3, <2>4
  <1> QED
    BY <1>2, <1>3

(* The answer to a write of the value a row is due leaves it there.        *)
LEMMA ValueArrives ==
    ASSUME TypeInv, Times, Bounded, InTimeOrder, NEW w \in inflight,
           table' = Upsert(w), NEW value \in Nat,
           \A v \in Told : v.ts > runStart /\ v.row = w.row => v.version <= value,
           w.version = value
    PROVE  table'[w.row].ts > runStart /\ table'[w.row].version = value
  <1>1. w \in Writes /\ w \in Told /\ w.ts <= clock /\ w.ts > runStart /\ w.row \in Rows
    BY WriteRecord DEF TypeInv, TypeOK, Told, Times
  <1>2. \/ table'[w.row] = table[w.row] /\ w.ts <= table[w.row].ts
        \/ table'[w.row].version = w.version /\ table'[w.row].ts = w.ts
    BY <1>1, UpsertFacts
  <1>3. CASE table'[w.row] = table[w.row] /\ w.ts <= table[w.row].ts
    <2> DEFINE c == Cell(w.row)
    <2>1. /\ c \in Told /\ c.row = w.row /\ c.ts = table[w.row].ts
          /\ c.version = table[w.row].version
          /\ w.ts \in Nat /\ w.version \in Nat /\ c.ts \in Nat /\ c.version \in Nat
          /\ runStart \in Nat
      BY <1>1, TypeFacts, WriteRecord
    <2>2. c.ts > runStart /\ w.ts <= c.ts
      BY <1>1, <1>3, <2>1
    <2> HIDE DEF c
    <2>3. w.version <= c.version
      BY <1>1, <2>1, <2>2 DEF InTimeOrder
    <2>4. c.version <= value
      BY <2>1, <2>2
    <2> QED
      BY <1>3, <2>1, <2>2, <2>3, <2>4
  <1> QED
    BY <1>1, <1>2, <1>3

LEMMA DueKept ==
    ASSUME WriteInv, NEW row \in Rows, NEW m \in Nat, Due(row, m),
           m = pos \/ (m = flushedAt /\ LazyAt(row, pos)),
           \/ Issue \/ Drained \/ UNCHANGED vars
           \/ \E w \in inflight : Ack(w) \/ Fail(w)
           \/ \E w \in limbo : LateApply(w)
    PROVE  Due(row, m)'
  <1> USE DEF WriteInv
  <1> DEFINE value == Version(row, m)
  <1>1. value \in Nat
    BY VersionFacts
  <1>2. \A v \in Told : v.ts > runStart /\ v.row = row => v.version <= value
    BY DEF Bounded, Bounds
  <1> HIDE DEF value
  <1>3. \/ Holds(todo, row, value)
        \/ \E w \in inflight \cup failed : w.row = row /\ w.version = value
        \/ table[row].ts > runStart /\ table[row].version = value
    BY DEF Due, value
  <1> SUFFICES \/ Holds(todo', row, value)
               \/ \E w \in inflight' \cup failed' : w.row = row /\ w.version = value
               \/ table'[row].ts > runStart' /\ table'[row].version = value
    BY DEF Due, value, Holds
  <1>4. CASE Issue
    <2>1. UNCHANGED <<failed, table, runStart>> /\ inflight \subseteq inflight'
      BY <1>4 DEF Issue, storeVars
    <2>2. CASE Holds(todo, row, value)
      <3>1. PICK k \in 1..Len(todo) : todo[k].row = row /\ todo[k].version = value
        BY <2>2 DEF Holds
      <3>2. todo \in Seq([row : Rows, version : Nat]) /\ todo # <<>> /\ todo' = Tail(todo)
        BY <1>4 DEF Issue, TypeInv, TypeOK
      <3>3. /\ Len(todo') = Len(todo) - 1 /\ Len(todo) \in Nat
            /\ \A i \in 1..Len(todo') : todo'[i] = todo[i + 1]
        BY <3>2, HeadTailProperties, LenProperties
      <3>4. CASE k = 1
        <4>1. PICK new \in Writes :
                  /\ new \in inflight' /\ new.row = Head(todo).row
                  /\ new.version = Head(todo).version
          BY <1>4, IssueFacts
        <4>2. Head(todo) = todo[1]
          BY <3>2
        <4> QED
          BY <3>1, <3>4, <4>1, <4>2
      <3>5. CASE k # 1
        <4>1. k - 1 \in 1..Len(todo') /\ (k - 1) + 1 = k
          BY <3>3, <3>5
        <4>2. todo'[k - 1] = todo[k]
          BY <3>3, <4>1
        <4> QED
          BY <3>1, <4>1, <4>2 DEF Holds
      <3> QED
        BY <3>4, <3>5
    <2> QED
      BY <1>3, <2>1, <2>2
  <1>5. CASE Drained \/ UNCHANGED vars
    BY <1>3, <1>5 DEF Drained, storeVars, vars, Holds
  <1>6. ASSUME NEW w \in inflight, Ack(w)
        PROVE  \/ Holds(todo', row, value)
               \/ \E u \in inflight' \cup failed' : u.row = row /\ u.version = value
               \/ table'[row].ts > runStart' /\ table'[row].version = value
    <2>1. /\ UNCHANGED <<todo, failed, runStart>> /\ inflight' = inflight \ {w}
          /\ table' = Upsert(w)
      BY <1>6 DEF Ack
    <2>2. CASE w.row = row /\ w.version = value
      BY <1>1, <1>2, <2>1, <2>2, ValueArrives
    <2>3. CASE table[row].ts > runStart /\ table[row].version = value
      BY <1>1, <1>2, <2>1, <2>3, ValueStays
    <2> QED
      BY <1>3, <2>1, <2>2, <2>3
  <1>7. ASSUME NEW w \in inflight, Fail(w)
        PROVE  \/ Holds(todo', row, value)
               \/ \E u \in inflight' \cup failed' : u.row = row /\ u.version = value
               \/ table'[row].ts > runStart' /\ table'[row].version = value
    BY <1>3, <1>7 DEF Fail
  <1>8. ASSUME NEW w \in limbo, LateApply(w)
        PROVE  \/ Holds(todo', row, value)
               \/ \E u \in inflight' \cup failed' : u.row = row /\ u.version = value
               \/ table'[row].ts > runStart' /\ table'[row].version = value
    <2>1. UNCHANGED <<todo, inflight, failed, runStart>> /\ table' = Upsert(w)
      BY <1>8 DEF LateApply
    <2>2. CASE table[row].ts > runStart /\ table[row].version = value
      BY <1>1, <1>2, <2>1, <2>2, ValueStays
    <2> QED
      BY <1>3, <2>1, <2>2
  <1> QED
    BY <1>4, <1>5, <1>6, <1>7, <1>8
(* An iteration and the last flush find nothing left to write.             *)
LEMMA DueUnwritten ==
    ASSUME NextFill \/ FinalFlush, NEW row, NEW m, NEW n, Due(row, m),
           Version(row, n) = Version(row, m)
    PROVE  Due(row, n)'
  <1>1. todo = <<>> /\ UNCHANGED <<inflight, failed, table, runStart>>
    BY DEF NextFill, FinalFlush, storeVars
  <1>2. ~Holds(todo, row, Version(row, m))
    <2>1. Len(<<>>) = 0
      BY EmptySeq
    <2> QED
      BY <1>1, <2>1 DEF Holds
  <1> QED
    BY <1>1, <1>2 DEF Due

LEMMA DueWritten ==
    ASSUME NEW row, NEW n, Holds(todo', row, Version(row, n))
    PROVE  Due(row, n)'
  BY DEF Due, Holds

LEMMA FillTodo ==
    ASSUME TypeInv, NextFill, NEW n, n = pos + 1
    PROVE  /\ n \in 1..Len(Stream) /\ n \in Nat /\ pos' = n
           /\ \A row, v : Holds(FillWrites(n), row, v) => Holds(todo', row, v)
           /\ \/ flushedAt' = flushedAt
              \/ /\ flushedAt' = n
                 /\ \A row, v : Holds(FlushWrites(n), row, v) => Holds(todo', row, v)
  <1>1. n \in 1..Len(Stream) /\ n \in 0..Len(Stream) /\ n \in Nat /\ pos' = n
    BY TypeFacts, StreamAssumption DEF NextFill
  <1>2. /\ FillWrites(n) \in Seq([row : Rows, version : Nat])
        /\ FlushWrites(n) \in Seq([row : Rows, version : Nat])
        /\ UpToDate(FillWrites(n), n) /\ UpToDate(FlushWrites(n), n)
    BY <1>1, FillWritesFacts, FlushWritesFacts
  <1>3. CASE todo' = FillWrites(n) /\ flushedAt' = flushedAt
    BY <1>1, <1>3
  <1>4. CASE todo' = FillWrites(n) \o FlushWrites(n) /\ flushedAt' = n
    BY <1>1, <1>2, <1>4, BothWrites
  <1> QED
    BY <1>1, <1>3, <1>4 DEF NextFill

LEMMA WrittenThroughStep ==
    WriteInv /\ WrittenThrough /\ [Next]_vars => WrittenThrough'
  <1> SUFFICES ASSUME WriteInv, WrittenThrough, [Next]_vars PROVE WrittenThrough'
    OBVIOUS
  <1>0. /\ TypeInv /\ pos \in Nat /\ pos \in 0..Len(Stream) /\ Len(Stream) \in Nat
        /\ 1..pos \subseteq 1..Len(Stream)
    BY TypeFacts, StreamAssumption DEF WriteInv
  <1>1. CASE NextFill
    <2>0. PICK n \in Nat : n = pos + 1
      BY <1>0
    <2>1. /\ n \in 1..Len(Stream) /\ n \in Nat /\ pos' = n
          /\ \A row, v : Holds(FillWrites(n), row, v) => Holds(todo', row, v)
      BY <1>0, <1>1, <2>0, FillTodo
    <2>2. ASSUME NEW row, row \notin RowsOf(n), Due(row, pos) PROVE Due(row, n)'
      <3>1. Version(row, n) = Version(row, pos)
        BY <1>0, <2>0, <2>2, VersionFacts
      <3> QED
        BY <1>1, <2>2, <3>1, DueUnwritten
    <2>3. ASSUME NEW row \in {WalletCoinRow(n)} \cup RawRows(n) PROVE Due(row, n)'
      BY <2>1, <2>3, FillWritesFacts, DueWritten
    <2>4. ASSUME NEW i \in 1..n, NEW row \in {WalletCoinRow(i)} \cup RawRows(i)
          PROVE  Due(row, n)'
      <3>1. CASE row \in RowsOf(n)
        <4>1. row \in {WalletCoinRow(n)} \cup RawRows(n)
          <5>1. row # WalletRow(n) /\ row # WindowRow(n)
            BY <2>4, RowsApart
          <5> QED
            BY <3>1, <5>1 DEF RowsOf
        <4> QED
          BY <2>3, <4>1
      <3>2. CASE row \notin RowsOf(n)
        <4>1. i # n
          BY <2>1, <2>4, <3>2, RowFacts
        <4>2. i \in 1..pos
          BY <1>0, <2>0, <4>1
        <4> QED
          BY <2>2, <2>4, <3>2, <4>2 DEF WrittenThrough
      <3> QED
        BY <3>1, <3>2
    <2>5. ASSUME NEW i \in 1..n, WindowRow(i) # OpenRow(Stream[i].coin, n)
          PROVE  Due(WindowRow(i), n)'
      <3>1. OpenRow(Stream[n].coin, n) = WindowRow(n)
        BY <1>0, <2>0, <2>1, OpenNext
      <3>2. i # n /\ i \in 1..pos
        BY <1>0, <2>0, <2>5, <3>1
      <3>3. WindowRow(i) \notin RowsOf(n)
        <4> SUFFICES ASSUME WindowRow(i) \in RowsOf(n) PROVE FALSE
          OBVIOUS
        <4>1. WindowRow(i) = WindowRow(n)
          BY RowsApart
        <4>2. Stream[i].coin = Stream[n].coin
          BY <4>1, WindowOfCoin
        <4> QED
          BY <2>5, <3>1, <4>1, <4>2
      <3>4. CASE WindowRow(i) # OpenRow(Stream[i].coin, pos)
        BY <2>2, <3>2, <3>3, <3>4 DEF WrittenThrough
      <3>5. CASE WindowRow(i) = OpenRow(Stream[i].coin, pos)
        <4>1. Stream[i].coin = Stream[n].coin
          BY <1>0, <2>0, <2>1, <2>5, <3>5, OpenNext
        <4>2. n - 1 = pos
          BY <1>0, <2>0
        <4>3. Holds(FillWrites(n), WindowRow(i), Version(WindowRow(i), n))
          BY <2>1, <2>5, <3>2, <3>5, <4>1, <4>2, FillWritesFacts
        <4> QED
          BY <2>1, <4>3, DueWritten
      <3> QED
        BY <3>4, <3>5
    <2> QED
      BY <2>1, <2>4, <2>5 DEF WrittenThrough, Due
  <1>2. CASE FinalFlush
    <2>1. pos' = pos
      BY <1>2 DEF FinalFlush
    <2>2. \A row : Due(row, pos) => (Due(row, pos))'
      BY <1>2, <2>1, DueUnwritten DEF Due
    <2> QED
      BY <2>1, <2>2 DEF WrittenThrough
  <1>3. CASE CrashAndRestart
    <2>1. pos' = 0
      BY <1>3 DEF CrashAndRestart
    <2> QED
      BY <2>1 DEF WrittenThrough
  <1>4. CASE \/ Issue \/ Drained \/ UNCHANGED vars
             \/ \E w \in inflight : Ack(w) \/ Fail(w)
             \/ \E w \in limbo : LateApply(w)
    <2>1. pos' = pos
      BY <1>4 DEF Issue, Drained, vars, Ack, Fail, LateApply
    <2>2. \A row \in Rows, m \in Nat : m = pos /\ Due(row, m) => Due(row, m)'
      BY <1>4, DueKept
    <2>3. \A row \in Rows : Due(row, pos) => (Due(row, pos))'
      BY <1>0, <2>1, <2>2 DEF Due
    <2>4. \A i \in 1..pos :
              {WalletCoinRow(i)} \cup RawRows(i) \subseteq Rows /\ WindowRow(i) \in Rows
      BY <1>0, RowFacts
    <2> QED
      BY <2>1, <2>3, <2>4 DEF WrittenThrough
  <1> QED
    BY <1>1, <1>2, <1>3, <1>4 DEF Next, Job, Answer, Terminated
(* A bucket that is open after a fill, and was written before, was open.   *)
LEMMA StillOpen ==
    ASSUME NEW n \in Nat, n + 1 \in 1..Len(Stream), NEW i \in 1..n,
           WindowRow(i) = OpenRow(Stream[i].coin, n + 1)
    PROVE  WindowRow(i) = OpenRow(Stream[i].coin, n)
  <1> DEFINE row == WindowRow(i)
  <1>1. Version(row, n) >= 1
    <2>1. i \in 1..Len(Stream)
      BY StreamAssumption
    <2> QED
      BY <2>1, RowFacts, VersionFacts
  <1>2. LazyAt(row, n + 1)
    BY DEF LazyAt
  <1>3. LazyAt(row, n)
    BY <1>1, <1>2, NewlyLazy
  <1>4. PICK j \in 1..n : row = OpenRow(Stream[j].coin, n)
    BY <1>3, RowsApart DEF LazyAt
  <1>5. PICK k \in 1..n :
            Stream[k].coin = Stream[j].coin /\ OpenRow(Stream[j].coin, n) = WindowRow(k)
    <2>1. n \in 1..Len(Stream)
      BY StreamAssumption
    <2> QED
      BY <2>1, OpenFacts
  <1>6. Stream[k].coin = Stream[i].coin
    BY <1>4, <1>5, WindowOfCoin
  <1> QED
    BY <1>4, <1>5, <1>6

LEMMA FlushedStep == WriteInv /\ Flushed /\ [Next]_vars => Flushed'
  <1> SUFFICES ASSUME WriteInv, Flushed, [Next]_vars PROVE Flushed'
    OBVIOUS
  <1>0. /\ TypeInv /\ pos \in Nat /\ pos \in 0..Len(Stream) /\ Len(Stream) \in Nat
        /\ 1..pos \subseteq 1..Len(Stream)
        /\ flushedAt \in Nat /\ 1..flushedAt \subseteq 1..pos
    BY TypeFacts, StreamAssumption DEF WriteInv
  <1>1. CASE NextFill
    <2>0. PICK n \in Nat : n = pos + 1
      BY <1>0
    <2>1. /\ n \in 1..Len(Stream) /\ pos' = n
          /\ \/ flushedAt' = flushedAt
             \/ /\ flushedAt' = n
                /\ \A row, v : Holds(FlushWrites(n), row, v) => Holds(todo', row, v)
      BY <1>0, <1>1, <2>0, FillTodo
    <2>2. CASE flushedAt' = flushedAt
      <3>1. PICK m \in Nat : m = flushedAt
        BY <1>0
      <3>2. \A row : Due(row, m) => Due(row, m)'
        BY <1>1, DueUnwritten
      <3>3. ASSUME NEW i \in 1..m PROVE Due(WalletRow(i), m)'
        BY <3>1, <3>2 DEF Flushed
      <3>4. ASSUME NEW i \in 1..m, WindowRow(i) = OpenRow(Stream[i].coin, n)
            PROVE  Due(WindowRow(i), m)'
        <4>1. WindowRow(i) = OpenRow(Stream[i].coin, pos)
          BY <1>0, <2>0, <2>1, <3>1, <3>4, StillOpen
        <4> QED
          BY <3>1, <3>2, <4>1 DEF Flushed
      <3> QED
        BY <2>1, <2>2, <3>1, <3>3, <3>4 DEF Flushed, Due
    <2>3. CASE flushedAt' = n /\ \A row, v : Holds(FlushWrites(n), row, v) => Holds(todo', row, v)
      <3>1. n \in 0..Len(Stream)
        BY <2>1
      <3>2. ASSUME NEW i \in 1..n
            PROVE  Due(WalletRow(i), n)' /\ Due(OpenRow(Stream[i].coin, n), n)'
        BY <2>3, <3>1, FlushWritesFacts, DueWritten
      <3> QED
        BY <2>1, <2>3, <3>2 DEF Flushed, Due
    <2> QED
      BY <2>1, <2>2, <2>3
  <1>2. CASE FinalFlush
    <2>0. PICK n \in Nat : n = pos
      BY <1>0
    <2>1. pos' = n /\ flushedAt' = n /\ todo' = FlushWrites(n) /\ n \in 0..Len(Stream)
      BY <1>0, <1>2, <2>0 DEF FinalFlush
    <2>2. ASSUME NEW i \in 1..n
          PROVE  Due(WalletRow(i), n)' /\ Due(OpenRow(Stream[i].coin, n), n)'
      BY <2>1, FlushWritesFacts, DueWritten
    <2> QED
      BY <2>1, <2>2 DEF Flushed, Due
  <1>3. CASE CrashAndRestart
    <2>1. flushedAt' = 0
      BY <1>3 DEF CrashAndRestart
    <2> QED
      BY <2>1 DEF Flushed
  <1>4. CASE \/ Issue \/ Drained \/ UNCHANGED vars
             \/ \E w \in inflight : Ack(w) \/ Fail(w)
             \/ \E w \in limbo : LateApply(w)
    <2>1. pos' = pos /\ flushedAt' = flushedAt
      BY <1>4 DEF Issue, Drained, vars, Ack, Fail, LateApply
    <2>2. PICK m \in Nat : m = flushedAt
      BY <1>0
    <2>3. \A row \in Rows : LazyAt(row, pos) /\ Due(row, m) => Due(row, m)'
      BY <1>4, <2>2, DueKept
    <2>4. ASSUME NEW i \in 1..m
          PROVE  /\ WalletRow(i) \in Rows /\ LazyAt(WalletRow(i), pos)
                 /\ WindowRow(i) \in Rows
                 /\ WindowRow(i) = OpenRow(Stream[i].coin, pos) => LazyAt(WindowRow(i), pos)
      BY <1>0, <2>2, RowFacts DEF LazyAt
    <2>5. ASSUME NEW i \in 1..m PROVE Due(WalletRow(i), m)'
      BY <2>2, <2>3, <2>4 DEF Flushed
    <2>6. ASSUME NEW i \in 1..m, WindowRow(i) = OpenRow(Stream[i].coin, pos)
          PROVE  Due(WindowRow(i), m)'
      BY <2>2, <2>3, <2>4, <2>6 DEF Flushed
    <2> QED
      BY <2>1, <2>2, <2>5, <2>6 DEF Flushed, Due
  <1> QED
    BY <1>1, <1>2, <1>3, <1>4 DEF Next, Job, Answer, Terminated

LEMMA InvInit == Init => Inv
  <1> SUFFICES ASSUME Init PROVE Inv
    OBVIOUS
  <1>1. TypeInv
    BY TypeInit
  <1>2. Times
    BY DEF Init, Times
  <1>3. ToWrite
    <2>1. todo = <<>> /\ Len(<<>>) = 0
      BY DEF Init
    <2> QED
      BY <2>1 DEF ToWrite, UpToDate
  <1>4. \A w \in Told : ~(w.ts > runStart)
    BY DEF Init, Told, Cell
  <1>5. Bounded /\ InTimeOrder
    BY <1>4 DEF Bounded, InTimeOrder
  <1>6. WrittenThrough /\ Flushed
    BY DEF Init, WrittenThrough, Flushed
  <1> QED
    BY <1>1, <1>2, <1>3, <1>5, <1>6 DEF Inv, WriteInv

LEMMA InvStep == Inv /\ [Next]_vars => Inv'
  <1> SUFFICES ASSUME Inv, [Next]_vars PROVE Inv'
    OBVIOUS
  <1>1. TypeInv' /\ Times' /\ ToWrite'
    BY TypeStep, TimesStep, ToWriteStep DEF Inv, WriteInv
  <1>2. Bounded' /\ InTimeOrder'
    BY <1>1, BoundedStep, InTimeOrderStep DEF Inv, WriteInv
  <1>3. WrittenThrough' /\ Flushed'
    BY WrittenThroughStep, FlushedStep DEF Inv
  <1> QED
    BY <1>1, <1>2, <1>3 DEF Inv, WriteInv

LEMMA Invariance == Spec => []Inv
  BY InvInit, InvStep, PTL DEF Spec

(* With nothing left to write or in flight, what is due is in the table.   *)
LEMMA QuietDue ==
    ASSUME Quiet, NEW row, NEW m, Due(row, m)
    PROVE  CurrentUnlessFailed(row, m)
  <1>1. ~Holds(todo, row, Version(row, m))
    <2>1. Len(<<>>) = 0
      BY EmptySeq
    <2> QED
      BY <2>1 DEF Holds, Quiet
  <1> QED
    BY <1>1 DEF Due, CurrentUnlessFailed, Quiet

-----------------------------------------------------------------------------
(* The job's state is well-formed, and no more writes than max_inflight    *)
(* are unanswered.                                                         *)
THEOREM ConsumerTypeCorrect == Spec => []TypeOK
  BY Invariance, PTL DEF Inv, WriteInv, TypeInv

(* Whenever nothing is in flight every position, raw fill and closed       *)
(* bucket is in its table as the engine holds it, unless the very write    *)
(* of that value failed: whatever the order in which writes completed, and *)
(* whatever a former run left or the store still applies of it.            *)
THEOREM PositionsWrittenThrough == Spec => []WriteThroughCurrent
  <1>1. Inv => WriteThroughCurrent
    BY QuietDue DEF Inv, WrittenThrough, WriteThroughCurrent
  <1> QED
    BY <1>1, Invariance, PTL

(* Whenever nothing is in flight wallets and open buckets are in their     *)
(* tables as of the last flush, unless that write failed.                  *)
THEOREM WalletsAsFlushed == Spec => []FlushedCurrent
  <1>1. Inv => FlushedCurrent
    BY QuietDue DEF Inv, Flushed, FlushedCurrent
  <1> QED
    BY <1>1, Invariance, PTL

(* A run that ends without errors leaves every row at its final value,     *)
(* after any number of runs that died half-way.                            *)
THEOREM ReplayIsIdempotent == Spec => []FinalTablesExact
  <1>1. ASSUME Inv, pc = "done", failed = {}, NEW row \in Rows
        PROVE  table[row].version = Version(row, Len(Stream))
    <2>1. Quiet /\ pos = Len(Stream) /\ flushedAt = Len(Stream)
      BY <1>1 DEF Inv, WriteInv, Times, Quiet
    <2>2. PICK i \in 1..Len(Stream) : row \in RowsOf(i)
      BY StreamAssumption DEF Rows
    <2>3. Due(row, Len(Stream))
      BY <1>1, <2>1, <2>2 DEF Inv, WrittenThrough, Flushed, RowsOf
    <2> QED
      BY <1>1, <2>1, <2>3, QuietDue DEF CurrentUnlessFailed
  <1>2. Inv => FinalTablesExact
    BY <1>1 DEF FinalTablesExact
  <1> QED
    BY <1>2, Invariance, PTL

(* Within a run no row it has written goes back to an older value in what  *)
(* the replicas come to hold, in whatever order its writes complete, time  *)
(* out or are applied late.                                                *)
THEOREM TablesDoNotRegress == Spec => RowsNeverRegress
  <1>1. ASSUME Inv, [Next]_vars, NEW row \in Rows, table[row].ts > runStart
        PROVE  table'[row].version >= table[row].version
    <2>1. TypeInv /\ Times /\ InTimeOrder
      BY <1>1 DEF Inv, WriteInv
    <2>2. ASSUME NEW w \in inflight \cup limbo, table' = Upsert(w)
          PROVE  table'[row].version >= table[row].version
      <3>1. w \in Writes /\ w \in Told /\ w.ts <= clock
        BY <2>1 DEF TypeInv, TypeOK, Told, Times
      <3>2. \/ table'[row] = table[row]
            \/ /\ row = w.row /\ w.ts > table[row].ts
               /\ table'[row].version = w.version
        BY <2>1, <2>2, <3>1, UpsertFacts
      <3>3. /\ Cell(row) \in Told /\ Cell(row).row = row /\ Cell(row).ts = table[row].ts
            /\ Cell(row).version = table[row].version /\ table[row].version \in Nat
            /\ table[row].ts \in Nat /\ runStart \in Nat /\ w.ts \in Nat /\ w.version \in Nat
        BY <2>1, <3>1, TypeFacts, WriteRecord
      <3>4. CASE row = w.row /\ w.ts > table[row].ts /\ table'[row].version = w.version
        <4>1. w.ts > runStart /\ Cell(row).ts <= w.ts
          BY <1>1, <3>3, <3>4
        <4>2. Cell(row).version <= w.version
          BY <1>1, <2>1, <3>1, <3>3, <3>4, <4>1 DEF InTimeOrder
        <4> QED
          BY <3>3, <3>4, <4>2
      <3> QED
        BY <3>2, <3>3, <3>4
    <2>3. CASE table' = table
      BY <2>1, <2>3, TypeFacts
    <2>4. table' = table \/ \E w \in inflight \cup limbo : table' = Upsert(w)
      BY <1>1 DEF Next, Job, NextFill, FinalFlush, Issue, Drained, Answer, Ack, Fail, LateApply,
                  CrashAndRestart, Terminated, vars, storeVars
    <2> QED
      BY <2>2, <2>3, <2>4
  <1>2. Inv /\ [Next]_vars =>
            \A row \in Rows :
                crashes' = crashes /\ table[row].ts > runStart =>
                    table'[row].version >= table[row].version
    BY <1>1
  <1> QED
    BY <1>2, Invariance, PTL DEF Spec, RowsNeverRegress
=============================================================================
