--------------------------- MODULE Serving_proofs ---------------------------
(***************************************************************************)
(* Theorems about what a score is computed from, for any stream of fills,  *)
(* flush times and number of writes in flight, of crashes and of failed    *)
(* requests, the TRUNCATE among them, which the store may execute later:   *)
(* no row of a former run once the table was cleared, and no row older     *)
(* than what was settled when the score began.                             *)
(***************************************************************************)
EXTENDS Serving, FiniteSetTheorems, SequenceTheorems, WellFoundedInduction, TLAPS

Writes(runs) == [win : Windows, run : runs, upto : 1..Len(Stream)]

TypeInv ==
    /\ pc \in {"starting", "run", "drain", "done"}
    /\ run \in Nat \ {0} /\ n \in 0..Len(Stream)
    /\ todo \in Seq(Writes({run}))
    /\ inflight \in SUBSET Writes({run}) /\ acked \in SUBSET Writes({run})
    /\ lost \in SUBSET Writes(1..run) /\ settled \in SUBSET Writes(1..run)
    /\ pending \in Nat
    /\ overtaken \in SUBSET Writes({run}) /\ remnants \in SUBSET Writes(1..run)
    /\ leftover \in SUBSET Writes(1..run)
    /\ truncated \in BOOLEAN
    /\ reading \in Seq(SUBSET Writes(1..run)) /\ Len(reading) <= Len(Order)
    /\ floor \in [run : 1..run, upto : 0..Len(Stream)]

(* A write given up on is of this run, or was on its way when a former run *)
(* died; once the table is cleared the same holds of every settled write,  *)
(* and of what a late TRUNCATE leaves of the table.                        *)
(* A run that is only starting has written nothing.                        *)
RunsTold ==
    /\ \A w \in lost : w.run = run \/ w \in leftover
    /\ truncated => \A w \in settled \cup remnants : w.run = run \/ w \in leftover
    /\ pc = "starting" =>
          /\ ~truncated /\ n = 0 /\ todo = <<>> /\ inflight = {} /\ acked = {}
          /\ \A w \in lost \cup settled : w.run < run

(* w is as fresh as v: the same write, of a later bucket, or over it.      *)
AtLeast(w, v) == w = v \/ Bucket(w) > Bucket(v) \/ Overwrites(w, v)

(* What was settled when the score began, or something fresher, still is,  *)
(* unless a late TRUNCATE ended the floor.                                 *)
FloorSettled ==
    floor.run = run /\ floor.upto > 0 =>
        /\ pc # "starting"
        /\ \A i \in DOMAIN Order : \E v \in settled :
              v.win = Order[i] /\ AtLeast(v, Row(Order[i], floor.upto))

Inv == TypeInv /\ RunsTold /\ FloorSettled /\ FreshAsFlushed

-----------------------------------------------------------------------------
LEMMA LeastNatural ==
    ASSUME NEW S \in SUBSET Nat, S # {}
    PROVE  \E s \in S : \A x \in S : s <= x
  <1> DEFINE T == {0..x : x \in S}
  <1>1. T \in SUBSET FiniteSubsetsOf(Nat) /\ T # {}
    <2>1. \A x \in S : IsFiniteSet(0..x) /\ 0..x \in SUBSET Nat
      BY FS_Interval
    <2> QED
      BY <2>1 DEF FiniteSubsetsOf
  <1>2. IsWellFoundedOn(StrictSubsetOrdering(Nat), FiniteSubsetsOf(Nat))
    BY FS_StrictSubsetOrderingWellFounded
  <1>3. PICK t \in T : \A u \in T : ~(<<u, t>> \in StrictSubsetOrdering(Nat))
    <2> HIDE DEF T
    <2> QED
      BY <1>1, <1>2, WFMin
  <1>4. PICK s \in S : t = 0..s
    BY <1>3
  <1>5. ASSUME NEW y \in S, y < s PROVE FALSE
    <2>1. 0..y \in SUBSET Nat /\ 0..s \in SUBSET Nat /\ 0..y \subseteq 0..s
      BY <1>5
    <2>2. s \in 0..s /\ s \notin 0..y
      BY <1>5
    <2>3. 0..y # 0..s
      BY <2>2
    <2>4. <<0..y, 0..s>> \in StrictSubsetOrdering(Nat)
      BY <2>1, <2>3, Zenon DEF StrictSubsetOrdering
    <2> QED
      BY <1>3, <1>4, <2>4
  <1> QED
    BY <1>5

LEMMA GreatestUpTo ==
    ASSUME NEW b \in Nat, NEW S \in SUBSET (0..b), S # {}
    PROVE  \E s \in S : \A x \in S : s >= x
  <1> DEFINE D == {b - x : x \in S}
  <1>0. \A x \in S : x \in Int /\ b - x \in Nat
    OBVIOUS
  <1>1. D \in SUBSET Nat /\ D # {}
    BY <1>0
  <1>2. PICK d \in D : \A e \in D : d <= e
    <2> HIDE DEF D
    <2> QED
      BY <1>1, LeastNatural
  <1>3. PICK s \in S : d = b - s
    BY <1>2
  <1>4. ASSUME NEW x \in S PROVE s >= x
    <2>1. b - s <= b - x
      BY <1>2, <1>3
    <2> QED
      BY <1>0, <2>1
  <1> QED
    BY <1>4

-----------------------------------------------------------------------------
(* Rows and buckets.                                                       *)
LEMMA StreamFacts ==
    /\ Len(Stream) \in Nat \ {0} /\ DOMAIN Stream = 1..Len(Stream)
    /\ \A i \in 1..Len(Stream) : Stream[i].sec \in Nat
    /\ Len(Order) \in Nat /\ DOMAIN Order = 1..Len(Order)
    /\ \A i \in 1..Len(Order) : Order[i] \in Windows
  <1>1. Stream \in Seq([sec : Nat, volume : Nat]) /\ Stream # <<>> /\ Order \in Seq(Windows)
    BY ServingAssumption
  <1>2. \A i \in 1..Len(Stream) : Stream[i] \in [sec : Nat, volume : Nat]
    BY <1>1, ElementOfSeq
  <1> QED
    BY <1>1, <1>2

LEMMA BucketMonotone ==
    ASSUME NEW win \in Windows, NEW i \in 1..Len(Stream), NEW j \in 1..Len(Stream)
    PROVE  /\ BucketAt(win, i) \in Nat
           /\ i <= j => BucketAt(win, i) <= BucketAt(win, j)
  <1>1. Stream[i].sec \in Nat /\ Stream[j].sec \in Nat
    BY StreamFacts
  <1>2. i <= j => Stream[i].sec <= Stream[j].sec
    <2>1. \A k, l \in 1..Len(Stream) : k < l => Stream[k].sec <= Stream[l].sec
      BY ServingAssumption, StreamFacts
    <2>2. i = j \/ i < j \/ j < i
      OBVIOUS
    <2> QED
      BY <1>1, <2>1, <2>2
  <1> DEFINE s == Stream[i].sec
             t == Stream[j].sec
  <1>3. s \in Nat /\ t \in Nat /\ (i <= j => s <= t)
    BY <1>1, <1>2
  <1> HIDE DEF s, t
  <1>4. /\ (s \div Size(win)) * Size(win) \in Nat
        /\ s <= t => (s \div Size(win)) * Size(win) <= (t \div Size(win)) * Size(win)
    BY <1>3 DEF Size, Windows
  <1> QED
    BY <1>3, <1>4 DEF BucketAt, s, t

LEMMA UpToFinite ==
    ASSUME NEW L \in Nat, NEW S \in SUBSET (1..L)
    PROVE  Cardinality(S) \in Nat /\ Cardinality(S) <= L
  <1>1. 1 \in Int /\ L \in Int
    OBVIOUS
  <1>2. IsFiniteSet(1..L) /\ Cardinality(1..L) = IF 1 > L THEN 0 ELSE L - 1 + 1
    BY <1>1, FS_Interval, Zenon
  <1>3. S \subseteq 1..L /\ Cardinality(1..L) = L
    BY <1>2
  <1>4. IsFiniteSet(S) /\ Cardinality(S) <= Cardinality(1..L)
    BY <1>2, <1>3, FS_Subset, Zenon
  <1>5. Cardinality(S) \in Nat
    BY <1>4, FS_CardinalityType, Zenon
  <1> QED
    BY <1>3, <1>4, <1>5

LEMMA FirstOnes ==
    ASSUME NEW W, NEW s, NEW c \in Nat, \A i \in 1..c : s[i] \in W
    PROVE  SubSeq(s, 1, c) \in Seq(W)
  <1>1. 1 \in Int /\ c \in Int
    OBVIOUS
  <1> QED
    BY <1>1, SubSeqProperties, Zenon

LEMMA FlushFacts ==
    ASSUME TypeInv, NEW u \in 1..Len(Stream)
    PROVE  FlushRows(u) \in Seq(Writes({run})) /\ Len(FlushRows(u)) = Len(Order)
  BY StreamFacts DEF FlushRows, Row, Writes, TypeInv

LEMMA ClosedFacts ==
    ASSUME TypeInv
    PROVE  ClosedRows \in Seq(Writes({run}))
  <1>1. CASE n = 0
    BY <1>1 DEF ClosedRows
  <1>2. CASE n # 0
    <2> DEFINE c == Cardinality(Closing)
    <2>1. Closing \subseteq 1..Len(Order)
      BY StreamFacts DEF Closing
    <2>2. c \in Nat /\ c <= Len(Order)
      BY <2>1, UpToFinite, StreamFacts
    <2>3. n \in 1..Len(Stream)
      BY <1>2 DEF TypeInv
    <2>4. FlushRows(n) \in Seq(Writes({run})) /\ Len(FlushRows(n)) = Len(Order)
      BY <2>3, FlushFacts
    <2>5. \A i \in 1..c : FlushRows(n)[i] \in Writes({run})
      BY <2>2, <2>4, StreamFacts, ElementOfSeq
    <2> HIDE DEF c
    <2>6. SubSeq(FlushRows(n), 1, c) \in Seq(Writes({run}))
      BY <2>2, <2>5, FirstOnes
    <2> QED
      BY <1>2, <2>6 DEF ClosedRows, c
  <1> QED
    BY <1>1, <1>2

-----------------------------------------------------------------------------
(* The order of writes.                                                    *)
LEMMA WriteFacts ==
    ASSUME NEW r \in Nat \ {0}, NEW w \in Writes(1..r)
    PROVE  /\ w.win \in Windows /\ w.run \in 1..r /\ w.upto \in 1..Len(Stream)
           /\ Bucket(w) \in Nat
  <1>1. w.win \in Windows /\ w.run \in 1..r /\ w.upto \in 1..Len(Stream)
    BY DEF Writes
  <1> QED
    BY <1>1, BucketMonotone DEF Bucket

LEMMA FresherStill ==
    ASSUME NEW r \in Nat \ {0}, NEW w \in Writes(1..r), NEW v \in Writes(1..r),
           NEW f \in Writes(1..r), AtLeast(w, v), AtLeast(v, f)
    PROVE  AtLeast(w, f)
  BY WriteFacts DEF AtLeast, Overwrites

LEMMA FirstRowFacts ==
    ASSUME NEW r \in Nat \ {0}, NEW win \in Windows, NEW S \in SUBSET Writes(1..r),
           S # {}, \A w \in S : w.win = win
    PROVE  \E w \in FirstRow(S) : \A v \in S : AtLeast(w, v)
  <1>1. \A w \in S : /\ w.run \in 1..r /\ w.upto \in 1..Len(Stream)
                     /\ Bucket(w) = BucketAt(win, w.upto) /\ Bucket(w) \in Nat
    BY WriteFacts DEF Bucket
  <1>2. PICK m \in S : \A v \in S : Bucket(m) >= Bucket(v)
    <2> DEFINE U == {w.upto : w \in S}
    <2>1. U \in SUBSET (0..Len(Stream)) /\ U # {}
      BY <1>1
    <2>2. PICK u \in U : \A x \in U : u >= x
      <3> HIDE DEF U
      <3> QED
        BY <2>1, GreatestUpTo, StreamFacts
    <2>3. PICK m \in S : m.upto = u
      BY <2>2
    <2>4. \A v \in S : v.upto <= m.upto
      BY <2>2, <2>3
    <2>5. \A v \in S : BucketAt(win, v.upto) <= BucketAt(win, m.upto)
      BY <1>1, <2>4, BucketMonotone
    <2> QED
      BY <1>1, <2>3, <2>5
  <1>3. FirstBucket(S) = Bucket(m)
    <2> DEFINE B == {Bucket(w) : w \in S}
    <2>1. B \in SUBSET Nat /\ Bucket(m) \in B /\ \A b \in B : Bucket(m) >= b
      BY <1>1, <1>2
    <2> HIDE DEF B
    <2>2. Max(B) \in B /\ \A b \in B : Max(B) >= b
      BY <2>1 DEF Max
    <2>3. Max(B) = Bucket(m)
      <3> DEFINE x == Max(B)
                 y == Bucket(m)
      <3>1. x \in Nat /\ y \in Nat /\ x >= y /\ y >= x
        BY <2>1, <2>2
      <3> HIDE DEF x, y
      <3>2. x = y
        BY <3>1
      <3> QED
        BY <3>2 DEF x, y
    <2> QED
      BY <2>3 DEF FirstBucket, B
  <1> DEFINE F == {w \in S : Bucket(w) = FirstBucket(S)}
  <1>4. PICK a \in F : \A v \in F : a.run >= v.run
    <2> DEFINE R == {w.run : w \in F}
    <2>1. R \in SUBSET (0..r) /\ R # {}
      BY <1>1, <1>2, <1>3
    <2>2. PICK x \in R : \A y \in R : x >= y
      <3> HIDE DEF R
      <3> QED
        BY <2>1, GreatestUpTo
    <2> QED
      BY <2>2
  <1>5. PICK w \in F : w.run = a.run /\ \A v \in F : v.run = a.run => w.upto >= v.upto
    <2> DEFINE U == {v.upto : v \in {x \in F : x.run = a.run}}
    <2>1. U \in SUBSET (0..Len(Stream)) /\ U # {}
      BY <1>1, <1>4
    <2>2. PICK u \in U : \A x \in U : u >= x
      <3> HIDE DEF U
      <3> QED
        BY <2>1, GreatestUpTo, StreamFacts
    <2> QED
      BY <2>2
  <1>6. \A v \in S : ~Overwrites(v, w)
    <2> SUFFICES ASSUME NEW v \in S, Overwrites(v, w) PROVE FALSE
      OBVIOUS
    <2>1. v \in F
      BY <1>5 DEF Overwrites
    <2> QED
      BY <1>1, <1>4, <1>5, <2>1 DEF Overwrites
  <1>7. w \in FirstRow(S)
    BY <1>5, <1>6 DEF FirstRow, Current
  <1>8. ASSUME NEW v \in S PROVE AtLeast(w, v)
    <2>1. CASE v \notin F
      BY <1>1, <1>2, <1>3, <1>5, <2>1 DEF AtLeast
    <2>2. CASE v \in F
      <3>1. v.win = w.win /\ Bucket(w) = Bucket(v)
        BY <1>5, <2>2
      <3>2. v.run < w.run \/ (v.run = w.run /\ v.upto <= w.upto)
        BY <1>1, <1>4, <1>5, <2>2
      <3>3. v.run = w.run /\ v.upto = w.upto => v = w
        BY <3>1, <1>5 DEF Writes
      <3> QED
        BY <1>1, <1>5, <3>1, <3>2, <3>3 DEF AtLeast, Overwrites
    <2> QED
      BY <2>1, <2>2
  <1> QED
    BY <1>7, <1>8

LEMMA FirstRowOf == \A S : FirstRow(S) \subseteq S
  BY DEF FirstRow, Current

LEMMA CurrentOf == \A S, T : Current(S, T) \subseteq S
  BY DEF Current
-----------------------------------------------------------------------------
(* What the store holds.                                                   *)
LEMMA SettleFacts ==
    ASSUME NEW w, Settle(w)
    PROVE  settled' \subseteq settled \cup {w}
  BY CurrentOf DEF Settle

(* A settled write stays, or what overwrites it is settled.                *)
LEMMA SettleKeeps ==
    ASSUME NEW r \in Nat \ {0}, settled \in SUBSET Writes(1..r),
           NEW w \in Writes(1..r), Settle(w), NEW v \in settled
    PROVE  \E u \in settled' : u.win = v.win /\ AtLeast(u, v)
  <1>1. CASE ~Overwrites(w, v)
    <2>1. v \in settled'
      BY <1>1 DEF Settle, Current
    <2> QED
      BY <2>1 DEF AtLeast
  <1>2. CASE Overwrites(w, v) /\ \A x \in settled : ~Overwrites(x, w)
    <2>1. w \in settled'
      BY <1>2 DEF Settle, Current
    <2> QED
      BY <1>2, <2>1 DEF AtLeast, Overwrites
  <1>3. CASE Overwrites(w, v) /\ \E x \in settled : Overwrites(x, w)
    <2>1. PICK x \in settled : Overwrites(x, w)
      BY <1>3
    <2>2. x \in Writes(1..r) /\ v \in Writes(1..r)
      OBVIOUS
    <2>3. ~Overwrites(w, x) /\ Overwrites(x, v)
      BY <1>3, <2>1, <2>2, WriteFacts DEF Overwrites
    <2>4. x \in settled'
      BY <2>3 DEF Settle, Current
    <2> QED
      BY <2>3, <2>4 DEF AtLeast, Overwrites
  <1> QED
    BY <1>1, <1>2, <1>3

(* How far this run's rows are settled.                                    *)
LEMMA SettledFlushFacts ==
    ASSUME TypeInv, Order # <<>>
    PROVE  /\ SettledFlush.run = run
           /\ SettledFlush.upto \in 0..Len(Stream)
           /\ \A i \in DOMAIN Order : SettledFlush.upto > 0 =>
                 \E v \in settled :
                    v.win = Order[i] /\ v.run = run /\ v.upto >= SettledFlush.upto
  <1> DEFINE Uptos(win) ==
                 {0} \cup {w.upto : w \in {v \in WritesOf(win, settled) : v.run = run}}
             Tops == {Max(Uptos(win)) : win \in ToSet(Order)}
  <1>1. \A w \in settled : w.upto \in 1..Len(Stream)
    BY DEF TypeInv, Writes
  <1>2. ASSUME NEW win
        PROVE  Max(Uptos(win)) \in Uptos(win) /\ Max(Uptos(win)) \in 0..Len(Stream)
    <2> DEFINE U == Uptos(win)
    <2>1. U \in SUBSET (0..Len(Stream)) /\ U # {}
      BY <1>1, StreamFacts DEF WritesOf
    <2> HIDE DEF U
    <2>2. \E s \in U : \A x \in U : s >= x
      BY <2>1, GreatestUpTo, StreamFacts
    <2>3. Max(U) \in U
      BY <2>2 DEF Max
    <2>4. Max(U) \in 0..Len(Stream)
      BY <2>1, <2>3
    <2> QED
      BY <2>3, <2>4 DEF U
  <1>3. SettledFlush = [run |-> run, upto |-> Min(Tops)]
    BY DEF SettledFlush
  <1>4. Tops \in SUBSET Nat /\ Tops # {} /\ \A x \in Tops : x \in 0..Len(Stream)
    <2>1. Order[1] \in ToSet(Order)
      <3>1. Order \in Seq(Windows)
        BY ServingAssumption
      <3>2. 1 \in DOMAIN Order
        BY <3>1, StreamFacts
      <3> QED
        BY <3>2 DEF ToSet
    <2> HIDE DEF Uptos
    <2>2. \A win : Max(Uptos(win)) \in 0..Len(Stream)
      BY <1>2
    <2>3. \A x \in Tops : x \in 0..Len(Stream)
      BY <2>2
    <2>4. Max(Uptos(Order[1])) \in Tops
      BY <2>1
    <2> QED
      BY <2>3, <2>4, StreamFacts
  <1>5. Min(Tops) \in Tops /\ \A x \in Tops : Min(Tops) <= x
    <2> HIDE DEF Tops
    <2>1. \E s \in Tops : \A x \in Tops : s <= x
      BY <1>4, LeastNatural
    <2> QED
      BY <2>1 DEF Min
  <1>6. ASSUME NEW i \in DOMAIN Order, Min(Tops) > 0
        PROVE  \E v \in settled : v.win = Order[i] /\ v.run = run /\ v.upto >= Min(Tops)
    <2>1. Order[i] \in ToSet(Order)
      BY DEF ToSet
    <2>2. Min(Tops) <= Max(Uptos(Order[i])) /\ Min(Tops) \in Nat
      BY <1>4, <1>5, <2>1
    <2>3. Max(Uptos(Order[i])) \in Uptos(Order[i]) /\ Max(Uptos(Order[i])) \in Nat
      <3> HIDE DEF Uptos
      <3> QED
        BY <1>2, StreamFacts
    <2> DEFINE top == Max(Uptos(Order[i]))
    <2>4. top # 0 /\ top >= Min(Tops)
      BY <1>6, <2>2, <2>3
    <2>5. \E v \in WritesOf(Order[i], settled) : v.run = run /\ v.upto = top
      BY <2>3, <2>4
    <2> HIDE DEF top, Tops
    <2> QED
      BY <2>4, <2>5 DEF WritesOf
  <1> HIDE DEF Tops
  <1> QED
    BY <1>3, <1>4, <1>5, <1>6

(* A later write of a run is as fresh as an earlier one of the same window. *)
LEMMA LaterIsFresher ==
    ASSUME NEW r \in Nat \ {0}, NEW v \in Writes(1..r), NEW f \in Writes(1..r),
           v.win = f.win, v.run = f.run, v.upto >= f.upto
    PROVE  AtLeast(v, f)
  <1>1. /\ v.win \in Windows /\ v.upto \in 1..Len(Stream) /\ f.upto \in 1..Len(Stream)
        /\ Bucket(v) \in Nat /\ Bucket(f) \in Nat /\ v.run \in 1..r
    BY WriteFacts
  <1>2. Bucket(v) >= Bucket(f)
    BY <1>1, BucketMonotone DEF Bucket
  <1>3. v.upto = f.upto => v = f
    BY DEF Writes
  <1> QED
    BY <1>1, <1>2, <1>3 DEF AtLeast, Overwrites
-----------------------------------------------------------------------------
(* Every step keeps the invariant.                                         *)
LEMMA OwnWrites ==
    ASSUME TypeInv
    PROVE  /\ Writes({run}) \subseteq Writes(1..run)
           /\ inflight \cup acked \cup lost \cup settled \cup remnants
                \subseteq Writes(1..run)
  BY DEF TypeInv, Writes

LEMMA SeenRows ==
    ASSUME TypeInv, NEW win,
           NEW seen \in SUBSET WritesOf(win, inflight \cup acked \cup lost \cup remnants)
    PROVE  /\ WritesOf(win, settled) \cup seen \in SUBSET Writes(1..run)
           /\ \A w \in WritesOf(win, settled) \cup seen : w.win = win
           /\ FirstRow(WritesOf(win, settled) \cup seen) \in SUBSET Writes(1..run)
  BY OwnWrites, FirstRowOf DEF WritesOf

LEMMA NoScoreYet ==
    ASSUME NEW r \in Nat \ {0}
    PROVE  /\ NoFlush \in [run : 1..r, upto : 0..Len(Stream)]
           /\ <<>> \in Seq(SUBSET Writes(1..r)) /\ Len(<<>>) <= Len(Order)
  <1>1. 0 \in 0..Len(Stream) /\ 1 \in 1..r /\ 0 <= Len(Order)
    BY StreamFacts
  <1>2. NoFlush \in [run : 1..r, upto : 0..Len(Stream)]
    BY <1>1 DEF NoFlush
  <1> QED
    BY <1>1, <1>2, EmptySeq

LEMMA TypeInit == Init => TypeInv
  <1> SUFFICES ASSUME Init PROVE TypeInv
    OBVIOUS
  <1>1. run \in Nat \ {0} /\ n \in 0..Len(Stream) /\ pc = "starting" /\ truncated = FALSE
    BY StreamFacts DEF Init
  <1>2. floor \in [run : 1..run, upto : 0..Len(Stream)]
    BY <1>1, NoScoreYet DEF Init
  <1>3. reading \in Seq(SUBSET Writes(1..run)) /\ Len(reading) <= Len(Order)
    BY <1>1, NoScoreYet DEF Init
  <1>4. todo \in Seq(Writes({run}))
    BY EmptySeq DEF Init
  <1>5. /\ inflight = {} /\ acked = {} /\ lost = {} /\ settled = {} /\ leftover = {}
        /\ pending = 0 /\ overtaken = {} /\ remnants = {}
    BY DEF Init
  <1> QED
    BY <1>1, <1>2, <1>3, <1>4, <1>5 DEF TypeInv

LEMMA TypeStep == TypeInv /\ [Next]_vars => TypeInv'
  <1> SUFFICES ASSUME TypeInv, [Next]_vars PROVE TypeInv'
    OBVIOUS
  <1> USE DEF TypeInv
  <1>1. CASE Truncate
    <2>1. /\ settled' \subseteq settled /\ remnants' \subseteq remnants
          /\ pc' = "run" /\ truncated' \in BOOLEAN /\ pending' \in Nat
      <3>1. CASE Cleared /\ truncated' = TRUE /\ pending' = pending
        BY <1>1, <3>1 DEF Truncate, Cleared
      <3>2. CASE pending' = pending + 1 /\ UNCHANGED <<settled, remnants, truncated>>
        BY <1>1, <3>2 DEF Truncate
      <3> QED
        BY <1>1, <3>1, <3>2 DEF Truncate
    <2>2. UNCHANGED <<run, n, todo, inflight, acked, lost, overtaken, leftover, reading, floor>>
      BY <1>1 DEF Truncate, scorer
    <2> QED
      BY <2>1, <2>2
  <1>2. CASE ApplyFill
    <2>1. n + 1 \in 1..Len(Stream) /\ n' = n + 1 /\ run' = run
      BY <1>2, StreamFacts DEF ApplyFill
    <2>2. ClosedRows \in Seq(Writes({run})) /\ FlushRows(n') \in Seq(Writes({run}))
      BY <2>1, ClosedFacts, FlushFacts
    <2>3. todo' \in Seq(Writes({run}))
      BY <1>2, <2>2, ConcatProperties, EmptySeq DEF ApplyFill
    <2>4. UNCHANGED <<pc, run, truncated, inflight, acked, lost, settled, pending,
                      overtaken, remnants, leftover, reading, floor>>
      BY <1>2 DEF ApplyFill, writes, scorer, wiping
    <2>5. n' \in 0..Len(Stream)
      BY <2>1, StreamFacts
    <2>6. todo' \in Seq(Writes({run'}))
      BY <2>1, <2>3
    <2> QED
      BY <2>4, <2>5, <2>6
  <1>3. CASE FinalFlush
    <2>1. n \in 1..Len(Stream)
      BY <1>3, StreamFacts DEF FinalFlush
    <2>2. FlushRows(n) \in Seq(Writes({run}))
      BY <2>1, FlushFacts
    <2>3. /\ UNCHANGED <<run, n, truncated, inflight, acked, lost, settled,
                         pending, overtaken, remnants, leftover, reading, floor>>
          /\ pc' = "drain" /\ todo' = FlushRows(n)
      BY <1>3 DEF FinalFlush, writes, scorer, wiping
    <2>4. todo' \in Seq(Writes({run'}))
      BY <2>2, <2>3
    <2> QED
      BY <2>3, <2>4
  <1>4. CASE Issue
    <2>1. /\ UNCHANGED <<pc, run, n, truncated, acked, lost, settled, pending,
                         overtaken, remnants, leftover, reading, floor>>
          /\ todo # <<>> /\ inflight' = inflight \cup {Head(todo)} /\ todo' = Tail(todo)
      BY <1>4 DEF Issue, scorer, wiping
    <2>2. Head(todo) \in Writes({run}) /\ Tail(todo) \in Seq(Writes({run}))
      BY <2>1, HeadTailProperties
    <2>3. inflight' \in SUBSET Writes({run'}) /\ todo' \in Seq(Writes({run'}))
      BY <2>1, <2>2
    <2> QED
      BY <2>1, <2>3
  <1>5. CASE Drained
    BY <1>5 DEF Drained, writes, scorer, wiping
  <1>6. ASSUME NEW w \in inflight, Ack(w) PROVE TypeInv'
    <2>1. w \in Writes({run}) /\ w \in Writes(1..run)
      BY OwnWrites
    <2>2. /\ UNCHANGED <<pc, run, n, todo, truncated, leftover, reading, floor>>
          /\ inflight' \subseteq inflight
      BY <1>6 DEF Ack, ingest, scorer
    <2>3. /\ settled' \subseteq settled \cup {w} /\ acked' \subseteq acked \cup {w}
          /\ lost' \subseteq lost \cup {w} /\ overtaken' \subseteq overtaken
          /\ UNCHANGED <<pending, remnants>>
      BY <1>6, SettleFacts DEF Ack
    <2>4. /\ settled' \in SUBSET Writes(1..run) /\ acked' \in SUBSET Writes({run})
          /\ lost' \in SUBSET Writes(1..run) /\ inflight' \in SUBSET Writes({run})
          /\ overtaken' \in SUBSET Writes({run})
      BY <2>1, <2>2, <2>3
    <2> QED
      BY <2>2, <2>3, <2>4
  <1>7. ASSUME NEW w \in inflight, Fail(w) PROVE TypeInv'
    <2>1. w \in Writes(1..run)
      BY OwnWrites
    <2> QED
      BY <1>7, <2>1 DEF Fail, ingest, scorer
  <1>8. ASSUME NEW w \in acked \cup lost, Replicate(w) \/ ApplyLate(w) PROVE TypeInv'
    <2>1. w \in Writes(1..run)
      BY OwnWrites
    <2> QED
      BY <1>8, <2>1, SettleFacts DEF Replicate, ApplyLate, ingest, scorer, wiping
  <1>9. CASE ReadWindow
    <2>1. PICK row \in SUBSET Writes(1..run) : reading' = Append(reading, row)
      <3> DEFINE win == Order[Len(reading) + 1]
      <3>1. PICK seen \in SUBSET WritesOf(win, inflight \cup acked \cup lost \cup remnants) :
                reading' = Append(reading, FirstRow(WritesOf(win, settled) \cup seen))
        BY <1>9 DEF ReadWindow
      <3> HIDE DEF win
      <3>2. FirstRow(WritesOf(win, settled) \cup seen) \in SUBSET Writes(1..run)
        BY SeenRows
      <3> QED
        BY <3>1, <3>2
    <2>3. Len(reading) \in Nat /\ Len(reading) < Len(Order) /\ Order # <<>>
      BY <1>9, StreamFacts DEF ReadWindow
    <2>4. /\ reading' \in Seq(SUBSET Writes(1..run))
          /\ Len(reading') <= Len(Order)
      BY <2>1, <2>3, StreamFacts
    <2>5. floor' \in [run : 1..run, upto : 0..Len(Stream)]
      <3>1. SettledFlush \in [run : 1..run, upto : 0..Len(Stream)]
        <4>1. SettledFlush.run = run /\ SettledFlush.upto \in 0..Len(Stream)
          BY <2>3, SettledFlushFacts, Zenon
        <4>2. SettledFlush = [run |-> SettledFlush.run, upto |-> SettledFlush.upto]
          BY DEF SettledFlush
        <4> QED
          BY <4>1, <4>2
      <3> QED
        BY <1>9, <3>1 DEF ReadWindow
    <2> QED
      BY <1>9, <2>4, <2>5 DEF ReadWindow, ingest, writes, wiping
  <1>10. CASE GiveScore
    BY <1>10, NoScoreYet DEF GiveScore, ingest, writes, wiping
  <1>11. CASE CrashAndRestart
    <2>1. /\ run' = run + 1
          /\ Writes({run}) \subseteq Writes(1..run')
          /\ Writes(1..run) \subseteq Writes(1..run')
      BY <1>11 DEF CrashAndRestart, Writes
    <2>2. reading' \in Seq(SUBSET Writes(1..run'))
      <3>1. SUBSET Writes(1..run) \subseteq SUBSET Writes(1..run')
        BY <2>1
      <3>2. reading \in Seq(SUBSET Writes(1..run'))
        BY <3>1, SeqMonotonic
      <3> QED
        BY <1>11, <3>2 DEF CrashAndRestart, scorer
    <2>3. floor' \in [run : 1..run', upto : 0..Len(Stream)]
      BY <1>11, <2>1 DEF CrashAndRestart, scorer
    <2>4. lost' \in SUBSET Writes(1..run')
      BY <1>11, <2>1, OwnWrites DEF CrashAndRestart
    <2>5. /\ settled' \in SUBSET Writes(1..run') /\ leftover' \in SUBSET Writes(1..run')
          /\ remnants' \in SUBSET Writes(1..run')
      BY <1>11, <2>1, <2>4 DEF CrashAndRestart
    <2>6. /\ pc' = "starting" /\ run' \in Nat \ {0} /\ n' \in 0..Len(Stream)
          /\ todo' = <<>> /\ inflight' = {} /\ acked' = {} /\ truncated' = FALSE
          /\ pending' \in Nat /\ overtaken' = {} /\ Len(reading') <= Len(Order)
      BY <1>11, <2>1, StreamFacts DEF CrashAndRestart, scorer
    <2>7. todo' \in Seq(Writes({run'}))
      BY <2>6, EmptySeq
    <2> QED
      BY <2>2, <2>3, <2>4, <2>5, <2>6, <2>7
  <1>12. CASE ReadFails
    BY <1>12, NoScoreYet DEF ReadFails, ingest, writes, wiping
  <1>13. CASE LateTruncate
    <2>1. Writes({run}) \subseteq Writes(1..run)
      BY OwnWrites
    <2>2. /\ settled' = {} /\ acked' = {} /\ remnants' = remnants \cup settled
          /\ lost' = lost \cup acked /\ overtaken' = inflight /\ floor' = NoFlush
          /\ pending' \in Nat
          /\ UNCHANGED <<pc, run, n, todo, inflight, truncated, leftover, reading>>
      BY <1>13 DEF LateTruncate, ingest
    <2>3. floor' \in [run : 1..run, upto : 0..Len(Stream)]
      BY <2>2, NoScoreYet
    <2>4. lost' \in SUBSET Writes(1..run) /\ remnants' \in SUBSET Writes(1..run)
      BY <2>1, <2>2
    <2> QED
      BY <2>2, <2>3, <2>4
  <1>14. CASE UNCHANGED vars
    BY <1>14 DEF vars, ingest, writes, scorer, wiping
  <1> QED
    BY <1>1, <1>2, <1>3, <1>4, <1>5, <1>6, <1>7, <1>8, <1>9, <1>10, <1>11, <1>12, <1>13,
       <1>14 DEF Next, Ingest, Answer, Reader

LEMMA RunsStep == TypeInv /\ RunsTold /\ [Next]_vars => RunsTold'
  <1> SUFFICES ASSUME TypeInv, RunsTold, [Next]_vars PROVE RunsTold'
    OBVIOUS
  <1> USE DEF RunsTold
  <1>0. \A w \in inflight \cup acked : w.run = run
    BY DEF TypeInv, Writes
  <1>1. CASE Truncate
    BY <1>1 DEF Truncate, Cleared
  <1>2. CASE ApplyFill \/ FinalFlush \/ Drained
    BY <1>2 DEF ApplyFill, FinalFlush, Drained, writes, wiping
  <1>3. CASE Issue
    BY <1>3 DEF Issue, wiping
  <1>4. ASSUME NEW w \in inflight, Ack(w) PROVE RunsTold'
    <2>1. w.run = run /\ pc # "starting"
      BY <1>0
    <2>2. /\ settled' \subseteq settled \cup {w} /\ lost' \subseteq lost \cup {w}
          /\ UNCHANGED <<pc, run, truncated, leftover, remnants>>
      BY <1>4, SettleFacts DEF Ack, ingest
    <2> QED
      BY <2>1, <2>2
  <1>5. ASSUME NEW w \in inflight, Fail(w) PROVE RunsTold'
    <2>1. w.run = run /\ pc # "starting"
      BY <1>0
    <2> QED
      BY <1>5, <2>1 DEF Fail, ingest
  <1>6. ASSUME NEW w \in acked \cup lost, (w \in acked /\ Replicate(w)) \/ (w \in lost /\ ApplyLate(w))
        PROVE  RunsTold'
    <2>1. /\ w.run = run \/ w \in leftover
          /\ pc = "starting" => w.run < run /\ acked = {}
      BY <1>0
    <2>2. /\ settled' \subseteq settled \cup {w} /\ lost' \subseteq lost /\ acked' \subseteq acked
          /\ UNCHANGED <<pc, run, n, todo, inflight, truncated, leftover, remnants>>
      BY <1>6, SettleFacts DEF Replicate, ApplyLate, ingest, wiping
    <2> QED
      BY <2>1, <2>2
  <1>7. CASE ReadWindow \/ GiveScore \/ ReadFails
    BY <1>7 DEF ReadWindow, GiveScore, ReadFails, ingest, writes, wiping
  <1>8. CASE CrashAndRestart
    <2>1. \A w \in inflight \cup acked \cup lost \cup settled : w.run \in 1..run
      BY OwnWrites DEF Writes
    <2> QED
      BY <1>8, <2>1 DEF CrashAndRestart, TypeInv
  <1>9. CASE LateTruncate
    <2>1. /\ settled' = {} /\ acked' = {}
          /\ remnants' = remnants \cup settled /\ lost' = lost \cup acked
          /\ UNCHANGED <<pc, run, n, todo, inflight, truncated, leftover>>
      BY <1>9 DEF LateTruncate, ingest
    <2> QED
      BY <1>0, <2>1
  <1>10. CASE UNCHANGED vars
    BY <1>10 DEF vars, ingest, writes, wiping
  <1> QED
    BY <1>1, <1>2, <1>3, <1>4, <1>5, <1>6, <1>7, <1>8, <1>9, <1>10
       DEF Next, Ingest, Answer, Reader

LEMMA FlushedRow ==
    ASSUME TypeInv, NEW i \in DOMAIN Order, floor.upto > 0
    PROVE  /\ Row(Order[i], floor.upto) \in Writes(1..run)
           /\ Row(Order[i], floor.upto).win = Order[i]
           /\ Row(Order[i], floor.upto).run = run
           /\ Row(Order[i], floor.upto).upto = floor.upto
  <1>1. Order[i] \in Windows
    BY StreamFacts
  <1>2. floor.upto \in 1..Len(Stream) /\ run \in 1..run
    BY StreamFacts DEF TypeInv
  <1> QED
    BY <1>1, <1>2 DEF Row, Writes

(* The floor as it is taken.                                               *)
LEMMA FloorTaken ==
    ASSUME TypeInv, RunsTold, Order # <<>>, SettledFlush.upto > 0
    PROVE  /\ pc # "starting"
           /\ \A i \in DOMAIN Order : \E v \in settled :
                 v.win = Order[i] /\ AtLeast(v, Row(Order[i], SettledFlush.upto))
  <1> DEFINE u == SettledFlush.upto
  <1>1. /\ u \in 0..Len(Stream) /\ u > 0
        /\ \A i \in DOMAIN Order : \E v \in settled :
              v.win = Order[i] /\ v.run = run /\ v.upto >= u
    BY SettledFlushFacts
  <1> HIDE DEF u
  <1>2. pc # "starting"
    <2>1. 1 \in DOMAIN Order
      <3>1. Order \in Seq(Windows)
        BY ServingAssumption
      <3> QED
        BY <3>1, StreamFacts
    <2>2. PICK v \in settled : v.run = run
      BY <1>1, <2>1
    <2> QED
      BY <2>2 DEF RunsTold, TypeInv
  <1>3. ASSUME NEW i \in DOMAIN Order
        PROVE  \E v \in settled : v.win = Order[i] /\ AtLeast(v, Row(Order[i], u))
    <2>1. PICK v \in settled : v.win = Order[i] /\ v.run = run /\ v.upto >= u
      BY <1>1
    <2> DEFINE f == Row(Order[i], u)
    <2>2. f \in Writes(1..run) /\ f.win = Order[i] /\ f.run = run /\ f.upto = u
      <3>1. Order[i] \in Windows /\ u \in 1..Len(Stream) /\ run \in 1..run
        BY <1>1, StreamFacts DEF TypeInv
      <3> QED
        BY <3>1 DEF Row, Writes
    <2>3. v \in Writes(1..run) /\ run \in Nat \ {0}
      BY DEF TypeInv
    <2> HIDE DEF f
    <2>4. AtLeast(v, f)
      BY <2>1, <2>2, <2>3, LaterIsFresher
    <2> QED
      BY <2>1, <2>4 DEF f
  <1> QED
    BY <1>2, <1>3 DEF u

LEMMA FloorSettles ==
    ASSUME TypeInv, FloorSettled, NEW w \in Writes(1..run), Settle(w),
           UNCHANGED <<pc, run, floor>>
    PROVE  FloorSettled'
  <1> SUFFICES ASSUME floor.run = run, floor.upto > 0, NEW i \in DOMAIN Order
               PROVE  \E u \in settled' :
                          u.win = Order[i] /\ AtLeast(u, Row(Order[i], floor.upto))
    BY DEF FloorSettled, Row
  <1> DEFINE f == Row(Order[i], floor.upto)
  <1>1. f \in Writes(1..run)
    BY FlushedRow
  <1>2. PICK v \in settled : v.win = Order[i] /\ AtLeast(v, f)
    BY DEF FloorSettled
  <1> HIDE DEF f
  <1>3. run \in Nat \ {0} /\ settled \in SUBSET Writes(1..run)
    BY DEF TypeInv
  <1>4. PICK u \in settled' : u.win = v.win /\ AtLeast(u, v)
    BY <1>3, SettleKeeps
  <1>5. u \in Writes(1..run)
    BY <1>3, <1>4, SettleFacts
  <1>6. AtLeast(u, f)
    BY <1>1, <1>2, <1>3, <1>4, <1>5, FresherStill
  <1> QED
    BY <1>2, <1>4, <1>6 DEF f

LEMMA FloorStep == TypeInv /\ RunsTold /\ FloorSettled /\ [Next]_vars => FloorSettled'
  <1> SUFFICES ASSUME TypeInv, RunsTold, FloorSettled, [Next]_vars PROVE FloorSettled'
    OBVIOUS
  <1>1. CASE Truncate
    BY <1>1 DEF FloorSettled, Truncate, scorer
  <1>2. CASE ApplyFill \/ FinalFlush \/ Issue \/ Drained
    <2>1. UNCHANGED <<run, settled, floor>> /\ (pc # "starting" => pc' # "starting")
      BY <1>2 DEF ApplyFill, FinalFlush, Issue, Drained, writes, scorer
    <2> QED
      BY <2>1 DEF FloorSettled, Row
  <1>3. ASSUME NEW w \in inflight, Ack(w) PROVE FloorSettled'
    <2>1. w \in Writes(1..run)
      BY OwnWrites
    <2>2. UNCHANGED <<pc, run, floor>>
      BY <1>3 DEF Ack, ingest, scorer
    <2>3. CASE Settle(w)
      BY <2>1, <2>2, <2>3, FloorSettles
    <2>4. CASE ~Settle(w)
      BY <1>3, <2>2, <2>4 DEF Ack, FloorSettled, Row
    <2> QED
      BY <2>3, <2>4
  <1>4. ASSUME NEW w \in inflight, Fail(w) PROVE FloorSettled'
    BY <1>4 DEF Fail, ingest, scorer, FloorSettled, Row
  <1>5. ASSUME NEW w \in acked \cup lost, Replicate(w) \/ ApplyLate(w) PROVE FloorSettled'
    <2>1. w \in Writes(1..run)
      BY OwnWrites
    <2>2. UNCHANGED <<pc, run, floor>>
      BY <1>5 DEF Replicate, ApplyLate, ingest, scorer
    <2> QED
      BY <1>5, <2>1, <2>2, FloorSettles DEF Replicate, ApplyLate
  <1>6. CASE ReadWindow
    <2>1. UNCHANGED <<pc, run, settled>> /\ Order # <<>>
      BY <1>6, StreamFacts DEF ReadWindow, ingest, writes, TypeInv
    <2>2. CASE reading = <<>>
      <3>1. floor' = SettledFlush
        BY <1>6, <2>2 DEF ReadWindow
      <3> QED
        BY <2>1, <3>1, FloorTaken DEF FloorSettled, Row
    <2>3. CASE reading # <<>>
      <3>1. floor' = floor
        BY <1>6, <2>3 DEF ReadWindow
      <3> QED
        BY <2>1, <3>1 DEF FloorSettled, Row
    <2> QED
      BY <2>2, <2>3
  <1>7. CASE GiveScore \/ ReadFails \/ LateTruncate
    BY <1>7 DEF GiveScore, ReadFails, LateTruncate, NoFlush, FloorSettled
  <1>8. CASE CrashAndRestart
    <2>1. floor'.run # run'
      BY <1>8 DEF CrashAndRestart, scorer, TypeInv
    <2> QED
      BY <2>1 DEF FloorSettled
  <1>9. CASE UNCHANGED vars
    BY <1>9 DEF vars, ingest, writes, scorer, FloorSettled, Row
  <1> QED
    BY <1>1, <1>2, <1>3, <1>4, <1>5, <1>6, <1>7, <1>8, <1>9 DEF Next, Ingest, Answer, Reader

(* A row is read as fresh as what is settled at that moment.               *)
LEMMA ReadIsFresh ==
    ASSUME TypeInv, TypeInv', FloorSettled', FreshAsFlushed, ReadWindow,
           floor'.run = run', floor'.upto > 0, NEW i \in DOMAIN reading'
    PROVE  \E w \in reading'[i] : AtLeast(w, Row(Order[i], floor.upto)')
  <1> DEFINE win == Order[Len(reading) + 1]
             f == Row(Order[i], floor.upto)'
  <1>1. PICK seen \in SUBSET WritesOf(win, inflight \cup acked \cup lost \cup remnants) :
            reading' = Append(reading, FirstRow(WritesOf(win, settled) \cup seen))
    BY DEF ReadWindow
  <1>2. /\ Len(reading) \in Nat /\ Len(reading) + 1 \in DOMAIN Order
        /\ DOMAIN reading' = 1..(Len(reading) + 1)
        /\ run' = run /\ settled' = settled
    BY <1>1, StreamFacts DEF TypeInv, ReadWindow, ingest, writes
  <1>3. CASE i \in 1..Len(reading)
    <2>1. reading'[i] = reading[i] /\ i \in DOMAIN reading
      BY <1>1, <1>3 DEF TypeInv
    <2>2. floor' = floor
      <3>1. reading # <<>>
        BY <1>3 DEF TypeInv
      <3> QED
        BY <3>1 DEF ReadWindow
    <2> QED
      BY <1>2, <2>1, <2>2 DEF FreshAsFlushed, AtLeast, Row
  <1>4. CASE i = Len(reading) + 1
    <2> DEFINE S == WritesOf(win, settled) \cup seen
    <2>1. reading'[i] = FirstRow(S)
      BY <1>1, <1>4 DEF TypeInv
    <2>2. PICK v \in settled : v.win = win /\ AtLeast(v, f)
      BY <1>2, <1>4 DEF FloorSettled, Row
    <2>3. S \in SUBSET Writes(1..run) /\ \A w \in S : w.win = win
      <3> HIDE DEF win
      <3> QED
        BY SeenRows
    <2>4. v \in S /\ win \in Windows
      BY <1>2, <2>2, StreamFacts DEF WritesOf
    <2>5. f \in Writes(1..run) /\ run \in Nat \ {0}
      <3>1. Order[i] \in Windows /\ floor'.upto \in 1..Len(Stream) /\ run \in 1..run
        BY <1>2, <1>4, StreamFacts DEF TypeInv
      <3> QED
        BY <1>2, <3>1 DEF Row, Writes
    <2> HIDE DEF S, f, win
    <2>6. PICK w \in FirstRow(S) : \A x \in S : AtLeast(w, x)
      BY <2>3, <2>4, FirstRowFacts, <2>5
    <2>7. w \in Writes(1..run) /\ v \in Writes(1..run)
      BY <2>3, <2>4, <2>6, FirstRowOf
    <2>8. AtLeast(w, f)
      BY <2>2, <2>4, <2>5, <2>6, <2>7, FresherStill
    <2> QED
      BY <2>1, <2>6, <2>8 DEF f
  <1> QED
    BY <1>2, <1>3, <1>4

LEMMA FreshStep ==
    TypeInv /\ TypeInv' /\ FloorSettled' /\ FreshAsFlushed /\ [Next]_vars => FreshAsFlushed'
  <1> SUFFICES ASSUME TypeInv, TypeInv', FloorSettled', FreshAsFlushed, [Next]_vars
               PROVE  FreshAsFlushed'
    OBVIOUS
  <1>1. CASE UNCHANGED <<run, reading, floor>>
    BY <1>1 DEF FreshAsFlushed, Row
  <1>2. CASE ReadWindow
    BY <1>2, ReadIsFresh DEF FreshAsFlushed, AtLeast
  <1>3. CASE GiveScore \/ ReadFails \/ LateTruncate
    BY <1>3 DEF GiveScore, ReadFails, LateTruncate, NoFlush, FreshAsFlushed
  <1>4. CASE CrashAndRestart
    <2>1. floor'.run # run'
      BY <1>4 DEF CrashAndRestart, scorer, TypeInv
    <2> QED
      BY <2>1 DEF FreshAsFlushed
  <1>5. ASSUME ~ReadWindow, ~GiveScore, ~ReadFails, ~CrashAndRestart, ~LateTruncate
        PROVE  UNCHANGED <<run, reading, floor>>
    BY <1>5 DEF Next, Ingest, Answer, Reader, Truncate, ApplyFill, FinalFlush, Issue, Drained,
                Ack, Fail, Replicate, ApplyLate, vars, ingest, writes, scorer
  <1> QED
    BY <1>1, <1>2, <1>3, <1>4, <1>5

LEMMA InvInit == Init => Inv
  <1> SUFFICES ASSUME Init PROVE Inv
    OBVIOUS
  <1>1. TypeInv
    BY TypeInit
  <1>2. RunsTold /\ floor.upto = 0
    BY DEF Init, RunsTold, NoFlush
  <1> QED
    BY <1>1, <1>2 DEF Inv, FloorSettled, FreshAsFlushed

LEMMA InvStep == Inv /\ [Next]_vars => Inv'
  BY TypeStep, RunsStep, FloorStep, FreshStep DEF Inv

LEMMA Invariance == Spec => []Inv
  BY InvInit, InvStep, PTL DEF Spec

-----------------------------------------------------------------------------
(* No row of a score is older than the last flush every read could see     *)
(* when the score began, though its reads come one after the other while   *)
(* writes settle, fail or reach a replica late.                            *)
THEOREM ScoresAreFresh == Spec => []FreshAsFlushed
  BY Invariance, PTL DEF Inv

(* Once the TRUNCATE of a run has succeeded a score is computed from rows  *)
(* of that run alone, but for writes that were on their way when a former  *)
(* run died.                                                               *)
THEOREM FormerRunsAreGone == Spec => ServesThisRun
  <1>1. ASSUME Inv, [Next]_vars, truncated, Len(reading') > Len(reading)
        PROVE  \A w \in Last(reading') : w.run = run \/ w \in leftover
    <2>1. Len(reading) \in Nat /\ Len(<<>>) = 0
      BY <1>1 DEF Inv, TypeInv
    <2>2. ReadWindow
      <3>1. ReadWindow \/ reading' = reading \/ reading' = <<>>
        BY <1>1 DEF Next, Ingest, Answer, Reader, Truncate, ApplyFill, FinalFlush, Issue, Drained,
             Ack, Fail, Replicate, ApplyLate, LateTruncate, GiveScore, ReadFails, CrashAndRestart,
             vars, ingest, writes, scorer
      <3> QED
        BY <1>1, <2>1, <3>1
    <2> DEFINE win == Order[Len(reading) + 1]
    <2>3. PICK seen \in SUBSET WritesOf(win, inflight \cup acked \cup lost \cup remnants) :
              reading' = Append(reading, FirstRow(WritesOf(win, settled) \cup seen))
      BY <2>2 DEF ReadWindow
    <2>4. Last(reading') = FirstRow(WritesOf(win, settled) \cup seen)
      BY <1>1, <2>3 DEF Inv, TypeInv, Last
    <2>5. \A w \in WritesOf(win, settled) \cup seen : w.run = run \/ w \in leftover
      BY <1>1 DEF Inv, TypeInv, RunsTold, WritesOf, Writes
    <2> QED
      BY <2>4, <2>5, FirstRowOf
  <1> QED
    BY <1>1, Invariance, PTL DEF Spec, ServesThisRun
=============================================================================
