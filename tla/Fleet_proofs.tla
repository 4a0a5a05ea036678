---------------------------- MODULE Fleet_proofs ----------------------------
(***************************************************************************)
(* Theorems about the dashboard's fleet (Fleet.tla), for any number of     *)
(* blasters, any batch and any timers. The total the page shows is a sum   *)
(* over the writers; what is proved of it here is proved writer by writer. *)
(***************************************************************************)
EXTENDS Fleet, FiniteSetTheorems, WellFoundedInduction, TLAPS

-----------------------------------------------------------------------------
(* A row more, and either the batch is full or one more of it is written.  *)
LEMMA NextOfBatch ==
    ASSUME NEW n \in Nat, NEW m \in Nat \ {0}
    PROVE  /\ n % m \in 0..(m - 1)
           /\ (n + 1) % m # 0 => (n + 1) % m = (n % m) + 1
  BY SMTT(60)

-----------------------------------------------------------------------------
(* The burst. A look at the deadline that is due is taken between batches: *)
(* what a burst-only blaster has written overdue it has written since its  *)
(* batch began, so it is less than what it has written of this batch, and  *)
(* nothing once it is idle.                                                *)

(* The state the burst's end depends on.                                   *)
BurstTypes ==
    /\ mode \in [Blasters -> {"idle", "writing", "timers"}]
    /\ bursting \in [BurstOnly -> BOOLEAN]
    /\ sinceCheck \in [BurstOnly -> 0..CheckTicks]
    /\ sent \in [Writers -> Nat]
    /\ late \in [BurstOnly -> Nat]

(* Rows count as overdue only while the look at the deadline is due.       *)
LateOnlyIfDue(b) == late[b] > 0 => sinceCheck[b] = CheckTicks

(* An overdue row is a row of the batch under way.                         *)
LateWithinBatch(b) ==
    /\ mode[b] = "writing" => late[b] <= sent[b] % Batch
    /\ mode[b] = "timers" => late[b] <= Batch
    /\ mode[b] = "idle" => late[b] = 0

BurstInv ==
    /\ BurstTypes
    /\ \A b \in BurstOnly : LateOnlyIfDue(b) /\ LateWithinBatch(b)

LEMMA BurstInvInit == Init => BurstInv
  BY FleetAssumption DEF Init, BurstInv, BurstTypes, LateOnlyIfDue,
        LateWithinBatch, Blasters, Writers

(* A turn of the timers or of the idle loop clears what is late, if it     *)
(* looks at the deadline, and has nothing to clear if it does not.         *)
LEMMA LookClearsLate ==
    ASSUME BurstInv, NEW b \in BurstOnly, LookAtBurst(b)
    PROVE  /\ bursting' \in [BurstOnly -> BOOLEAN]
           /\ sinceCheck' \in [BurstOnly -> 0..CheckTicks]
           /\ late' \in [BurstOnly -> Nat]
           /\ late'[b] = 0
           /\ \A c \in BurstOnly \ {b} :
                 late'[c] = late[c] /\ sinceCheck'[c] = sinceCheck[c]
  <1>1. CASE sinceCheck[b] = CheckTicks
    <2>1. /\ bursting' = [bursting EXCEPT ![b] = burstLeft > 0]
          /\ sinceCheck' = [sinceCheck EXCEPT ![b] = 0]
          /\ late' = [late EXCEPT ![b] = 0]
      BY <1>1 DEF LookAtBurst
    <2>2. (burstLeft > 0) \in BOOLEAN
      BY SMT
    <2>3. bursting' \in [BurstOnly -> BOOLEAN]
      BY <2>1, <2>2, Zenon DEF BurstInv, BurstTypes
    <2>4. QED
      BY <2>1, <2>3, FleetAssumption DEF BurstInv, BurstTypes
  <1>2. CASE sinceCheck[b] # CheckTicks
    BY <1>2 DEF BurstInv, BurstTypes, LookAtBurst, LateOnlyIfDue
  <1>3. QED  BY <1>1, <1>2

LEMMA WriteRowKeepsBurst ==
    ASSUME BurstInv, NEW b \in Blasters, WriteRow(b)
    PROVE  BurstInv'
  <1>1. b \in Writers
    BY DEF Writers
  <1>2. /\ sent[b] % Batch \in 0..(Batch - 1)
        /\ ~BatchEnds(b) => (sent[b] + 1) % Batch = (sent[b] % Batch) + 1
    BY <1>1, NextOfBatch, FleetAssumption DEF BurstInv, BurstTypes, BatchEnds
  <1>3. BurstTypes'
    BY <1>1 DEF BurstInv, BurstTypes, WriteRow
  <1>4. ASSUME NEW c \in BurstOnly
        PROVE  LateOnlyIfDue(c)' /\ LateWithinBatch(c)'
    <2>1. CASE c # b
      <3>1. /\ late'[c] = late[c] /\ sinceCheck'[c] = sinceCheck[c]
            /\ mode'[c] = mode[c] /\ sent'[c] = sent[c]
        BY <2>1 DEF BurstInv, BurstTypes, WriteRow, Blasters, Writers
      <3>2. QED  BY <3>1 DEF BurstInv, LateOnlyIfDue, LateWithinBatch
    <2>2. CASE c = b
      <3>1. /\ mode[b] = "writing" /\ sent'[b] = sent[b] + 1
            /\ mode'[b] = IF BatchEnds(b) THEN "timers" ELSE "writing"
            /\ sinceCheck'[b] = sinceCheck[b]
            /\ late'[b] = IF Overdue(b) THEN late[b] + 1 ELSE late[b]
        BY <1>1, <2>2 DEF BurstInv, BurstTypes, WriteRow
      <3>2. late[b] \in Nat /\ late[b] <= sent[b] % Batch
        BY <2>2, <3>1 DEF BurstInv, BurstTypes, LateWithinBatch
      <3>3. LateOnlyIfDue(b)'
        BY <2>2, <3>1 DEF BurstInv, LateOnlyIfDue, Overdue
      <3>4. late'[b] \in Nat /\ late'[b] <= (sent[b] % Batch) + 1
        BY <1>2, <3>1, <3>2
      <3>5. LateWithinBatch(b)'
        BY <1>2, <3>1, <3>4, FleetAssumption DEF LateWithinBatch
      <3>6. QED  BY <2>2, <3>3, <3>5
    <2>3. QED  BY <2>1, <2>2
  <1>5. QED  BY <1>3, <1>4 DEF BurstInv

LEMMA TurnKeepsBurst ==
    ASSUME BurstInv, NEW b \in Blasters, Timers(b) \/ Idle(b)
    PROVE  BurstInv'
  <1>1. /\ LookAtBurst(b) /\ sent' = sent
        /\ mode' \in [Blasters -> {"idle", "writing", "timers"}]
        /\ mode'[b] \in {"idle", "writing"}
        /\ \A c \in Blasters \ {b} : mode'[c] = mode[c]
    BY DEF BurstInv, BurstTypes, Timers, Idle
  <1>2. sent \in [Writers -> Nat]
    BY DEF BurstInv, BurstTypes
  <1>3. CASE b \in BurstOnly
    <2>1. BurstTypes'
      BY <1>1, <1>2, <1>3, LookClearsLate DEF BurstTypes
    <2>2. late'[b] = 0 /\ LateOnlyIfDue(b)'
      BY <1>1, <1>3, LookClearsLate DEF LateOnlyIfDue
    <2>3. sent[b] % Batch \in 0..(Batch - 1)
      BY <1>2, <1>3, NextOfBatch, FleetAssumption DEF Blasters, Writers
    <2>4. LateWithinBatch(b)'
      BY <1>1, <2>2, <2>3, FleetAssumption DEF LateWithinBatch
    <2>5. ASSUME NEW c \in BurstOnly \ {b}
          PROVE  LateOnlyIfDue(c)' /\ LateWithinBatch(c)'
      <3>1. late'[c] = late[c] /\ sinceCheck'[c] = sinceCheck[c]
        BY <1>1, <1>3, LookClearsLate
      <3>2. mode'[c] = mode[c] /\ sent'[c] = sent[c]
        BY <1>1 DEF Blasters
      <3>3. QED  BY <3>1, <3>2 DEF BurstInv, LateOnlyIfDue, LateWithinBatch
    <2>6. QED  BY <2>1, <2>2, <2>4, <2>5 DEF BurstInv
  <1>4. CASE b \notin BurstOnly
    <2>1. UNCHANGED <<bursting, sinceCheck, late>>
      BY <1>1, <1>4 DEF LookAtBurst
    <2>2. \A c \in BurstOnly : mode'[c] = mode[c]
      BY <1>1, <1>4 DEF Blasters
    <2>3. QED
      BY <1>1, <2>1, <2>2 DEF BurstInv, BurstTypes, LateOnlyIfDue, LateWithinBatch
  <1>5. QED  BY <1>3, <1>4

LEMMA BurstInvNext == BurstInv /\ [Next]_vars => BurstInv'
  <1> SUFFICES ASSUME BurstInv, [Next]_vars
               PROVE  BurstInv'
    OBVIOUS
  <1>1. ASSUME NEW w \in Writers, Acknowledge(w)
        PROVE  BurstInv'
    BY <1>1 DEF Acknowledge, BurstInv, BurstTypes, LateOnlyIfDue, LateWithinBatch
  <1>2. ASSUME NEW b \in Blasters, BlasterStep(b)
        PROVE  BurstInv'
    <2>1. CASE WriteRow(b)
      BY <2>1, WriteRowKeepsBurst
    <2>2. CASE Timers(b) \/ Idle(b)
      BY <2>2, TurnKeepsBurst
    <2>3. QED  BY <1>2, <2>1, <2>2 DEF BlasterStep
  <1>3. CASE IngestFill
    <2>1. /\ sent' \in [Writers -> Nat]
          /\ \A b \in BurstOnly : sent'[b] = sent[b]
      BY <1>3, FleetAssumption
         DEF IngestFill, BurstInv, BurstTypes, Blasters, Writers
    <2>2. UNCHANGED <<mode, bursting, sinceCheck, late>>
      BY <1>3 DEF IngestFill
    <2>3. QED
      BY <2>1, <2>2 DEF BurstInv, BurstTypes, LateOnlyIfDue, LateWithinBatch
  <1>4. CASE Read \/ ReaderFails \/ UNCHANGED vars
    <2>1. UNCHANGED <<mode, bursting, sinceCheck, sent, late>>
      BY <1>4 DEF Read, StartCopy, CopyKey, Show, ReaderFails, ofWriters, vars
    <2>2. QED
      BY <2>1 DEF BurstInv, BurstTypes, LateOnlyIfDue, LateWithinBatch
  <1>5. CASE Press
    <2>1. /\ UNCHANGED <<mode, bursting, sinceCheck, sent>>
          /\ late' = [b \in BurstOnly |-> 0]
      BY <1>5 DEF Press
    <2>2. \A b \in BurstOnly : sent[b] % Batch \in 0..(Batch - 1)
      BY NextOfBatch, FleetAssumption DEF BurstInv, BurstTypes, Blasters, Writers
    <2>3. QED
      BY <2>1, <2>2, FleetAssumption
         DEF BurstInv, BurstTypes, LateOnlyIfDue, LateWithinBatch
  <1>6. CASE Tick
    <2>1. /\ UNCHANGED <<mode, bursting, sent, late>>
          /\ sinceCheck' = [b \in BurstOnly |-> Older(sinceCheck[b], CheckTicks)]
      BY <1>6 DEF Tick
    <2>2. QED
      BY <2>1, FleetAssumption
         DEF BurstInv, BurstTypes, LateOnlyIfDue, LateWithinBatch, Older
  <1>7. QED  BY <1>1, <1>2, <1>3, <1>4, <1>5, <1>6 DEF Next

(* A burst-only blaster writes a batch at most after its look at the       *)
(* deadline is due, however large the fleet and whenever the button is     *)
(* pressed: run_blaster takes the look at every batch's end.               *)
THEOREM BurstsEndPromptly == Spec => []BurstEndsPromptly
  <1>1. BurstInv => BurstEndsPromptly
    <2> SUFFICES ASSUME BurstInv, NEW b \in BurstOnly
                 PROVE  late[b] <= Batch
      BY DEF BurstEndsPromptly
    <2>1. /\ mode[b] \in {"idle", "writing", "timers"} /\ late[b] \in Nat
          /\ sent[b] \in Nat
      BY DEF BurstInv, BurstTypes, Blasters, Writers
    <2>2. sent[b] % Batch \in 0..(Batch - 1)
      BY <2>1, NextOfBatch, FleetAssumption
    <2>3. LateWithinBatch(b)
      BY DEF BurstInv
    <2>4. QED  BY <2>1, <2>2, <2>3, FleetAssumption DEF LateWithinBatch
  <1>2. QED  BY <1>1, BurstInvInit, BurstInvNext, PTL DEF Spec

-----------------------------------------------------------------------------
(* Sums. Total is a fold over a function's domain; a fold is evaluated     *)
(* along a recursive function over the subsets of that domain, and what is *)
(* known of the sum follows from that function.                            *)

Pick(s) == CHOOSE x \in s : TRUE

(* F gives for each set of SS what f adds up to over it.                   *)
IsSumOver(F, f, SS) ==
    F = [s \in SS |-> IF s = {} THEN 0 ELSE f[Pick(s)] + F[s \ {Pick(s)}]]

(* A set of naturals has a least element.                                  *)
LEMMA LeastNatural ==
    ASSUME NEW S \in SUBSET Nat, S # {}
    PROVE  \E s \in S : \A x \in S : s <= x
  <1> DEFINE T == {0..x : x \in S}
  <1>1. T \in SUBSET FiniteSubsetsOf(Nat) /\ T # {}
    <2>1. \A x \in S : IsFiniteSet(0..x) /\ 0..x \in SUBSET Nat
      BY FS_Interval
    <2> QED
      BY <2>1 DEF FiniteSubsetsOf
  <1>2. IsWellFoundedOn(StrictSubsetOrdering(Nat), FiniteSubsetsOf(Nat))
    BY FS_StrictSubsetOrderingWellFounded
  <1>3. PICK t \in T : \A u \in T : ~(<<u, t>> \in StrictSubsetOrdering(Nat))
    <2> HIDE DEF T
    <2> QED
      BY <1>1, <1>2, WFMin
  <1>4. PICK s \in S : t = 0..s
    BY <1>3
  <1>5. ASSUME NEW y \in S, y < s PROVE FALSE
    <2>1. 0..y \in SUBSET Nat /\ 0..s \in SUBSET Nat /\ 0..y \subseteq 0..s
      BY <1>5
    <2>2. s \in 0..s /\ s \notin 0..y
      BY <1>5
    <2>3. 0..y # 0..s
      BY <2>2
    <2>4. <<0..y, 0..s>> \in StrictSubsetOrdering(Nat)
      BY <2>1, <2>3, Zenon DEF StrictSubsetOrdering
    <2> QED
      BY <1>3, <1>4, <2>4
  <1> QED
    BY <1>5


(* Of the finite sets that violate something one is minimal.               *)
LEMMA MinimalSet ==
    ASSUME NEW S, IsFiniteSet(S), NEW Bad \in SUBSET (SUBSET S), Bad # {}
    PROVE  \E t \in Bad : \A u \in Bad : u \subseteq t => u = t
  <1>1. Bad \in SUBSET FiniteSubsetsOf(S)
    BY FS_Subset DEF FiniteSubsetsOf
  <1>2. PICK t \in Bad : \A u \in Bad : ~(<<u, t>> \in StrictSubsetOrdering(S))
    BY <1>1, FS_StrictSubsetOrderingWellFounded, WFMin
  <1>3. ASSUME NEW u \in Bad, u \subseteq t, u # t
        PROVE  FALSE
    BY <1>2, <1>3, Zenon DEF StrictSubsetOrdering
  <1>4. QED  BY <1>3

LEMMA PickFacts ==
    ASSUME NEW s, s # {}
    PROVE  Pick(s) \in s
  BY DEF Pick

(* The function a fold is evaluated along exists: it is built set size by  *)
(* set size.                                                               *)
LEMMA SumExists ==
    ASSUME NEW S, IsFiniteSet(S), NEW f
    PROVE  \E F : IsSumOver(F, f, SUBSET S)
  <1> DEFINE Sized(n) == {s \in SUBSET S : Cardinality(s) <= n}
             Missing == {n \in Nat : ~\E F : IsSumOver(F, f, Sized(n))}
  <1>1. \A s \in SUBSET S : IsFiniteSet(s) /\ Cardinality(s) \in Nat
    BY FS_Subset, FS_CardinalityType
  <1>2. ASSUME NEW n \in Nat, n > 0, NEW s \in Sized(n), s # {}
        PROVE  s \ {Pick(s)} \in Sized(n - 1)
    <2>1. Cardinality(s \ {Pick(s)}) = Cardinality(s) - 1
      BY <1>1, <1>2, PickFacts, FS_RemoveElement
    <2>2. QED  BY <1>1, <1>2, <2>1
  <1>3. \A s \in Sized(0) : s = {}
    BY <1>1, FS_EmptySet
  <1>4. Missing = {}
    <2> SUFFICES ASSUME Missing # {}
                 PROVE  FALSE
      OBVIOUS
    <2>1. PICK n \in Missing : \A m \in Missing : n <= m
      <3>1. Missing \in SUBSET Nat
        OBVIOUS
      <3> HIDE DEF Missing
      <3>2. QED  BY <3>1, LeastNatural
    <2>2. CASE n = 0
      <3>1. IsSumOver([s \in Sized(0) |-> 0], f, Sized(0))
        <4> HIDE DEF Sized
        <4>1. QED  BY <1>3 DEF IsSumOver
      <3>2. QED  BY <2>1, <2>2, <3>1
    <2>3. CASE n # 0
      <3>1. n \in Nat /\ n - 1 \in Nat /\ n > 0 /\ n - 1 \notin Missing
        <4>1. n \in Nat
          OBVIOUS
        <4> HIDE DEF Missing
        <4>2. QED  BY <2>1, <2>3, <4>1
      <3>2. PICK F : IsSumOver(F, f, Sized(n - 1))
        BY <3>1
      <3> DEFINE G == [s \in Sized(n) |->
                          IF s = {} THEN 0 ELSE f[Pick(s)] + F[s \ {Pick(s)}]]
      <3>3. \A s \in Sized(n - 1) : s \in Sized(n)
        BY <1>1, <3>1
      <3>4. \A s \in Sized(n) : s # {} => s \ {Pick(s)} \in Sized(n - 1)
        BY <1>2, <3>1
      <3> HIDE DEF Sized
      <3>5. \A s \in Sized(n - 1) : G[s] = F[s]
        BY <3>2, <3>3 DEF IsSumOver
      <3>6. \A s \in Sized(n) : s # {} => G[s \ {Pick(s)}] = F[s \ {Pick(s)}]
        BY <3>4, <3>5
      <3>7. IsSumOver(G, f, Sized(n))
        BY <3>6 DEF IsSumOver
      <3>8. QED  BY <2>1, <3>7
    <2>4. QED  BY <2>2, <2>3
  <1>5. Cardinality(S) \in Nat
    BY FS_CardinalityType
  <1>6. SUBSET S = Sized(Cardinality(S))
    BY FS_Subset
  <1>7. PICK F : IsSumOver(F, f, Sized(Cardinality(S)))
    BY <1>4, <1>5
  <1>8. QED
    <2> HIDE DEF Sized
    <2>1. QED  BY <1>6, <1>7

(* What Total(f) evaluates.                                                *)
LEMMA TotalFacts ==
    ASSUME NEW f, IsFiniteSet(DOMAIN f)
    PROVE  \E F : /\ IsSumOver(F, f, SUBSET DOMAIN f)
                  /\ Total(f) = F[DOMAIN f]
  <1> DEFINE F == CHOOSE it : IsSumOver(it, f, SUBSET DOMAIN f)
  <1>1. Total(f) = F[DOMAIN f]
    BY DEF Total, IsSumOver, FoldFunction, FoldFunctionOnSet, MapThenFoldSet, Pick
  <1>2. IsSumOver(F, f, SUBSET DOMAIN f)
    BY SumExists
  <1>3. QED  BY <1>1, <1>2

(* The function of a sum, unfolded once.                                   *)
Unfolds(F, f, S) ==
    \A s \in SUBSET S :
        s # {} => Pick(s) \in s /\ F[s] = f[Pick(s)] + F[s \ {Pick(s)}]

LEMMA SumUnfolds ==
    ASSUME NEW S, NEW f, NEW F, IsSumOver(F, f, SUBSET S)
    PROVE  F[{}] = 0 /\ Unfolds(F, f, S)
  <1>1. \A s \in SUBSET S :
           F[s] = IF s = {} THEN 0 ELSE f[Pick(s)] + F[s \ {Pick(s)}]
    BY DEF IsSumOver
  <1>2. QED  BY <1>1, PickFacts DEF Unfolds

Naturals(F, S) == \A s \in SUBSET S : F[s] \in Nat

LEMMA SumType ==
    ASSUME NEW S, IsFiniteSet(S), NEW f, \A x \in S : f[x] \in Nat,
           NEW F, IsSumOver(F, f, SUBSET S)
    PROVE  Naturals(F, S)
  <1> DEFINE Bad == {s \in SUBSET S : F[s] \notin Nat}
  <1> SUFFICES ASSUME Bad # {}
               PROVE  FALSE
    BY DEF Naturals
  <1>1. PICK t \in Bad : \A u \in Bad : u \subseteq t => u = t
    <2>1. Bad \in SUBSET (SUBSET S)
      OBVIOUS
    <2> HIDE DEF Bad
    <2>2. QED  BY <2>1, MinimalSet
  <1>2. t \in SUBSET S /\ F[t] \notin Nat
    OBVIOUS
  <1>3. F[{}] = 0 /\ Unfolds(F, f, S)
    BY SumUnfolds
  <1>4. ASSUME t = {}
        PROVE  FALSE
    <2>1. F[t] = 0
      BY <1>3, <1>4
    <2>2. QED  BY <1>2, <2>1
  <1>5. Pick(t) \in t /\ F[t] = f[Pick(t)] + F[t \ {Pick(t)}]
    BY <1>2, <1>3, <1>4 DEF Unfolds
  <1>6. t \ {Pick(t)} \notin Bad
    <2> HIDE DEF Bad
    <2>1. QED  BY <1>1, <1>5
  <1>7. F[t \ {Pick(t)}] \in Nat
    BY <1>6
  <1>8. QED  BY <1>2, <1>5, <1>7

(* The order in which a sum takes its terms does not matter.               *)
TakesAny(F, f, S) == \A s \in SUBSET S : \A x \in s : F[s] = f[x] + F[s \ {x}]

LEMMA SumTakes ==
    ASSUME NEW S, IsFiniteSet(S), NEW f, \A x \in S : f[x] \in Nat,
           NEW F, IsSumOver(F, f, SUBSET S)
    PROVE  TakesAny(F, f, S)
  <1> DEFINE Bad == {s \in SUBSET S : ~\A x \in s : F[s] = f[x] + F[s \ {x}]}
  <1> SUFFICES ASSUME Bad # {}
               PROVE  FALSE
    BY DEF TakesAny
  <1>1. PICK t \in Bad : \A u \in Bad : u \subseteq t => u = t
    <2>1. Bad \in SUBSET (SUBSET S)
      OBVIOUS
    <2> HIDE DEF Bad
    <2>2. QED  BY <2>1, MinimalSet
  <1>2. PICK x \in t : F[t] # f[x] + F[t \ {x}]
    OBVIOUS
  <1>3. t \in SUBSET S /\ t # {}
    BY <1>2
  <1>4. PICK c \in t : F[t] = f[c] + F[t \ {c}]
    <2>1. Unfolds(F, f, S)
      BY SumUnfolds
    <2>2. Pick(t) \in t /\ F[t] = f[Pick(t)] + F[t \ {Pick(t)}]
      BY <1>3, <2>1 DEF Unfolds
    <2>3. QED  BY <2>2
  <1>5. c # x /\ t \ {c} \notin Bad /\ t \ {x} \notin Bad
    <2> HIDE DEF Bad
    <2>1. QED  BY <1>1, <1>2, <1>4
  <1>6. /\ F[t \ {c}] = f[x] + F[(t \ {c}) \ {x}]
        /\ F[t \ {x}] = f[c] + F[(t \ {x}) \ {c}]
    BY <1>3, <1>5
  <1>7. (t \ {c}) \ {x} = (t \ {x}) \ {c} /\ (t \ {x}) \ {c} \in SUBSET S
    OBVIOUS
  <1>8. f[c] \in Nat /\ f[x] \in Nat /\ F[(t \ {x}) \ {c}] \in Nat
    <2>1. Naturals(F, S)
      BY SumType
    <2>2. c \in S /\ x \in S
      BY <1>3
    <2>3. QED  BY <1>7, <2>1, <2>2 DEF Naturals
  <1>9. F[t] = f[x] + F[t \ {x}]
    <2> HIDE DEF Bad
    <2>1. F[t] = f[c] + (f[x] + F[(t \ {x}) \ {c}])
      BY <1>4, <1>6, <1>7
    <2>2. QED  BY <1>6, <1>8, <2>1
  <1>10. QED  BY <1>2, <1>9

(* A sum of more and larger terms is not less.                             *)
LEMMA TotalMonotone ==
    ASSUME NEW A, NEW B, IsFiniteSet(B), A \subseteq B,
           NEW f \in [A -> Nat], NEW g \in [B -> Nat],
           \A x \in A : f[x] <= g[x]
    PROVE  Total(f) \in Nat /\ Total(g) \in Nat /\ Total(f) <= Total(g)
  <1>1. IsFiniteSet(A) /\ DOMAIN f = A /\ DOMAIN g = B
    BY FS_Subset
  <1>2. PICK F : IsSumOver(F, f, SUBSET A) /\ Total(f) = F[A]
    BY <1>1, TotalFacts
  <1>3. PICK G : IsSumOver(G, g, SUBSET B) /\ Total(g) = G[B]
    BY <1>1, TotalFacts
  <1>4. Naturals(F, A) /\ Naturals(G, B)
    BY <1>1, <1>2, <1>3, SumType
  <1> DEFINE Bad == {s \in SUBSET B : ~(F[s \cap A] <= G[s])}
  <1>5. Bad = {}
    <2> SUFFICES ASSUME Bad # {}
                 PROVE  FALSE
      OBVIOUS
    <2>1. PICK t \in Bad : \A u \in Bad : u \subseteq t => u = t
      <3>1. Bad \in SUBSET (SUBSET B)
        OBVIOUS
      <3> HIDE DEF Bad
      <3>2. QED  BY <3>1, MinimalSet
    <2>2. t \in SUBSET B /\ ~(F[t \cap A] <= G[t])
      OBVIOUS
    <2>3. t # {}
      <3>1. CASE t = {}
        <4>1. F[{}] = 0 /\ G[{}] = 0
          BY <1>2, <1>3, SumUnfolds
        <4>2. QED  BY <2>2, <3>1, <4>1
      <3>2. QED  BY <3>1
    <2>4. PICK x : x \in t
      BY <2>3
    <2>5. F[(t \ {x}) \cap A] <= G[t \ {x}]
      <3>1. t \ {x} \in SUBSET B /\ t \ {x} \subseteq t /\ t \ {x} # t
        BY <2>4
      <3>2. t \ {x} \notin Bad
        <4> HIDE DEF Bad
        <4>1. QED  BY <2>1, <3>1
      <3>3. QED  BY <3>1, <3>2
    <2>6. G[t] = g[x] + G[t \ {x}] /\ g[x] \in Nat /\ G[t \ {x}] \in Nat
      <3>1. TakesAny(G, g, B)
        BY <1>3, SumTakes
      <3>2. G[t] = g[x] + G[t \ {x}]
        BY <2>2, <2>4, <3>1 DEF TakesAny
      <3>3. QED  BY <1>4, <2>2, <2>4, <3>2 DEF Naturals
    <2>7. CASE x \in A
      <3>1. x \in t \cap A /\ t \cap A \in SUBSET A
            /\ (t \cap A) \ {x} = (t \ {x}) \cap A
        BY <2>4, <2>7
      <3>2. F[t \cap A] = f[x] + F[(t \ {x}) \cap A]
        <4>1. TakesAny(F, f, A)
          BY <1>1, <1>2, SumTakes
        <4>2. F[t \cap A] = f[x] + F[(t \cap A) \ {x}]
          BY <3>1, <4>1 DEF TakesAny
        <4>3. QED  BY <3>1, <4>2
      <3>3. f[x] \in Nat /\ f[x] <= g[x] /\ F[(t \ {x}) \cap A] \in Nat
        BY <1>4, <2>7 DEF Naturals
      <3>4. QED  BY <2>2, <2>5, <2>6, <3>2, <3>3
    <2>8. CASE x \notin A
      <3>1. (t \ {x}) \cap A = t \cap A
        BY <2>8
      <3>2. F[t \cap A] \in Nat
        BY <1>4 DEF Naturals
      <3>3. QED
        <4> HIDE DEF Bad
        <4>1. QED  BY <2>2, <2>5, <2>6, <3>1, <3>2
    <2>9. QED  BY <2>7, <2>8
  <1>6. F[B \cap A] <= G[B]
    BY <1>5
  <1>7. B \cap A = A
    OBVIOUS
  <1>8. QED  BY <1>2, <1>3, <1>4, <1>6, <1>7 DEF Naturals

-----------------------------------------------------------------------------
(* The total. A process publishes its own count, which only grows; the     *)
(* copy takes each key once, in any order, while the owners go on. So what *)
(* the copy holds, and what it has yet to take, is at any time between     *)
(* what the page shows and what is published.                              *)

(* What the copy adds up to if no key it has yet to take changes.          *)
Copied == [k \in DOMAIN snap \cup toCopy |->
              IF k \in toCopy THEN shared[k] ELSE snap[k]]

CountTypes ==
    /\ count \in [Writers -> Nat]
    /\ DOMAIN shared \subseteq Writers /\ shared \in [DOMAIN shared -> Nat]
    /\ DOMAIN snap \subseteq DOMAIN shared /\ snap \in [DOMAIN snap -> Nat]
    /\ toCopy \subseteq DOMAIN shared
    /\ stats \in Nat

(* Nothing is published that the store has not acknowledged.               *)
PublishedBehind == \A w \in DOMAIN shared : shared[w] <= count[w]

(* Nothing is copied that has not been published.                          *)
CopyBehind == \A k \in DOMAIN snap : snap[k] <= shared[k]

(* The total on show is one the copy under way cannot fall short of.       *)
ShownBehind ==
    /\ stats <= Total(shared)
    /\ reader = "copying" => stats <= Total(Copied)

CountInv == CountTypes /\ PublishedBehind /\ CopyBehind /\ ShownBehind

LEMMA WritersFinite == \A S \in SUBSET Writers : IsFiniteSet(S)
  BY FleetAssumption, FS_Subset

(* The total of no keys.                                                   *)
LEMMA TotalOfNone == Total(Empty) = 0
  <1>1. DOMAIN Empty = {} /\ IsFiniteSet({})
    BY FS_EmptySet DEF Empty
  <1>2. PICK F : IsSumOver(F, Empty, SUBSET {}) /\ Total(Empty) = F[{}]
    BY <1>1, TotalFacts
  <1>3. QED  BY <1>2, SumUnfolds

LEMMA CountInvInit == Init => CountInv
  <1> SUFFICES ASSUME Init
               PROVE  CountInv
    OBVIOUS
  <1>1. CountTypes /\ PublishedBehind /\ CopyBehind
    BY DEF Init, CountTypes, PublishedBehind, CopyBehind, Empty
  <1>2. ShownBehind
    BY TotalOfNone DEF Init, ShownBehind
  <1>3. QED  BY <1>1, <1>2 DEF CountInv

(* A publication: one key has a new value, its owner's count, and no key   *)
(* goes back.                                                              *)
LEMMA PublishFacts ==
    ASSUME CountInv, NEW w \in Writers
    PROVE  LET now == Publish(w)
           IN  /\ DOMAIN now = DOMAIN shared \cup {w}
               /\ now \in [DOMAIN shared \cup {w} -> Nat]
               /\ \A x \in DOMAIN now : now[x] <= count[x]
               /\ \A x \in DOMAIN shared : shared[x] <= now[x]
  BY DEF CountInv, CountTypes, PublishedBehind, Publish, Put

(* Whatever happens to a writer, its count and the published ones do not   *)
(* go back, and the reader stays where it is.                              *)
WriterStep ==
    /\ count' \in [Writers -> Nat]
    /\ \A w \in Writers : count[w] <= count'[w]
    /\ DOMAIN shared \subseteq DOMAIN shared' /\ DOMAIN shared' \subseteq Writers
    /\ shared' \in [DOMAIN shared' -> Nat]
    /\ \A w \in DOMAIN shared' : shared'[w] <= count'[w]
    /\ \A w \in DOMAIN shared : shared[w] <= shared'[w]
    /\ UNCHANGED <<reader, toCopy, snap, stats>>

LEMMA SharedOrPublished ==
    ASSUME CountInv, UNCHANGED <<count, reader, toCopy, snap, stats>>,
           \/ UNCHANGED shared
           \/ \E w \in Writers : shared' = Publish(w)
    PROVE  WriterStep
  <1>1. CASE UNCHANGED shared
    BY <1>1 DEF CountInv, CountTypes, PublishedBehind, WriterStep
  <1>2. CASE \E w \in Writers : shared' = Publish(w)
    <2>1. PICK w \in Writers : shared' = Publish(w)
      BY <1>2
    <2>2. /\ DOMAIN shared' = DOMAIN shared \cup {w}
          /\ shared' \in [DOMAIN shared \cup {w} -> Nat]
          /\ \A x \in DOMAIN shared' : shared'[x] <= count[x]
          /\ \A x \in DOMAIN shared : shared[x] <= shared'[x]
      BY <2>1, PublishFacts
    <2>3. QED  BY <2>2 DEF CountInv, CountTypes, WriterStep
  <1>3. QED  BY <1>1, <1>2

LEMMA WriterSteps ==
    ASSUME CountInv, [Next]_vars, ~Read
    PROVE  \/ WriterStep
           \/ ReaderFails
  <1>1. ASSUME NEW w \in Writers, Acknowledge(w)
        PROVE  WriterStep
    <2>1. UNCHANGED <<shared, reader, toCopy, snap, stats>>
      BY <1>1 DEF Acknowledge, ofReader
    <2>2. count' \in [Writers -> Nat] /\ \A x \in Writers : count[x] <= count'[x]
      BY <1>1 DEF Acknowledge, CountInv, CountTypes
    <2>3. \A x \in DOMAIN shared : shared[x] <= count'[x]
      BY <2>2 DEF CountInv, CountTypes, PublishedBehind
    <2>4. QED  BY <2>1, <2>2, <2>3 DEF CountInv, CountTypes, WriterStep
  <1>2. ASSUME NEW b \in Blasters, BlasterStep(b)
        PROVE  WriterStep
    <2>1. b \in Writers /\ UNCHANGED <<count, reader, toCopy, snap, stats>>
      BY <1>2 DEF BlasterStep, WriteRow, Timers, Idle, ofReader, Writers
    <2>2. UNCHANGED shared \/ shared' = Publish(b)
      BY <1>2 DEF BlasterStep, WriteRow, Timers, Idle, IdlePublish
    <2>3. QED  BY <2>1, <2>2, SharedOrPublished
  <1>3. CASE IngestFill
    <2>1. Ingest \in Writers /\ UNCHANGED <<count, reader, toCopy, snap, stats>>
      BY <1>3 DEF IngestFill, ofReader, Writers
    <2>2. UNCHANGED shared \/ shared' = Publish(Ingest)
      BY <1>3 DEF IngestFill
    <2>3. QED  BY <2>1, <2>2, SharedOrPublished
  <1>4. CASE Press \/ Tick \/ UNCHANGED vars
    <2>1. UNCHANGED <<count, shared, reader, toCopy, snap, stats>>
      BY <1>4 DEF Press, Tick, vars, ofWriters, ofReader
    <2>2. QED  BY <2>1, SharedOrPublished
  <1>5. QED  BY <1>1, <1>2, <1>3, <1>4 DEF Next

LEMMA WriterStepKeepsCount ==
    ASSUME CountInv, WriterStep
    PROVE  CountInv'
  <1>1. CountTypes'
    BY DEF CountInv, CountTypes, WriterStep
  <1>2. PublishedBehind'
    BY DEF PublishedBehind, WriterStep
  <1>3. CopyBehind'
    <2> SUFFICES ASSUME NEW k \in DOMAIN snap
                 PROVE  snap[k] <= shared'[k]
      BY DEF WriterStep, CopyBehind
    <2>1. snap[k] <= shared[k] /\ shared[k] <= shared'[k] /\ snap[k] \in Nat
          /\ shared[k] \in Nat /\ shared'[k] \in Nat
      BY DEF CountInv, CountTypes, CopyBehind, WriterStep
    <2>2. QED  BY <2>1
  <1>4. stats \in Nat /\ stats' = stats /\ reader' = reader
    BY DEF CountInv, CountTypes, WriterStep
  <1>5. stats <= Total(shared')
    <2>1. /\ shared \in [DOMAIN shared -> Nat] /\ shared' \in [DOMAIN shared' -> Nat]
          /\ DOMAIN shared \subseteq DOMAIN shared'
          /\ \A w \in DOMAIN shared : shared[w] <= shared'[w]
          /\ IsFiniteSet(DOMAIN shared')
      BY WritersFinite DEF CountInv, CountTypes, WriterStep
    <2>2. /\ Total(shared) \in Nat /\ Total(shared') \in Nat
          /\ Total(shared) <= Total(shared')
      BY <2>1, TotalMonotone
    <2>3. QED  BY <1>4, <2>2 DEF CountInv, ShownBehind
  <1>6. ASSUME reader = "copying"
        PROVE  stats <= Total(Copied')
    <2> DEFINE Keys == DOMAIN snap \cup toCopy
    <2>1. /\ Copied \in [Keys -> Nat] /\ Copied' \in [Keys -> Nat]
          /\ \A k \in Keys : Copied[k] <= Copied'[k]
      <3>1. snap' = snap /\ toCopy' = toCopy
        BY DEF WriterStep
      <3>2. /\ \A k \in DOMAIN snap : snap[k] \in Nat
            /\ \A k \in toCopy : /\ shared[k] \in Nat /\ shared'[k] \in Nat
                                 /\ shared[k] <= shared'[k]
        BY DEF CountInv, CountTypes, WriterStep
      <3>3. QED  BY <3>1, <3>2 DEF Copied
    <2>2. IsFiniteSet(Keys)
      BY WritersFinite DEF CountInv, CountTypes
    <2>3. /\ Total(Copied) \in Nat /\ Total(Copied') \in Nat
          /\ Total(Copied) <= Total(Copied')
      BY <2>1, <2>2, TotalMonotone
    <2>4. QED  BY <1>4, <1>6, <2>3 DEF CountInv, ShownBehind
  <1>7. ShownBehind'
    BY <1>4, <1>5, <1>6 DEF ShownBehind
  <1>8. QED  BY <1>1, <1>2, <1>3, <1>7 DEF CountInv

LEMMA ReadKeepsCount ==
    ASSUME CountInv, Read
    PROVE  CountInv'
  <1>1. UNCHANGED <<count, shared>> /\ PublishedBehind'
    BY DEF CountInv, PublishedBehind, Read, StartCopy, CopyKey, Show, ofWriters
  <1>2. CASE StartCopy
    <2>1. /\ toCopy' = DOMAIN shared /\ snap' = Empty /\ UNCHANGED stats
      BY <1>2 DEF StartCopy
    <2>2. CountTypes' /\ CopyBehind'
      BY <1>1, <2>1 DEF CountInv, CountTypes, CopyBehind, Empty
    <2>3. Copied' = shared
      <3>1. DOMAIN Empty = {}
        BY DEF Empty
      <3>2. Copied' = [k \in DOMAIN shared |-> shared[k]]
        BY <1>1, <2>1, <3>1 DEF Copied
      <3>3. QED  BY <3>2 DEF CountInv, CountTypes
    <2>4. ShownBehind'
      BY <1>1, <2>1, <2>3 DEF CountInv, ShownBehind
    <2>5. QED  BY <1>1, <2>2, <2>4 DEF CountInv
  <1>3. CASE CopyKey
    <2>1. PICK k \in toCopy : /\ snap' = Put(snap, k, shared[k])
                              /\ toCopy' = toCopy \ {k}
      BY <1>3 DEF CopyKey
    <2>2. UNCHANGED <<reader, stats>>
      BY <1>3 DEF CopyKey
    <2>3. /\ k \in DOMAIN shared /\ shared[k] \in Nat
          /\ DOMAIN snap' = DOMAIN snap \cup {k}
      BY <2>1 DEF CountInv, CountTypes, Put
    <2>4. CountTypes' /\ CopyBehind'
      BY <1>1, <2>1, <2>2, <2>3 DEF CountInv, CountTypes, CopyBehind, Put
    <2>5. Copied' = Copied
      <3>1. DOMAIN snap' \cup toCopy' = DOMAIN snap \cup toCopy
        BY <2>1, <2>3
      <3>2. ASSUME NEW x \in DOMAIN snap \cup toCopy
            PROVE  (IF x \in toCopy' THEN shared'[x] ELSE snap'[x])
                      = (IF x \in toCopy THEN shared[x] ELSE snap[x])
        BY <1>1, <2>1 DEF Put
      <3>3. QED  BY <3>1, <3>2, Zenon DEF Copied
    <2>6. ShownBehind'
      BY <1>1, <2>2, <2>5 DEF CountInv, ShownBehind
    <2>7. QED  BY <1>1, <2>4, <2>6 DEF CountInv
  <1>4. CASE Show
    <2>1. /\ reader = "copying" /\ toCopy = {} /\ stats' = Total(snap)
          /\ snap' = Empty /\ UNCHANGED toCopy /\ reader' = "reading"
      BY <1>4 DEF Show
    <2>2. Total(snap) \in Nat /\ Total(snap) <= Total(shared)
      <3>1. IsFiniteSet(DOMAIN shared)
        BY WritersFinite DEF CountInv, CountTypes
      <3>2. QED
        BY <3>1, TotalMonotone DEF CountInv, CountTypes, CopyBehind
    <2>3. CountTypes' /\ CopyBehind'
      BY <1>1, <2>1, <2>2 DEF CountInv, CountTypes, CopyBehind, Empty
    <2>4. ShownBehind'
      BY <1>1, <2>1, <2>2 DEF ShownBehind
    <2>5. QED  BY <1>1, <2>3, <2>4 DEF CountInv
  <1>5. QED  BY <1>2, <1>3, <1>4 DEF Read

LEMMA CountInvNext == CountInv /\ [Next]_vars => CountInv'
  <1> SUFFICES ASSUME CountInv, [Next]_vars
               PROVE  CountInv'
    OBVIOUS
  <1>1. CASE Read
    BY <1>1, ReadKeepsCount
  <1>2. CASE ReaderFails
    <2>1. /\ UNCHANGED <<count, shared, toCopy, snap, stats>>
          /\ reader' = "dead"
      BY <1>2 DEF ReaderFails, ofWriters
    <2>2. QED
      BY <2>1 DEF CountInv, CountTypes, PublishedBehind, CopyBehind, ShownBehind
  <1>3. CASE ~Read /\ ~ReaderFails
    BY <1>3, WriterSteps, WriterStepKeepsCount
  <1>4. QED  BY <1>1, <1>2, <1>3

(* With any number of processes and in any order of their publications     *)
(* and of the reader's copies, the total on the page never goes back and   *)
(* never counts a write that is not acknowledged.                          *)
THEOREM TotalNeverGoesBack == Spec => TotalOnlyGrows
  <1>1. CountInv /\ CountInv' /\ [Next]_vars
           => [stats <= stats' /\ stats' <= Total(count')]_vars
    <2> SUFFICES ASSUME CountInv, CountInv', [Next]_vars
                 PROVE  stats <= stats' /\ stats' <= Total(count')
      OBVIOUS
    <2>1. stats <= stats'
      <3>1. stats \in Nat
        BY DEF CountInv, CountTypes
      <3>2. CASE Show
        <4>1. reader = "copying" /\ toCopy = {} /\ stats' = Total(snap)
          BY <3>2 DEF Show
        <4>2. Copied = snap
          <5>1. Copied = [k \in DOMAIN snap |-> snap[k]]
            BY <4>1 DEF Copied
          <5>2. QED  BY <5>1 DEF CountInv, CountTypes
        <4>3. QED  BY <4>1, <4>2 DEF CountInv, ShownBehind
      <3>3. CASE ~Show
        <4>1. UNCHANGED stats
          <5>1. CASE Read \/ ReaderFails
            BY <3>3, <5>1 DEF Read, StartCopy, CopyKey, ReaderFails
          <5>2. CASE ~Read /\ ~ReaderFails
            BY <5>2, WriterSteps DEF WriterStep
          <5>3. QED  BY <5>1, <5>2
        <4>2. QED  BY <3>1, <4>1
      <3>4. QED  BY <3>2, <3>3
    <2>2. stats' <= Total(count')
      <3>1. /\ count' \in [Writers -> Nat] /\ shared' \in [DOMAIN shared' -> Nat]
            /\ DOMAIN shared' \subseteq Writers
            /\ \A w \in DOMAIN shared' : shared'[w] <= count'[w]
            /\ stats' \in Nat /\ stats' <= Total(shared')
        BY DEF CountInv, CountTypes, PublishedBehind, ShownBehind
      <3>2. /\ Total(shared') \in Nat /\ Total(count') \in Nat
            /\ Total(shared') <= Total(count')
        BY <3>1, FleetAssumption, TotalMonotone
      <3>3. QED  BY <3>1, <3>2
    <2>3. QED  BY <2>1, <2>2
  <1>2. Spec => []CountInv
    BY CountInvInit, CountInvNext, PTL DEF Spec
  <1>3. QED  BY <1>1, <1>2, PTL DEF Spec, TotalOnlyGrows
=============================================================================
