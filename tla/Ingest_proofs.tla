--------------------------- MODULE Ingest_proofs ----------------------------
(***************************************************************************)
(* Theorems about Ingest, for streams of any length, any timer intervals   *)
(* and any number of bursts.                                               *)
(***************************************************************************)
EXTENDS Ingest, TLAPS

(* TypeOK, taken apart, with the types of the histories and the place of   *)
(* the loop among the fills.                                               *)
TimesTyped ==
    /\ clock \in Nat /\ clock <= MaxClock
    /\ now \in Nat /\ now <= clock
    /\ lastCheck \in Nat /\ lastCheck <= clock
    /\ lastFlush \in Nat /\ lastFlush <= clock
    /\ lastPublish \in Nat /\ lastPublish <= clock
    /\ nextEmit \in Nat /\ skipped \in Nat
    /\ burstUntil \in Nat /\ burstUntil <= clock + BurstTicks

LoopTyped ==
    /\ pc \in {"draw", "pace", "sleep", "apply", "done"}
    /\ n \in Nat /\ n <= Len(Times)
    /\ pc \in {"pace", "sleep", "apply"} => n < Len(Times)
    /\ published \in Nat /\ published <= n
    /\ flushed \in Nat /\ flushed <= n
    /\ presses \in Nat /\ presses <= MaxBursts

FlagsTyped == fast \in BOOLEAN /\ bursting \in BOOLEAN

HistoriesTyped ==
    /\ appliedAt \in Seq(Nat) /\ Len(appliedAt) = n
    /\ pacedAt \in Seq([at : Nat, fast : BOOLEAN])
    /\ Len(pacedAt) = n + (IF pc \in {"sleep", "apply"} THEN 1 ELSE 0)

TypeInv == TimesTyped /\ LoopTyped /\ FlagsTyped /\ HistoriesTyped

(* The fill being paced or, between two fills, the last one applied.       *)
Paced == Len(pacedAt)

(* next_emit carries the pace: the data time let go so far fits in it and  *)
(* what bursts skipped, and no fill is applied before it.                  *)
OnSchedule ==
    /\ n = 0 => nextEmit = 0
    /\ Paced > 0 => Times[Paced] - Times[1] <= nextEmit + skipped
    /\ pc = "apply" => nextEmit <= clock
    /\ pc \in {"draw", "pace"} /\ n > 0 => nextEmit <= appliedAt[n]

(* Since fill i, if no burst was on, next_emit has advanced by the data    *)
(* time, from no more than MaxDebt before the moment i was let go.         *)
DebtCarried ==
    \A i \in 2..Paced :
        (\A m \in (i + 1)..Paced : ~pacedAt[m].fast) =>
            Times[Paced] - Times[i] <= nextEmit - pacedAt[i].at + MaxDebt

(* A fill that the flushed windows lack was applied after that flush; one  *)
(* that is applied when a flush is due is flushed.                         *)
FlushOnTime ==
    /\ flushed < n => lastFlush <= appliedAt[flushed + 1]
    /\ pc = "draw" /\ flushed < n => now - lastFlush < FlushEvery

(* The flag is what the deadline said at the last look, or the button was  *)
(* pressed after it.                                                       *)
FlagFollowsDeadline ==
    /\ bursting => lastCheck < burstUntil
    /\ ~bursting => \/ presses = 0
                    \/ lastCheck >= burstUntil
                    \/ lastCheck <= burstUntil - BurstTicks
    /\ pc = "pace" => lastCheck <= now /\ now - lastCheck < CheckEvery

-----------------------------------------------------------------------------
LEMMA TimesType ==
    /\ Times \in Seq(Nat) /\ Len(Times) \in Nat
    /\ \A i \in 1..Len(Times) : Times[i] \in Nat
    /\ \A i, j \in 1..Len(Times) : i < j => Times[i] <= Times[j]
  <1>1. Times \in Seq(Nat)
    BY IngestAssumption
  <1>2. Len(Times) \in Nat /\ DOMAIN Times = 1..Len(Times)
    BY <1>1
  <1>3. \A i \in 1..Len(Times) : Times[i] \in Nat
    BY <1>1
  <1>4. \A i, j \in 1..Len(Times) : i < j => Times[i] <= Times[j]
    BY <1>2, IngestAssumption
  <1> QED
    BY <1>1, <1>2, <1>3, <1>4

LEMMA BoundsType ==
    /\ CheckEvery \in Nat \ {0} /\ FlushEvery \in Nat \ {0}
    /\ PublishEvery \in Nat \ {0} /\ BurstTicks \in Nat \ {0}
    /\ MaxDebt \in Nat /\ MaxBursts \in Nat /\ MaxClock \in Nat
  BY IngestAssumption

LEMMA GapType == LoopTyped /\ pc = "pace" => Gap \in Nat
  <1> SUFFICES ASSUME LoopTyped, pc = "pace", n # 0
               PROVE  Times[n + 1] - Times[n] \in Nat
    BY DEF Gap
  <1>1. n \in 1..Len(Times) /\ n + 1 \in 1..Len(Times) /\ n < n + 1
    BY TimesType DEF LoopTyped
  <1> QED
    BY <1>1, TimesType

LEMMA TypeInit == Init => TypeInv
  <1> SUFFICES ASSUME Init PROVE TypeInv
    OBVIOUS
  <1>1. TimesTyped
    BY BoundsType DEF Init, TimesTyped
  <1>2. LoopTyped
    BY BoundsType, TimesType DEF Init, LoopTyped
  <1>3. FlagsTyped
    BY DEF Init, FlagsTyped
  <1>4. HistoriesTyped
    BY DEF Init, HistoriesTyped
  <1> QED
    BY <1>1, <1>2, <1>3, <1>4 DEF TypeInv

LEMMA TimesStep == TypeInv /\ [Next]_vars => TimesTyped'
  <1> SUFFICES ASSUME TypeInv, [Next]_vars PROVE TimesTyped'
    OBVIOUS
  <1> USE BoundsType DEF TypeInv, TimesTyped, shared, history
  <1>1. CASE Pace
    <2> DEFINE due == nextEmit + (IF fast THEN 0 ELSE Gap)
    <2>1. due \in Nat /\ Gap \in Nat
      BY <1>1, GapType DEF Pace
    <2>2. nextEmit' \in {clock, due} /\ skipped' \in {skipped, skipped + Gap}
      BY <1>1 DEF Pace
    <2> HIDE DEF due
    <2> QED
      BY <2>1, <2>2, <1>1 DEF Pace
  <1>2. CASE DrawFill
    BY <1>2 DEF DrawFill
  <1>3. CASE Apply
    BY <1>3 DEF Apply
  <1>4. CASE Burst
    BY <1>4 DEF Burst
  <1>5. CASE Tick
    BY <1>5 DEF Tick
  <1>6. CASE Wake \/ Finish \/ UNCHANGED vars
    BY <1>6 DEF Wake, Finish, vars
  <1> QED
    BY <1>1, <1>2, <1>3, <1>4, <1>5, <1>6 DEF Next

LEMMA LoopStep == TypeInv /\ [Next]_vars => LoopTyped'
  <1> SUFFICES ASSUME TypeInv, [Next]_vars PROVE LoopTyped'
    OBVIOUS
  <1> USE BoundsType, TimesType DEF TypeInv, LoopTyped, shared, history
  <1>1. CASE DrawFill \/ Pace \/ Wake
    BY <1>1 DEF DrawFill, Pace, Wake
  <1>2. CASE Apply
    BY <1>2 DEF Apply
  <1>3. CASE Finish \/ Burst
    BY <1>3 DEF Finish, Burst
  <1>4. CASE Tick \/ UNCHANGED vars
    BY <1>4 DEF Tick, vars
  <1> QED
    BY <1>1, <1>2, <1>3, <1>4 DEF Next

LEMMA FlagsStep == TypeInv /\ [Next]_vars => FlagsTyped'
  <1> SUFFICES ASSUME FlagsTyped, [Next]_vars PROVE FlagsTyped'
    BY DEF TypeInv
  <1>1. CASE DrawFill
    <2>1. CASE LookDue(now')
      <3> DEFINE on == clock < burstUntil
      <3>1. on \in BOOLEAN
        OBVIOUS
      <3>2. fast' = on /\ bursting' = fast'
        BY <1>1, <2>1 DEF DrawFill
      <3> HIDE DEF on
      <3> QED
        BY <3>1, <3>2, Zenon DEF FlagsTyped
    <2>2. CASE ~LookDue(now')
      BY <1>1, <2>2 DEF DrawFill, FlagsTyped
    <2> QED
      BY <2>1, <2>2
  <1>2. CASE ~DrawFill
    BY <1>2 DEF Next, Pace, Wake, Apply, Finish, Burst, Tick, vars, shared, FlagsTyped
  <1> QED
    BY <1>1, <1>2

LEMMA HistoriesStep == TypeInv /\ [Next]_vars => HistoriesTyped'
  <1> SUFFICES ASSUME TypeInv, [Next]_vars PROVE HistoriesTyped'
    OBVIOUS
  <1>1. CASE Pace
    <2> DEFINE due == nextEmit + (IF fast THEN 0 ELSE Gap)
               entry == [at |-> IF due > clock THEN due ELSE clock, fast |-> fast]
    <2>1. entry \in [at : Nat, fast : BOOLEAN]
      <3>1. due \in Nat /\ clock \in Nat /\ fast \in BOOLEAN
        BY <1>1, GapType DEF Pace, TypeInv, TimesTyped, FlagsTyped
      <3> HIDE DEF due
      <3> QED
        BY <3>1
    <2>2. pacedAt' = Append(pacedAt, entry) /\ UNCHANGED <<n, appliedAt>>
          /\ pc = "pace" /\ pc' \in {"sleep", "apply"}
      BY <1>1 DEF Pace
    <2> HIDE DEF entry
    <2> QED
      BY <2>1, <2>2 DEF TypeInv, HistoriesTyped, LoopTyped
  <1>2. CASE Apply
    BY <1>2 DEF Apply, TypeInv, HistoriesTyped, TimesTyped, LoopTyped
  <1>3. CASE DrawFill \/ Wake \/ Finish \/ Burst \/ Tick \/ UNCHANGED vars
    BY <1>3 DEF DrawFill, Wake, Finish, Burst, Tick, vars, history, TypeInv, HistoriesTyped
  <1> QED
    BY <1>1, <1>2, <1>3 DEF Next

LEMMA TypeStep == TypeInv /\ [Next]_vars => TypeInv'
  BY TimesStep, LoopStep, FlagsStep, HistoriesStep DEF TypeInv

LEMMA TypeInvariant == Spec => []TypeInv
  BY TypeInit, TypeStep, PTL DEF Spec

(* The loop, its timers and its histories keep their types and ranges.     *)
THEOREM IngestTypeCorrect == Spec => []TypeOK
  <1>1. TypeInv => TypeOK
    BY BoundsType, TimesType
       DEF TypeInv, TimesTyped, LoopTyped, FlagsTyped, HistoriesTyped, TypeOK
  <1> QED
    BY <1>1, TypeInvariant, PTL

-----------------------------------------------------------------------------
(* What each step does to what OnSchedule and DebtCarried are about.       *)

(* A fill is let go: due is when, and next_emit is due or a later moment.  *)
LEMMA PaceSteps ==
    ASSUME TypeInv, Pace
    PROVE  /\ n < Len(Times) /\ Paced = n /\ Paced' = n + 1
           /\ UNCHANGED <<n, clock, appliedAt>>
           /\ \A i \in 1..n : pacedAt'[i] = pacedAt[i]
           /\ pacedAt'[n + 1].fast = fast
           /\ Gap \in Nat
           /\ \E d \in Nat :
                 /\ d = nextEmit + (IF fast THEN 0 ELSE Gap)
                 /\ nextEmit' = IF n > 0 /\ d - clock < -MaxDebt THEN clock ELSE d
                 /\ pc' = IF n > 0 /\ d > clock THEN "sleep" ELSE "apply"
                 /\ pacedAt'[n + 1].at = IF d > clock THEN d ELSE clock
           /\ skipped' = IF fast THEN skipped + Gap ELSE skipped
  <1> DEFINE due == nextEmit + (IF fast THEN 0 ELSE Gap)
             entry == [at |-> IF due > clock THEN due ELSE clock, fast |-> fast]
  <1>1. Gap \in Nat /\ due \in Nat
    BY GapType DEF Pace, TypeInv, TimesTyped
  <1>2. /\ pacedAt' = Append(pacedAt, entry)
        /\ nextEmit' = IF n > 0 /\ due - clock < -MaxDebt THEN clock ELSE due
        /\ pc' = IF n > 0 /\ due > clock THEN "sleep" ELSE "apply"
        /\ skipped' = IF fast THEN skipped + Gap ELSE skipped
        /\ UNCHANGED <<n, clock, appliedAt>>
    BY DEF Pace, TooFarBehind
  <1>3. n < Len(Times) /\ Len(pacedAt) = n /\ n \in Nat
    BY DEF Pace, TypeInv, LoopTyped, HistoriesTyped
  <1>4. /\ Len(pacedAt') = n + 1
        /\ \A i \in 1..n : pacedAt'[i] = pacedAt[i]
        /\ pacedAt'[n + 1] = entry
    <2> HIDE DEF entry
    <2>1. pacedAt \in Seq([at : Nat, fast : BOOLEAN])
      BY DEF TypeInv, HistoriesTyped
    <2> QED
      BY <2>1, <1>2, <1>3
  <1>5. entry.fast = fast /\ entry.at = IF due > clock THEN due ELSE clock
    OBVIOUS
  <1> HIDE DEF due, entry
  <1>6. due = nextEmit + (IF fast THEN 0 ELSE Gap)
    BY DEF due
  <1>7. /\ due = nextEmit + (IF fast THEN 0 ELSE Gap)
        /\ nextEmit' = IF n > 0 /\ due - clock < -MaxDebt THEN clock ELSE due
        /\ pc' = IF n > 0 /\ due > clock THEN "sleep" ELSE "apply"
        /\ pacedAt'[n + 1].at = IF due > clock THEN due ELSE clock
    BY <1>2, <1>4, <1>5, <1>6
  <1> QED
    BY <1>1, <1>2, <1>3, <1>4, <1>5, <1>7 DEF Paced

(* Every other step leaves the schedule alone.                             *)
LEMMA OtherSteps ==
    ASSUME TypeInv, [Next]_vars, ~Pace
    PROVE  UNCHANGED <<nextEmit, pacedAt, skipped, Paced>>
  BY DEF Next, DrawFill, Wake, Apply, Finish, Burst, Tick, vars, history, Paced

LEMMA ScheduleInit == Init => OnSchedule /\ DebtCarried
  BY DEF Init, OnSchedule, DebtCarried, Paced

LEMMA ScheduleStep == TypeInv /\ OnSchedule /\ [Next]_vars => OnSchedule'
  <1> SUFFICES ASSUME TypeInv, OnSchedule, [Next]_vars PROVE OnSchedule'
    OBVIOUS
  <1>1. CASE Pace
    <2>1. PICK d \in Nat :
              /\ d = nextEmit + (IF fast THEN 0 ELSE Gap)
              /\ nextEmit' = IF n > 0 /\ d - clock < -MaxDebt THEN clock ELSE d
              /\ pc' = IF n > 0 /\ d > clock THEN "sleep" ELSE "apply"
      BY <1>1, PaceSteps
    <2>2. /\ n < Len(Times) /\ Paced = n /\ Paced' = n + 1 /\ Gap \in Nat
          /\ UNCHANGED <<n, clock, appliedAt>>
          /\ skipped' = IF fast THEN skipped + Gap ELSE skipped
      BY <1>1, PaceSteps
    <2>3. n \in Nat /\ clock \in Nat /\ nextEmit \in Nat /\ skipped \in Nat
      BY DEF TypeInv, TimesTyped, LoopTyped
    <2>4. nextEmit' \in Nat /\ nextEmit' >= d /\ (pc' = "apply" => nextEmit' <= clock)
      BY <1>1, <2>1, <2>3, BoundsType DEF OnSchedule, Gap
    <2>5. Times[n + 1] - Times[1] <= nextEmit' + skipped'
      <3>1. CASE n = 0
        <4>1. Times[1] \in Nat /\ n + 1 = 1
          BY <3>1, <2>2, TimesType
        <4>2. skipped' \in Nat /\ nextEmit' \in Nat
          BY <2>2, <2>3, <2>4
        <4>3. Times[n + 1] - Times[1] = 0
          <5>1. Times[n + 1] = Times[1]
            BY <4>1
          <5> QED
            BY <5>1, <4>1
        <4> QED
          BY <4>2, <4>3
      <3>2. CASE n > 0
        <4>1. Times[1] \in Nat /\ Times[n] \in Nat /\ Times[n + 1] \in Nat
          BY <3>2, <2>2, <2>3, TimesType
        <4>2. Gap = Times[n + 1] - Times[n]
          BY <3>2 DEF Gap
        <4>3. Times[n] - Times[1] <= nextEmit + skipped
          BY <3>2, <2>2 DEF OnSchedule
        <4>4. d + skipped' = nextEmit + skipped + Gap /\ skipped' \in Nat
          <5>1. CASE fast
            BY <5>1, <2>1, <2>2, <2>3
          <5>2. CASE ~fast
            BY <5>2, <2>1, <2>2, <2>3
          <5> QED
            BY <5>1, <5>2
        <4> QED
          BY <4>1, <4>2, <4>3, <4>4, <2>3, <2>4
      <3> QED
        BY <3>1, <3>2, <2>3
    <2> QED
      BY <1>1, <2>1, <2>2, <2>4, <2>5 DEF OnSchedule, Gap
  <1>2. CASE ~Pace
    <2>1. UNCHANGED <<nextEmit, pacedAt, skipped, Paced>>
      BY <1>2, OtherSteps
    <2>2. CASE Apply
      <3>1. n' = n + 1 /\ appliedAt'[n'] = clock /\ n \in Nat
        BY <2>2 DEF Apply, TypeInv, LoopTyped, HistoriesTyped
      <3> QED
        BY <2>1, <2>2, <3>1 DEF Apply, OnSchedule
    <2>3. CASE ~Apply
      BY <1>2, <2>1, <2>3
         DEF Next, DrawFill, Wake, Finish, Burst, Tick, vars, history, OnSchedule,
             TypeInv, TimesTyped
    <2> QED
      BY <2>2, <2>3
  <1> QED
    BY <1>1, <1>2

LEMMA NeverAheadStep ==
    TypeInv /\ OnSchedule /\ NeverAhead /\ [Next]_vars => NeverAhead'
  <1> SUFFICES ASSUME TypeInv, OnSchedule, NeverAhead, [Next]_vars, n' > 0
               PROVE  Times[n'] - Times[1] <= appliedAt'[n'] + skipped'
    BY DEF NeverAhead
  <1>t. n \in Nat /\ n <= Len(Times) /\ skipped \in Nat /\ nextEmit \in Nat /\ clock \in Nat
    BY DEF TypeInv, LoopTyped, TimesTyped
  <1>1. CASE Apply
    <2>1. Paced = n + 1 /\ nextEmit <= clock /\ n' = n + 1 /\ skipped' = skipped
      BY <1>1 DEF Apply, TypeInv, HistoriesTyped, OnSchedule, Paced
    <2>2. appliedAt'[n'] = clock
      BY <1>1, <1>t DEF Apply, TypeInv, HistoriesTyped
    <2>3. Times[n + 1] - Times[1] <= nextEmit + skipped
      BY <2>1, <1>t DEF OnSchedule
    <2>4. Times[n + 1] \in Nat /\ Times[1] \in Nat
      BY <1>1, <1>t, TimesType DEF Apply, TypeInv, LoopTyped
    <2> QED
      BY <2>1, <2>2, <2>3, <2>4, <1>t
  <1>2. CASE ~Apply
    <2>1. n' = n /\ appliedAt' = appliedAt
      BY <1>2 DEF Next, DrawFill, Pace, Wake, Finish, Burst, Tick, vars, history
    <2>2. skipped' \in Nat /\ skipped <= skipped'
      <3>1. CASE Pace
        BY <3>1, <1>t, PaceSteps
      <3>2. CASE ~Pace
        BY <3>2, <1>t, OtherSteps
      <3> QED
        BY <3>1, <3>2
    <2>3. Times[n] - Times[1] <= appliedAt[n] + skipped
      BY <2>1, <1>t DEF NeverAhead
    <2>4. Times[n] \in Nat /\ Times[1] \in Nat /\ appliedAt[n] \in Nat
      BY <2>1, <1>t, TimesType DEF TypeInv, HistoriesTyped
    <2> QED
      BY <2>1, <2>2, <2>3, <2>4, <1>t
  <1> QED
    BY <1>1, <1>2

(* The replay never runs ahead of its speed, however late the loop is, how *)
(* often it starts over from the present and however many bursts there     *)
(* are: next_emit only ever loses time to the fills.                       *)
THEOREM ReplayNeverAhead == Spec => []NeverAhead
  <1> DEFINE Inv == TypeInv /\ OnSchedule /\ NeverAhead
  <1>1. Init => Inv
    BY TypeInit, ScheduleInit DEF Init, NeverAhead
  <1>2. Inv /\ [Next]_vars => Inv'
    BY TypeStep, ScheduleStep, NeverAheadStep
  <1> QED
    BY <1>1, <1>2, PTL DEF Spec

-----------------------------------------------------------------------------
(* Catching up.                                                            *)
LEMMA DebtStep ==
    ASSUME TypeInv, DebtCarried, Pace
    PROVE  /\ DebtCarried'
           /\ \A i \in 2..Paced' :
                 (\A m \in (i + 1)..Paced' : ~pacedAt'[m].fast) =>
                    Times[Paced'] - Times[i] <= pacedAt'[Paced'].at - pacedAt'[i].at + MaxDebt
  <1>1. PICK d \in Nat :
            /\ d = nextEmit + (IF fast THEN 0 ELSE Gap)
            /\ nextEmit' = IF n > 0 /\ d - clock < -MaxDebt THEN clock ELSE d
            /\ pacedAt'[n + 1].at = IF d > clock THEN d ELSE clock
    BY PaceSteps
  <1>2. /\ n < Len(Times) /\ Paced = n /\ Paced' = n + 1 /\ Gap \in Nat
        /\ \A i \in 1..n : pacedAt'[i] = pacedAt[i]
        /\ pacedAt'[n + 1].fast = fast
    BY PaceSteps
  <1>3. n \in Nat /\ clock \in Nat /\ nextEmit \in Nat /\ Paced \in Nat
    BY <1>2 DEF TypeInv, TimesTyped, LoopTyped
  <1> DEFINE at == pacedAt'[n + 1].at
  <1>4. n > 0 => at \in Nat /\ nextEmit' \in Nat /\ nextEmit' >= d /\ nextEmit' <= at
                 /\ nextEmit' >= at - MaxDebt
    BY <1>1, <1>3, BoundsType
  <1> HIDE DEF at
  <1> SUFFICES ASSUME NEW i \in 2..(n + 1),
                      \A m \in (i + 1)..(n + 1) : ~pacedAt'[m].fast
               PROVE  /\ Times[n + 1] - Times[i] <= nextEmit' - pacedAt'[i].at + MaxDebt
                      /\ Times[n + 1] - Times[i] <= at - pacedAt'[i].at + MaxDebt
    BY <1>2 DEF DebtCarried, at
  <1>5. n > 0 /\ MaxDebt \in Nat
    BY <1>3, BoundsType
  <1>6. CASE i = n + 1
    <2>1. Times[n + 1] \in Nat /\ pacedAt'[i].at = at
      BY <1>2, <1>3, <1>6, TimesType DEF at
    <2> QED
      BY <1>4, <1>5, <1>6, <2>1
  <1>7. CASE i \in 2..n
    <2>1. ~fast /\ Gap = Times[n + 1] - Times[n]
      <3>1. n + 1 \in (i + 1)..(n + 1)
        BY <1>3, <1>7
      <3> QED
        BY <3>1, <1>2, <1>5 DEF Gap
    <2>2. \A m \in (i + 1)..Paced : ~pacedAt[m].fast
      BY <1>2, <1>3, <1>7
    <2>3. Times[n] - Times[i] <= nextEmit - pacedAt[i].at + MaxDebt
      BY <2>2, <1>2, <1>7 DEF DebtCarried
    <2>4. pacedAt'[i] = pacedAt[i] /\ pacedAt[i].at \in Nat
      <3>1. i \in 1..n /\ i \in 1..Len(pacedAt) /\ pacedAt \in Seq([at : Nat, fast : BOOLEAN])
        BY <1>2, <1>7 DEF Paced, TypeInv, HistoriesTyped
      <3> DEFINE R == [at : Nat, fast : BOOLEAN]
      <3>2. pacedAt[i] \in R
        <4> HIDE DEF R
        <4>1. pacedAt \in Seq(R)
          BY <3>1 DEF R
        <4> QED
          BY <3>1, <4>1
      <3>3. pacedAt[i].at \in Nat
        BY <3>2
      <3> QED
        BY <3>1, <3>3, <1>2
    <2>5. Times[n + 1] \in Nat /\ Times[n] \in Nat /\ Times[i] \in Nat
      BY <1>2, <1>3, <1>7, TimesType
    <2>6. d = nextEmit + Gap
      BY <1>1, <2>1
    <2> QED
      BY <2>1, <2>3, <2>4, <2>5, <2>6, <1>3, <1>4, <1>5
  <1> QED
    BY <1>3, <1>6, <1>7

LEMMA CatchUpStep ==
    ASSUME TypeInv, DebtCarried, CatchUpBounded, Pace PROVE CatchUpBounded'
  <1>1. /\ n < Len(Times) /\ Paced = n /\ Paced' = n + 1
        /\ \A i \in 1..n : pacedAt'[i] = pacedAt[i]
    BY PaceSteps
  <1>2. n \in Nat
    BY DEF TypeInv, LoopTyped
  <1> SUFFICES ASSUME NEW i \in 2..(n + 1), NEW j \in 2..(n + 1), i < j,
                      \A m \in (i + 1)..j : ~pacedAt'[m].fast
               PROVE  Times[j] - Times[i] <= pacedAt'[j].at - pacedAt'[i].at + MaxDebt
    BY <1>1 DEF CatchUpBounded, Paced
  <1>3. CASE j = n + 1
    BY <1>1, <1>3, DebtStep
  <1>4. CASE j \in 2..n
    <2>1. i \in 2..n /\ \A m \in (i + 1)..j : ~pacedAt[m].fast
      BY <1>1, <1>2, <1>4
    <2>2. pacedAt'[i] = pacedAt[i] /\ pacedAt'[j] = pacedAt[j]
      BY <2>1, <1>1, <1>2, <1>4
    <2>3. i \in 2..Len(pacedAt) /\ j \in 2..Len(pacedAt)
      BY <2>1, <1>1, <1>4 DEF Paced
    <2> QED
      BY <2>1, <2>2, <2>3 DEF CatchUpBounded
  <1> QED
    BY <1>2, <1>3, <1>4

(* Outside bursts the replay gains at most MaxDebt on the clock between    *)
(* any two fills but the first, however often it fell behind in between.   *)
THEOREM DelaysAreForgiven == Spec => []CatchUpBounded
  <1> DEFINE Inv == TypeInv /\ DebtCarried /\ CatchUpBounded
  <1>1. Init => Inv
    BY TypeInit, ScheduleInit DEF Init, CatchUpBounded
  <1>2. Inv /\ [Next]_vars => Inv'
    <2> SUFFICES ASSUME Inv, [Next]_vars PROVE Inv'
      OBVIOUS
    <2>1. TypeInv'
      BY TypeStep
    <2>2. CASE Pace
      BY <2>1, <2>2, DebtStep, CatchUpStep
    <2>3. CASE ~Pace
      <3>1. UNCHANGED <<nextEmit, pacedAt, Paced>>
        BY <2>3, OtherSteps
      <3> QED
        BY <2>1, <3>1 DEF DebtCarried, CatchUpBounded
    <2> QED
      BY <2>2, <2>3
  <1> QED
    BY <1>1, <1>2, PTL DEF Spec

-----------------------------------------------------------------------------
(* The flushes and the burst flag.                                         *)
LEMMA FlushStep == TypeInv /\ FlushOnTime /\ [Next]_vars => FlushOnTime'
  <1> SUFFICES ASSUME TypeInv, FlushOnTime, [Next]_vars PROVE FlushOnTime'
    OBVIOUS
  <1> USE BoundsType DEF TypeInv, TimesTyped, LoopTyped, FlushOnTime
  <1>1. CASE Apply
    <2>1. /\ n' = n + 1 /\ now' = now
          /\ appliedAt'[n + 1] = clock
          /\ \A i \in 1..n : appliedAt'[i] = appliedAt[i]
      BY <1>1 DEF Apply, HistoriesTyped
    <2>2. CASE FlushDue
      BY <1>1, <2>1, <2>2 DEF Apply
    <2>3. CASE ~FlushDue
      <3>1. UNCHANGED <<flushed, lastFlush>> /\ now - lastFlush < FlushEvery
        BY <1>1, <2>3 DEF Apply, FlushDue
      <3>2. lastFlush <= appliedAt'[flushed + 1]
        <4>1. CASE flushed = n
          BY <2>1, <4>1
        <4>2. CASE flushed < n
          <5>1. flushed + 1 \in 1..n
            BY <4>2
          <5> QED
            BY <5>1, <2>1, <4>2
        <4> QED
          BY <4>1, <4>2
      <3> QED
        BY <2>1, <3>1, <3>2
    <2> QED
      BY <2>2, <2>3
  <1>2. CASE DrawFill
    BY <1>2 DEF DrawFill, history
  <1>3. CASE Finish
    BY <1>3 DEF Finish, history
  <1>4. CASE Pace \/ Wake \/ Burst \/ Tick \/ UNCHANGED vars
    BY <1>4 DEF Pace, Wake, Burst, Tick, vars, history
  <1> QED
    BY <1>1, <1>2, <1>3, <1>4 DEF Next

(* Between two fills the flushed windows lack only fills applied less than *)
(* a flush interval before the last one was drawn.                         *)
THEOREM WindowsNeverLagLong == Spec => []WindowsLagBounded
  <1> DEFINE Inv == TypeInv /\ FlushOnTime
  <1>1. Init => Inv
    BY TypeInit DEF Init, FlushOnTime
  <1>2. Inv /\ [Next]_vars => Inv'
    BY TypeStep, FlushStep
  <1>3. Inv => WindowsLagBounded
    <2> SUFFICES ASSUME Inv, pc = "draw", flushed < n
                 PROVE  now - appliedAt[flushed + 1] < FlushEvery
      BY DEF WindowsLagBounded
    <2>1. appliedAt[flushed + 1] \in Nat
      BY DEF TypeInv, HistoriesTyped, LoopTyped
    <2> QED
      BY <2>1, BoundsType DEF TypeInv, TimesTyped, FlushOnTime
  <1> QED
    BY <1>1, <1>2, <1>3, PTL DEF Spec

LEMMA FlagStep == TypeInv /\ FlagFollowsDeadline /\ [Next]_vars => FlagFollowsDeadline'
  <1> SUFFICES ASSUME TypeInv, FlagFollowsDeadline, [Next]_vars PROVE FlagFollowsDeadline'
    OBVIOUS
  <1> USE BoundsType DEF TypeInv, TimesTyped, LoopTyped, FlagFollowsDeadline
  <1>1. CASE DrawFill
    <2>1. CASE LookDue(now')
      <3> DEFINE on == clock < burstUntil
      <3>1. bursting' <=> on
        <4>1. fast' = on /\ bursting' = fast'
          BY <1>1, <2>1 DEF DrawFill
        <4> HIDE DEF on
        <4> QED
          BY ONLY <4>1, Zenon
      <3>2. /\ lastCheck' = clock /\ now' = clock
            /\ UNCHANGED <<burstUntil, presses>>
        BY <1>1, <2>1 DEF DrawFill
      <3> QED
        BY <3>1, <3>2
    <2>2. CASE ~LookDue(now')
      BY <1>1, <2>2 DEF DrawFill, LookDue
    <2> QED
      BY <2>1, <2>2
  <1>2. CASE Burst
    BY <1>2 DEF Burst
  <1>3. CASE ~DrawFill /\ ~Burst
    <2>1. \/ /\ UNCHANGED <<lastCheck, now, bursting, burstUntil, presses>>
             /\ pc' # "pace"
          \/ UNCHANGED <<lastCheck, now, bursting, burstUntil, presses, pc>>
      BY <1>3 DEF Next, Pace, Wake, Apply, Finish, Tick, vars, shared
    <2> QED
      BY <2>1
  <1> QED
    BY <1>1, <1>2, <1>3

(* As long as fills are drawn the page's burst flag is what the deadline   *)
(* said less than one check before.                                        *)
THEOREM BurstFlagIsFresh == Spec => []BurstStateRefreshed
  <1> DEFINE Inv == TypeInv /\ FlagFollowsDeadline
  <1>1. Init => Inv
    BY TypeInit DEF Init, FlagFollowsDeadline
  <1>2. Inv /\ [Next]_vars => Inv'
    BY TypeStep, FlagStep
  <1>3. Inv => BurstStateRefreshed
    BY BoundsType
       DEF TypeInv, TimesTyped, LoopTyped, FlagFollowsDeadline, BurstStateRefreshed
  <1> QED
    BY <1>1, <1>2, <1>3, PTL DEF Spec
=============================================================================
