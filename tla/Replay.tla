------------------------------- MODULE Replay -------------------------------
(***************************************************************************)
(* src/feature_store/replay.py feeding the feature engine: day files are   *)
(* read one after the other, each sorted by time, and every row becomes a  *)
(* fill the engine applies before the next one is drawn.                   *)
(*                                                                         *)
(* The sort of a day file does not promise to keep the order of rows with  *)
(* equal times (polars' sort is not stable unless asked), so any order of  *)
(* ties may come out.                                                      *)
(***************************************************************************)
EXTENDS FeatureEngine

CONSTANT Replays     \* what may be replayed: the day files in order of their names,
                     \* --days and --max-fills; 0 is "not given": both are falsy

(* A file is finite, and its rows are its own.                             *)
ASSUME ReplaysAssumption ==
    \A r \in Replays :
        /\ r.files \in Seq(SUBSET Fills)
        /\ r.days \in Nat /\ r.max_fills \in Nat
        /\ \A i \in DOMAIN r.files : IsFiniteSet(r.files[i])
        /\ \A i, j \in DOMAIN r.files : i < j => r.files[i] \cap r.files[j] = {}

VARIABLES files,                  \* the day files found, each a set of fills
          limitDays, maxFills,    \* the arguments of this replay
          day,      \* how many files have been opened
          left,     \* rows of the current file not yielded yet
          ended     \* the generator has returned

arguments == <<files, limitDays, maxFills>>
replayVars == <<engineVars, arguments, day, left, ended>>

(* files[:limit_days] if limit_days else files                             *)
DayFiles ==
    IF limitDays = 0 \/ limitDays > Len(files) THEN files ELSE SubSeq(files, 1, limitDays)

ReplayInit ==
    /\ EngineInit
    /\ \E r \in Replays : files = r.files /\ limitDays = r.days /\ maxFills = r.max_fills
    /\ day = 0
    /\ left = {}
    /\ ended = FALSE

OpenDay ==
    /\ ~ended
    /\ left = {}
    /\ day < Len(DayFiles)
    /\ day' = day + 1
    /\ left' = DayFiles[day + 1]
    /\ UNCHANGED <<engineVars, arguments, ended>>

(* The rows the sort may put first.                                        *)
NextRows == {f \in left : \A g \in left : f.ms <= g.ms}

(* `if max_fills and n >= max_fills: return', after the fill was yielded.  *)
EnoughAndOne(yielded) == maxFills # 0 /\ yielded > maxFills     \* mutant: tested too late
Enough(yielded) == maxFills # 0 /\ yielded >= maxFills

Yield ==
    /\ ~ended
    /\ \E f \in NextRows :
          /\ Apply(f)
          /\ left' = left \ {f}
    /\ ended' = Enough(Len(applied'))
    /\ UNCHANGED <<arguments, day>>

EndOfFiles ==
    /\ ~ended
    /\ left = {}
    /\ day = Len(DayFiles)
    /\ ended' = TRUE
    /\ UNCHANGED <<engineVars, arguments, day, left>>

Finished == ended /\ UNCHANGED replayVars

ReplayNext == OpenDay \/ Yield \/ EndOfFiles \/ Finished

ReplaySpec == ReplayInit /\ [][ReplayNext]_replayVars

-----------------------------------------------------------------------------
(* "Day files are already time-partitioned and disjoint" (iter_fills); the *)
(* code does not check it.                                                 *)
Disjoint ==
    \A i, j \in DOMAIN files : i < j => \A f \in files[i], g \in files[j] : f.ms < g.ms

(* The rows a replay yields, however the ties are ordered: without a limit *)
(* all rows of the files --days selects, each once; with one, exactly that *)
(* many of them; and if the files are disjoint they come in "global        *)
(* timestamp order" and no row while an earlier one is left out.           *)
Selected == UNION {DayFiles[i] : i \in DOMAIN DayFiles}
Yielded == {applied[i] : i \in DOMAIN applied}
Complete == ended /\ (maxFills = 0 \/ maxFills >= Cardinality(Selected))

WholeFilesReplayed ==
    /\ Disjoint => InOrder
    /\ ended =>
        /\ Yielded \subseteq Selected
        /\ Cardinality(Yielded) = Len(applied)
        /\ IF Complete THEN Yielded = Selected ELSE Len(applied) = maxFills
        /\ Disjoint => \A f \in Yielded, g \in Selected \ Yielded : f.ms <= g.ms

(* "idempotent on replay": whatever order ties come out in, the end of a   *)
(* complete replay leaves the same totals, those of the set of rows: net   *)
(* position, PnL and fill count per position and, files being disjoint,    *)
(* the volume of every bucket, open or closed.                             *)
SumOfRows(S, g(_)) == MapThenSumSet(g, S)

TotalsIndependentOfTies ==
    Complete =>
        /\ \A k \in Addrs \X Coins :
              LET rows == {f \in Selected : f.addr = k[1] /\ f.coin = k[2]}
              IN  rows # {} =>
                    /\ wc[k].net_pos = SumOfRows(rows, SignedSz)
                    /\ wc[k].realized_pnl = SumOfRows(rows, LAMBDA f : f.pnl)
                    /\ wc[k].fill_count = Cardinality(rows)
        /\ Disjoint => \A k \in DOMAIN open :
              \A b \in {open[k]} \cup {closed[k][i] : i \in DOMAIN closed[k]} :
                  LET rows == {f \in Selected : f.coin = k[1]
                                  /\ b.bucket_ts * 1000 <= f.ms
                                  /\ f.ms < (b.bucket_ts + Size(k[2])) * 1000}
                  IN  b.volume = SumOfRows(rows, Notional)
=============================================================================
