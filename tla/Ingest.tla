------------------------------- MODULE Ingest -------------------------------
(***************************************************************************)
(* The dashboard's paced ingest process and its BURST button               *)
(* (src/feature_store/dashboard.py, _ingest_proc and burst): fills are     *)
(* replayed at the pace of their timestamps, as fast as possible while a   *)
(* burst is on, and open windows are flushed and totals published now and  *)
(* then, always on the arrival of a fill.                                  *)
(*                                                                         *)
(* Time is counted in ticks of 0.25 s. What a fill does to the engine and  *)
(* to the store is the subject of FeatureEngine.tla and Consumer.tla; here *)
(* a fill is its position in the stream.                                   *)
(***************************************************************************)
EXTENDS Integers, SequencesExt

CONSTANTS Times,         \* f.ts_ms of the fills, in ticks at the base speed
          CheckEvery,    \* ticks between two looks at the burst deadline
          FlushEvery,    \* ticks between two flushes of the open windows
          PublishEvery,  \* ticks between two publications of the totals
          MaxDebt,       \* ticks of delay that are caught up, not forgiven
          BurstTicks,    \* length of a burst
          Slow,          \* whether the loop itself takes time
          MaxBursts,     \* bound: presses of the button, in a behaviour
          MaxClock       \* bound: ticks, in a behaviour

ASSUME IngestAssumption ==
    /\ Times \in Seq(Nat)
    /\ \A i, j \in DOMAIN Times : i < j => Times[i] <= Times[j]
    /\ {CheckEvery, FlushEvery, PublishEvery, BurstTicks} \subseteq Nat \ {0}
    /\ {MaxDebt, MaxBursts, MaxClock} \subseteq Nat
    /\ Slow \in BOOLEAN

VARIABLES
    clock,        \* time.monotonic() and time.time()
    pc,           \* the ingest loop: "draw", "pace", "sleep", "apply", "done"
    n,            \* fills applied
    now,          \* the time read when the current fill was drawn
    lastCheck, lastFlush, lastPublish,
    nextEmit,     \* when the current fill is due
    fast,         \* eff_speed is 1e9: a burst was on at the last look
    burstUntil,   \* shared["burst_until"]
    bursting,     \* shared["bursting"], what the page shows
    flushed,      \* fills the store's open windows reflect
    published,    \* shared["fills_total"]
    appliedAt,    \* history: when each fill was applied
    pacedAt,      \* history: when each fill was let go, and whether fast
    skipped,      \* history: data time passed over in bursts
    presses

shared == <<burstUntil, bursting, published>>
history == <<appliedAt, pacedAt, skipped>>
vars == <<clock, pc, n, now, lastCheck, lastFlush, lastPublish, nextEmit, fast, shared,
          flushed, history, presses>>

Init ==
    /\ clock = 0
    /\ pc = "draw"
    /\ n = 0
    /\ now = 0
    /\ lastCheck = 0 /\ lastFlush = 0 /\ lastPublish = 0
    /\ nextEmit = 0
    /\ fast = FALSE
    /\ burstUntil = 0
    /\ bursting = FALSE
    /\ flushed = 0
    /\ published = 0
    /\ appliedAt = <<>>
    /\ pacedAt = <<>>
    /\ skipped = 0
    /\ presses = 0

-----------------------------------------------------------------------------
(* The loop. `now' is read as a fill is drawn; the shared burst deadline   *)
(* is looked at every CheckEvery ticks of it.                              *)
LookOverdue(time) == time - lastCheck > CheckEvery      \* mutant: > for >=
LookDue(time) == time - lastCheck >= CheckEvery

DrawFill ==
    /\ pc = "draw"
    /\ n < Len(Times)
    /\ now' = clock
    /\ IF LookDue(now')
       THEN /\ fast' = (clock < burstUntil)
            /\ bursting' = fast'
            /\ lastCheck' = now'
       ELSE UNCHANGED <<fast, bursting, lastCheck>>
    /\ pc' = "pace"
    /\ UNCHANGED <<clock, n, lastFlush, lastPublish, nextEmit, burstUntil, published,
                   flushed, history, presses>>

(* The data time between the fill drawn and the one before it; the first   *)
(* fill is not paced.                                                      *)
GapIgnored == 0                  \* mutant: prev_ts is never set
Gap == IF n = 0 THEN 0 ELSE Times[n + 1] - Times[n]

NeverBehind(due) == FALSE        \* mutant: a delay is never forgiven
TooFarBehind(due) == n > 0 /\ due - clock < -MaxDebt

(* next_emit advances by the gap (by next to nothing in a burst); wait for *)
(* it, or, when it is too far in the past, start over from the present.    *)
Pace ==
    /\ pc = "pace"
    /\ LET due == nextEmit + (IF fast THEN 0 ELSE Gap)
       IN  /\ nextEmit' = IF TooFarBehind(due) THEN clock ELSE due
           /\ pc' = IF n > 0 /\ due > clock THEN "sleep" ELSE "apply"
           /\ pacedAt' = Append(pacedAt, [at |-> IF due > clock THEN due ELSE clock,
                                          fast |-> fast])
    /\ skipped' = IF fast THEN skipped + Gap ELSE skipped
    /\ UNCHANGED <<clock, n, now, lastCheck, lastFlush, lastPublish, fast, shared,
                   flushed, appliedAt, presses>>

Wake ==
    /\ pc = "sleep"
    /\ clock >= nextEmit
    /\ pc' = "apply"
    /\ UNCHANGED <<clock, n, now, lastCheck, lastFlush, lastPublish, nextEmit, fast,
                   shared, flushed, history, presses>>

FlushOverdue == now - lastFlush > FlushEvery      \* mutant: > for >=
FlushDue == now - lastFlush >= FlushEvery

(* engine.apply and the writes of the fill, then the flush and the totals, *)
(* both judged by the time at which the fill was drawn.                    *)
Apply ==
    /\ pc = "apply"
    /\ n' = n + 1
    /\ appliedAt' = Append(appliedAt, clock)
    /\ IF FlushDue
       THEN flushed' = n' /\ lastFlush' = now
       ELSE UNCHANGED <<flushed, lastFlush>>
    /\ IF now - lastPublish >= PublishEvery
       THEN published' = n' /\ lastPublish' = now
       ELSE UNCHANGED <<published, lastPublish>>
    /\ pc' = "draw"
    /\ UNCHANGED <<clock, now, lastCheck, nextEmit, fast, burstUntil, bursting, pacedAt,
                   skipped, presses>>

(* The data has ended: a last flush, a drain, and the process exits.       *)
Finish ==
    /\ pc = "draw"
    /\ n = Len(Times)
    /\ flushed' = n
    /\ pc' = "done"
    /\ UNCHANGED <<clock, n, now, lastCheck, lastFlush, lastPublish, nextEmit, fast,
                   shared, history, presses>>

-----------------------------------------------------------------------------
(* POST /burst, at any time, again while a burst is on too.                *)
Burst ==
    /\ presses < MaxBursts
    /\ presses' = presses + 1
    /\ burstUntil' = clock + BurstTicks
    /\ UNCHANGED <<clock, pc, n, now, lastCheck, lastFlush, lastPublish, nextEmit, fast,
                   bursting, published, flushed, history>>

Tick ==
    /\ clock < MaxClock
    /\ Slow \/ pc \in {"sleep", "done"}
    /\ clock' = clock + 1
    /\ UNCHANGED <<pc, n, now, lastCheck, lastFlush, lastPublish, nextEmit, fast, shared,
                   flushed, history, presses>>

Next == DrawFill \/ Pace \/ Wake \/ Apply \/ Finish \/ Burst \/ Tick

Spec == Init /\ [][Next]_vars

-----------------------------------------------------------------------------
TypeOK ==
    /\ clock \in 0..MaxClock
    /\ pc \in {"draw", "pace", "sleep", "apply", "done"}
    /\ n \in 0..Len(Times)
    /\ {now, lastCheck, lastFlush, lastPublish} \subseteq 0..clock
    /\ nextEmit \in Nat
    /\ {fast, bursting} \subseteq BOOLEAN
    /\ burstUntil \in 0..(MaxClock + BurstTicks)
    /\ published \in 0..n /\ flushed \in 0..n
    /\ Len(appliedAt) = n
    /\ Len(pacedAt) \in {n, n + 1}
    /\ presses \in 0..MaxBursts

(* The replay never runs ahead of its speed: however late the loop is, how *)
(* often it resynchronises and however it catches up, data time since the  *)
(* first fill never exceeds the time elapsed plus what bursts skipped.     *)
NeverAhead ==
    n > 0 => Times[n] - Times[1] <= appliedAt[n] + skipped

(* Outside bursts a stall is not followed by a burst of its own: between   *)
(* any two fills the replay gains at most MaxDebt on the clock. The first  *)
(* fill is not paced, so the time it took to load the data counts as gone  *)
(* by when the second one is.                                              *)
CatchUpBounded ==
    \A i, j \in 2..Len(pacedAt) :
        i < j /\ (\A m \in (i + 1)..j : ~pacedAt[m].fast) =>
            Times[j] - Times[i] <= pacedAt[j].at - pacedAt[i].at + MaxDebt

(* Between two fills the open windows in the store lack only fills applied *)
(* less than a flush interval before the last fill was drawn; how long the *)
(* next fill takes to come is not bounded, and neither is the lag until it *)
(* does.                                                                   *)
WindowsLagBounded ==
    pc = "draw" /\ flushed < n => now - appliedAt[flushed + 1] < FlushEvery

(* "refresh effective speed / burst state every 0.25s": as long as fills   *)
(* are drawn, the flag the page shows is what the deadline said less than  *)
(* one check before, however the loop slept and however often the button   *)
(* was pressed. (Between two draws, and after the last, it is not          *)
(* refreshed.)                                                             *)
BurstStateRefreshed ==
    pc = "pace" =>
        IF bursting
        THEN now < burstUntil + CheckEvery
        ELSE presses = 0 \/ now < burstUntil - BurstTicks + CheckEvery \/ now >= burstUntil
=============================================================================
