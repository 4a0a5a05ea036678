------------------------------- MODULE Fleet --------------------------------
(***************************************************************************)
(* The dashboard's write fleet and the total it shows                      *)
(* (src/feature_store/dashboard.py): blaster processes that write without  *)
(* pause, burst-only blasters that write while a burst is on, the ingest   *)
(* process, and the reader thread that adds up the counts they publish in  *)
(* the shared dictionary, for the page to show.                            *)
(*                                                                         *)
(* Time is counted in ticks of 0.25 s. There is no clock, only the ages of *)
(* the timers, which need not grow past the point where they are due, and  *)
(* what is left of the burst.                                              *)
(***************************************************************************)
EXTENDS Integers, FiniteSets, Functions

CONSTANTS Baseline,      \* blasters that write all the time
          BurstOnly,     \* blasters that write during bursts
          Ingest,        \* the ingest process
          Batch,         \* BATCH: rows between two looks at the timers
          MaxInflight,   \* permits of each process's pipeline
          CheckTicks,    \* ticks between two looks at the burst deadline
          PublishTicks,  \* ticks between two publications of a count
          BurstTicks,    \* length of a burst
          MaxWrites,     \* bound: writes issued by all, in a behaviour
          MaxLost,       \* bound: writes that fail, in a behaviour
          MaxPresses     \* bound: presses of the button, in a behaviour

Blasters == Baseline \cup BurstOnly
Writers == Blasters \cup {Ingest}

ASSUME FleetAssumption ==
    /\ IsFiniteSet(Writers)
    /\ Baseline \cap BurstOnly = {} /\ Ingest \notin Blasters
    /\ {Batch, MaxInflight, CheckTicks, PublishTicks, BurstTicks} \subseteq Nat \ {0}
    /\ {MaxWrites, MaxLost, MaxPresses} \subseteq Nat

VARIABLES
    mode,       \* blaster -> "idle", "writing" or "timers"
    bursting,   \* burst-only blaster -> was a burst on when it last looked
    sinceCheck, \* burst-only blaster -> age of last_chk
    sincePub,   \* writer -> age of last_pub
    sent,       \* writer -> writes handed to the driver; a blaster's fc
    count,      \* writer -> pipe.count, the writes acknowledged
    lost,       \* writer -> writes that failed
    burstLeft,  \* burst_until, as what is left of it
    shared,     \* the published counts: writes_total and the bw_ keys
    reader,     \* the reader thread: "reading", "copying" or "dead"
    toCopy,     \* keys of the shared dictionary not copied yet
    snap,       \* the copy under way
    stats,      \* STATS["writes_total"]
    late,       \* history: rows a burst-only blaster wrote overdue
    presses

ofWriters == <<mode, bursting, sinceCheck, sincePub, sent, count, lost, late>>
ofReader == <<reader, toCopy, snap, stats>>
ofBurst == <<burstLeft, presses>>
vars == <<ofWriters, ofReader, ofBurst, shared>>

Empty == [w \in {} |-> 0]
Put(d, k, v) == [x \in DOMAIN d \cup {k} |-> IF x = k THEN v ELSE d[x]]
Total(f) == FoldFunction(+, 0, f)

Init ==
    /\ mode = [b \in Blasters |-> IF b \in BurstOnly THEN "idle" ELSE "writing"]
    /\ bursting = [b \in BurstOnly |-> FALSE]
    /\ sinceCheck = [b \in BurstOnly |-> 0]
    /\ sincePub = [w \in Writers |-> 0]
    /\ sent = [w \in Writers |-> 0]
    /\ count = [w \in Writers |-> 0]
    /\ lost = [w \in Writers |-> 0]
    /\ burstLeft = 0
    /\ shared = Empty
    /\ reader = "reading" /\ toCopy = {} /\ snap = Empty
    /\ stats = 0
    /\ late = [b \in BurstOnly |-> 0]
    /\ presses = 0

-----------------------------------------------------------------------------
(* Writes. The gate of a process's pipeline bounds what is outstanding;    *)
(* its callbacks count the writes that succeed (Pipeline.tla).             *)
Outstanding(w) == sent[w] - count[w] - lost[w]

MayIssue(w) == Outstanding(w) < MaxInflight /\ Total(sent) < MaxWrites

Acknowledge(w) ==
    /\ Outstanding(w) > 0
    /\ \/ /\ count' = [count EXCEPT ![w] = @ + 1]
          /\ UNCHANGED lost
       \/ /\ Total(lost) < MaxLost
          /\ lost' = [lost EXCEPT ![w] = @ + 1]
          /\ UNCHANGED count
    /\ UNCHANGED <<mode, bursting, sinceCheck, sincePub, sent, late, shared,
                   ofReader, ofBurst>>

(* What shared[key] = pipe.count leaves in the dictionary.                 *)
PublishSent(w) == Put(shared, w, sent[w])                        \* mutant: fc
PublishNew(w) ==                                                 \* mutant: a delta
    Put(shared, w, count[w] - (IF w \in DOMAIN shared THEN shared[w] ELSE 0))
Publish(w) == Put(shared, w, count[w])

(* Blasters                                                                *)

Overdue(b) == burstLeft = 0 /\ sinceCheck[b] = CheckTicks

PassEnds(b) == (sent[b] + 1) % (2 * Batch) = 0   \* mutant: a share of two batches
BatchEnds(b) == (sent[b] + 1) % Batch = 0

(* The next row of the share, for ever: the end of a pass shows nowhere.   *)
WriteRow(b) ==
    /\ mode[b] = "writing"
    /\ MayIssue(b)
    /\ sent' = [sent EXCEPT ![b] = @ + 1]
    /\ mode' = [mode EXCEPT ![b] = IF BatchEnds(b) THEN "timers" ELSE @]
    /\ late' = IF b \in BurstOnly /\ Overdue(b) THEN [late EXCEPT ![b] = @ + 1] ELSE late
    /\ UNCHANGED <<bursting, sinceCheck, sincePub, count, lost, shared, ofReader,
                   ofBurst>>

(* bursting and last_chk are renewed if the check is due. A baseline       *)
(* blaster does so too and makes no use of it.                             *)
LookAtBurst(b) ==
    IF b \in BurstOnly /\ sinceCheck[b] = CheckTicks
    THEN /\ bursting' = [bursting EXCEPT ![b] = burstLeft > 0]
         /\ sinceCheck' = [sinceCheck EXCEPT ![b] = 0]
         /\ late' = [late EXCEPT ![b] = 0]
    ELSE UNCHANGED <<bursting, sinceCheck, late>>

(* Every Batch rows: the burst deadline, the count, and back to idle.      *)
Timers(b) ==
    /\ mode[b] = "timers"
    /\ LookAtBurst(b)
    /\ IF sincePub[b] = PublishTicks
       THEN /\ shared' = Publish(b)
            /\ sincePub' = [sincePub EXCEPT ![b] = 0]
       ELSE UNCHANGED <<shared, sincePub>>
    /\ mode' = [mode EXCEPT ![b] =
                   IF b \in BurstOnly /\ ~bursting'[b] THEN "idle" ELSE "writing"]
    /\ UNCHANGED <<sent, count, lost, ofReader, ofBurst>>

(* One turn of the idle loop; last_pub is left as it is.                   *)
IdleSilently(b) == shared          \* mutant: continue before the publication
IdlePublish(b) == Publish(b)

Idle(b) ==
    /\ mode[b] = "idle"
    /\ LookAtBurst(b)
    /\ shared' = IdlePublish(b)
    /\ mode' = [mode EXCEPT ![b] = IF bursting'[b] THEN "writing" ELSE @]
    /\ UNCHANGED <<sincePub, sent, count, lost, ofReader, ofBurst>>

(* The ingest process: a write of a fill; the totals with it, if due. It   *)
(* publishes nothing after the last fill.                                  *)
IngestFill ==
    /\ MayIssue(Ingest)
    /\ sent' = [sent EXCEPT ![Ingest] = @ + 1]
    /\ IF sincePub[Ingest] = PublishTicks
       THEN /\ shared' = Publish(Ingest)
            /\ sincePub' = [sincePub EXCEPT ![Ingest] = 0]
       ELSE UNCHANGED <<shared, sincePub>>
    /\ UNCHANGED <<mode, bursting, sinceCheck, count, lost, late, ofReader, ofBurst>>

-----------------------------------------------------------------------------
(* The reader thread                                                       *)

(* The probe and the window reads are done; dict(shared) asks for the keys *)
(* first and then for the value of each.                                   *)
StartCopy ==
    /\ reader = "reading"
    /\ reader' = "copying"
    /\ toCopy' = DOMAIN shared
    /\ snap' = Empty
    /\ UNCHANGED <<stats, ofWriters, ofBurst, shared>>

CopyKey ==
    /\ reader = "copying"
    /\ \E k \in toCopy :
          /\ snap' = Put(snap, k, shared[k])
          /\ toCopy' = toCopy \ {k}
    /\ UNCHANGED <<reader, stats, ofWriters, ofBurst, shared>>

(* STATS is renewed under _lock, and /ws and /stats copy it under _lock:   *)
(* for a page this is one step.                                            *)
Show ==
    /\ reader = "copying"
    /\ toCopy = {}
    /\ stats' = Total(snap)
    /\ reader' = "reading"
    /\ snap' = Empty
    /\ UNCHANGED <<toCopy, ofWriters, ofBurst, shared>>

(* A request of the probe or of a window read fails: nothing catches it.   *)
ReaderFails ==
    /\ reader = "reading"
    /\ reader' = "dead"
    /\ UNCHANGED <<toCopy, snap, stats, ofWriters, ofBurst, shared>>

(* POST /burst: the deadline is now + secs, whatever it was.               *)
Press ==
    /\ presses < MaxPresses
    /\ presses' = presses + 1
    /\ burstLeft' = BurstTicks
    /\ late' = [b \in BurstOnly |-> 0]
    /\ UNCHANGED <<mode, bursting, sinceCheck, sincePub, sent, count, lost, shared,
                   ofReader>>

Older(age, due) == IF age < due THEN age + 1 ELSE age

Tick ==
    /\ burstLeft' = IF burstLeft > 0 THEN burstLeft - 1 ELSE 0
    /\ sinceCheck' = [b \in BurstOnly |-> Older(sinceCheck[b], CheckTicks)]
    /\ sincePub' = [w \in Writers |-> Older(sincePub[w], PublishTicks)]
    /\ UNCHANGED <<mode, bursting, sent, count, lost, late, presses, shared, ofReader>>

BlasterStep(b) == WriteRow(b) \/ Timers(b) \/ Idle(b)
Read == StartCopy \/ CopyKey \/ Show

Next ==
    \/ \E w \in Writers : Acknowledge(w)
    \/ \E b \in Blasters : BlasterStep(b)
    \/ IngestFill
    \/ Read
    \/ ReaderFails
    \/ Press
    \/ Tick

Spec == Init /\ [][Next]_vars

(* Threads and processes run, time passes, and the driver resolves every   *)
(* write, by its request timeout at the latest. A press, a fill and a      *)
(* failure are never forced.                                               *)
FairSpec ==
    /\ Spec
    /\ \A w \in Writers : WF_vars(Acknowledge(w))
    /\ \A b \in Blasters : WF_vars(BlasterStep(b))
    /\ WF_vars(Read)
    /\ WF_vars(Tick)

-----------------------------------------------------------------------------
TypeOK ==
    /\ mode \in [Blasters -> {"idle", "writing", "timers"}]
    /\ bursting \in [BurstOnly -> BOOLEAN]
    /\ sinceCheck \in [BurstOnly -> 0..CheckTicks]
    /\ sincePub \in [Writers -> 0..PublishTicks]
    /\ {sent, count, lost} \subseteq [Writers -> 0..MaxWrites]
    /\ \A w \in Writers : Outstanding(w) \in 0..MaxInflight
    /\ burstLeft \in 0..BurstTicks /\ presses \in 0..MaxPresses
    /\ DOMAIN shared \subseteq Writers /\ DOMAIN snap \subseteq Writers
    /\ toCopy \subseteq DOMAIN shared
    /\ reader \in {"reading", "copying", "dead"}
    /\ stats \in Nat
    /\ late \in [BurstOnly -> Nat]

(* The total on show never goes back and never counts a write the          *)
(* store has not acknowledged, though it is added up from values copied    *)
(* one by one while their owners go on; so the rate the reader derives     *)
(* from it needs no floor.                                                 *)
TotalOnlyGrows == [][stats <= stats' /\ stats' <= Total(count')]_vars

(* When a burst ends a burst-only blaster goes idle: it writes less than   *)
(* two batches after its look at the deadline is due, and it looks only    *)
(* between batches, so at most one.                                        *)
BurstEndsPromptly == \A b \in BurstOnly : late[b] <= Batch

(* Once the burst-only blasters are idle for good, the page comes to show  *)
(* all their acknowledged writes, unless the reader's thread has died: an  *)
(* idle blaster goes on publishing the writes of its last batch. Of the    *)
(* other processes the page shows what they have published.                *)
Published(w) == IF w \in DOMAIN shared THEN shared[w] ELSE 0
BurstsCounted ==
    stats = Total([w \in Writers |-> IF w \in BurstOnly THEN count[w] ELSE Published(w)])
FleetIsCounted ==
    <>[](\A b \in BurstOnly : mode[b] = "idle") => <>[](BurstsCounted \/ reader = "dead")
=============================================================================
