---------------------------- MODULE ResultQueue ----------------------------
(***************************************************************************)
(* What the two command-line tools, loadgen.py and bench.py, share: a      *)
(* parent spawns worker processes, each puts one result on a queue, and    *)
(* the parent takes one result per worker, joins the workers and prints    *)
(* the totals.                                                             *)
(*                                                                         *)
(* multiprocessing is external. A result put on the queue is sent through  *)
(* a bounded pipe by a thread of the worker, and the worker does not exit  *)
(* before that thread has handed its result over.                          *)
(***************************************************************************)
EXTENDS Integers, SequencesExt

CONSTANTS Invocations,   \* what may be run: pairs <<tool, --procs>>
          PipeCap,       \* results the pipe takes before the parent reads
          MaxDeaths      \* bound: workers that raise, in a behaviour

ASSUME QueueAssumption ==
    /\ Invocations \subseteq {"loadgen", "bench"} \X (Nat \ {0})
    /\ {PipeCap, MaxDeaths} \subseteq Nat

VARIABLES
    tool, procs,   \* the command and its --procs
    phase,         \* what each worker is doing
    sending,       \* worker -> results its feeder thread has yet to hand over
    pipe,          \* results in the queue's pipe
    results,       \* results the parent has taken
    parent         \* "getting", "joining", "reported"

command == <<tool, procs>>
queueVars == <<command, phase, sending, pipe, results, parent>>

Workers == 0..(procs - 1)
Dead == {w \in Workers : phase[w] = "dead"}

QueueInit ==
    /\ \E c \in Invocations : tool = c[1] /\ procs = c[2]
    /\ phase = [w \in Workers |-> "loading"]
    /\ sending = [w \in Workers |-> <<>>]
    /\ pipe = <<>>
    /\ results = <<>>
    /\ parent = "getting"

Goes(w, to) == phase' = [phase EXCEPT ![w] = to]

(* out_q.put only hands the result to the feeder.                          *)
PutResult(w, result) ==
    /\ sending' = [sending EXCEPT ![w] = <<result>>]
    /\ Goes(w, "exiting")
    /\ UNCHANGED <<command, pipe, results, parent>>

Feed(w) ==
    /\ sending[w] # <<>>
    /\ Len(pipe) < PipeCap
    /\ pipe' = pipe \o sending[w]
    /\ sending' = [sending EXCEPT ![w] = <<>>]
    /\ UNCHANGED <<command, phase, results, parent>>

Exit(w) ==
    /\ phase[w] = "exiting"
    /\ sending[w] = <<>>
    /\ Goes(w, "exited")
    /\ UNCHANGED <<command, sending, pipe, results, parent>>

(* Loading, connecting or a request of the worker's main thread raises,    *)
(* and nothing catches it. Processes killed, at the barrier or once they   *)
(* have put their result too, are left out.                                *)
Die(w) ==
    /\ phase[w] \in {"loading", "running"}
    /\ Cardinality(Dead) < MaxDeaths
    /\ Goes(w, "dead")
    /\ UNCHANGED <<command, sending, pipe, results, parent>>

JoinFirst == TRUE           \* mutant: the workers are joined before q.get
AllCollected == Len(results) = procs

(* q.get(): the oldest result in the pipe; a result too large for it is    *)
(* read while its feeder is still sending.                                 *)
Get ==
    /\ parent = "getting"
    /\ ~AllCollected
    /\ \/ /\ pipe # <<>>
          /\ results' = Append(results, Head(pipe))
          /\ pipe' = Tail(pipe)
          /\ UNCHANGED sending
       \/ \E w \in Workers :
             /\ pipe = <<>>
             /\ sending[w] # <<>>
             /\ results' = results \o sending[w]
             /\ sending' = [sending EXCEPT ![w] = <<>>]
             /\ UNCHANGED pipe
    /\ UNCHANGED <<command, phase, parent>>

StartJoin ==
    /\ parent = "getting"
    /\ AllCollected
    /\ parent' = "joining"
    /\ UNCHANGED <<command, phase, sending, pipe, results>>

(* The joins return once every process has ended, and the totals follow.   *)
Report ==
    /\ parent = "joining"
    /\ \A w \in Workers : phase[w] \in {"exited", "dead"}
    /\ parent' = "reported"
    /\ UNCHANGED <<command, phase, sending, pipe, results>>

Parent == Get \/ StartJoin \/ Report

TotalOf(field) == FoldSeq(LAMBDA r, sum : r[field] + sum, 0, results)

-----------------------------------------------------------------------------
(* The report has exactly one result of every worker, none of which died.  *)
EveryoneReported ==
    /\ {results[i].worker : i \in DOMAIN results} = Workers
    /\ Len(results) = procs
    /\ Dead = {}

(* If no worker raises, the parent gets to its report: it drains the queue *)
(* before it joins, so no worker is stuck on a full pipe.                  *)
ParentReports == <>(parent = "reported" \/ Dead # {})
=============================================================================
