------------------------------- MODULE Tools -------------------------------
(***************************************************************************)
(* One run of a command-line tool: the load generator or the read          *)
(* benchmark, under the parent both have.                                  *)
(***************************************************************************)
EXTENDS LoadGen, Bench

toolVars == <<loadVars, benchVars>>
vars == <<queueVars, toolVars>>

Init == QueueInit /\ LoadInit /\ BenchInit

ToolWork(w) ==
    \/ tool = "loadgen" /\ LoadWork(w) /\ UNCHANGED benchVars
    \/ tool = "bench" /\ BenchWork(w) /\ UNCHANGED loadVars

QueueWork(w) == (Feed(w) \/ Exit(w)) /\ UNCHANGED toolVars

Work(w) == ToolWork(w) \/ QueueWork(w)
ParentWork == Parent /\ UNCHANGED toolVars

Terminated == parent = "reported" /\ UNCHANGED vars

Next ==
    \/ \E w \in Workers : Work(w) \/ (Die(w) /\ UNCHANGED toolVars)
    \/ ParentWork
    \/ Terminated

Spec == Init /\ [][Next]_vars

(* Every process the operating system runs makes progress.                 *)
FairSpec ==
    /\ Spec
    /\ WF_vars(ParentWork)
    /\ \A w \in 0..(Max({i[2] : i \in Invocations}) - 1) :
          WF_vars(w \in Workers /\ Work(w))
=============================================================================
