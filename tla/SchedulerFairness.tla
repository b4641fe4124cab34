------------------------- MODULE SchedulerFairness -------------------------
(***************************************************************************)
(* How long a process waits in Scheduler, and Scheduler as an              *)
(* implementation of FairDispatcher.                                       *)
(***************************************************************************)
EXTENDS Scheduler, FiniteSetsExt

\* Before the first decision the idle process waits in idle_process.
Dispatcher == INSTANCE FairDispatcher WITH
  running <- current,
  waiting <- ReadySet \union
               (IF first_schedule /\ idle_process # NULL THEN {idle_process} ELSE {}),
  stopped <- halted

\* The run queue with its quanta dispatches fairly: the list, the requeueing at
\* either end, the special first decision and execvpe implement FairDispatcher.
ImplementsFairDispatcher == Dispatcher!Spec

-----------------------------------------------------------------------------
\* The slices a process takes before schedule_old_process puts it at the end;
\* one that starts with time_remaining 0 still gets a slice.
SlicesLeft(p) == IF time_remaining[p] = 0 THEN 1 ELSE time_remaining[p]

\* The slices of the processes that can run before p does.
Before(p) ==
  {current} \union
  {ready_processes[i] : i \in {k \in DOMAIN ready_processes :
     \A j \in 1 .. k : ready_processes[j] # p}}
WaitOf(p) == MapThenSumSet(SlicesLeft, Before(p))

\* Two processes at the front of the list alternate until the quantum of one of
\* them is used up.  All the same, a waiting process that is not dispatched gets
\* closer by exactly one slice at every decision, and no call sets it back: it
\* waits for at most Quantum slices of each process that was before it.
EveryDecisionShortensTheWait ==
  [][\A p \in ReadySet : current # NULL /\ current' # p =>
        WaitOf(p)' = WaitOf(p) - (IF current' # current THEN 1 ELSE 0)]_vars
=============================================================================
