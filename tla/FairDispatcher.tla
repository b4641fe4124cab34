--------------------------- MODULE FairDispatcher ---------------------------
(***************************************************************************)
(* What a process may expect of the scheduler: it is admitted once, from   *)
(* then on it either runs or waits, one process runs at a time, and none   *)
(* waits for ever unless the machine stops.  Order and quanta are left     *)
(* open.                                                                   *)
(***************************************************************************)
CONSTANTS Procs, NULL

VARIABLES running, waiting, stopped

vars == <<running, waiting, stopped>>

Init == running = NULL /\ waiting = {} /\ stopped = FALSE

Admit(p) ==
  /\ ~stopped
  /\ p \notin waiting \union {running}
  /\ waiting' = waiting \union {p}
  /\ UNCHANGED <<running, stopped>>

Dispatch(p) ==
  /\ ~stopped
  /\ p \in waiting
  /\ running' = p
  /\ waiting' = (waiting \ {p}) \union ({running} \ {NULL})
  /\ UNCHANGED stopped

Stop ==
  /\ ~stopped
  /\ running # NULL
  /\ stopped' = TRUE
  /\ UNCHANGED <<running, waiting>>

Next == Stop \/ \E p \in Procs : Admit(p) \/ Dispatch(p)

Spec == Init /\ [][Next]_vars /\ \A p \in Procs : WF_vars(Dispatch(p))
=============================================================================
