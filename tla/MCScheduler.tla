---------------------------- MODULE MCScheduler ----------------------------
(* The scheduler, its fairness and the dispatcher it implements, on a few   *)
(* user processes.                                                          *)
EXTENDS SchedulerFairness
============================================================================
