----------------------------- MODULE MCScheduler ------------------------------
(* Four thread objects; priorities on both sides of the default. *)
EXTENDS Scheduler
MCPriorities == {-1, 2}
MCThreads == 1 .. 4
===============================================================================
