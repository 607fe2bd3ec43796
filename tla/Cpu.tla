--------------------------------- MODULE Cpu ----------------------------------
(***************************************************************************)
(* The processor the synchronization modules assume.  A thread that was    *)
(* forked is runnable until it blocks; a blocked thread stays blocked      *)
(* until something wakes it; a thread that ended is never seen again.      *)
(* Which runnable thread runs next, and for how long, is left open: that   *)
(* is how Semaphore, Lock, Condition and the modules above them schedule.  *)
(* Module Scheduler shows that the dispatcher of Nachos stays within it.   *)
(***************************************************************************)
CONSTANT Threads

VARIABLE life

Init == life \in [Threads -> {"unborn", "runnable"}]

Become(t, from, to) == life[t] = from /\ life' = [life EXCEPT ![t] = to]

Next == \E t \in Threads : \/ Become(t, "unborn", "runnable")
                           \/ Become(t, "runnable", "blocked")
                           \/ Become(t, "blocked", "runnable")
                           \/ Become(t, "runnable", "done")

Spec == Init /\ [][Next]_life
===============================================================================
