------------------------------ MODULE MCCondition -----------------------------
(* Sections of code under the lock that wait, signal or broadcast, in every  *)
(* combination; sections that take the lock twice or keep it; and calls made *)
(* without the lock.  The threads have names of their own, or all the name   *)
(* that syscall_exec gives to the thread of every process.                   *)
EXTENDS Condition
MCPrograms == {<<"Acquire", "Wait", "Release">>,
               <<"Acquire", "Wait", "Signal", "Release">>,
               <<"Acquire", "Signal", "Release", "Acquire", "Release">>,
               <<"Acquire", "Broadcast", "Wait", "Release">>,
               <<"Acquire", "Broadcast", "Release">>,
               <<"Acquire", "Acquire", "Release">>,
               <<"Acquire">>,
               <<"Acquire", "Release", "Release">>,
               <<"Signal">>}
MCOnce == {<<"Acquire", "Release">>}
OwnNames == [t \in Threads |-> t]
OneName == [t \in Threads |-> "new thread"]
MCPriority == [t \in Threads |-> IF t = 3 THEN -1 ELSE 0]
===============================================================================
