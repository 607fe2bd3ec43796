----------------------------- MODULE MCSemaphore ------------------------------
(* Threads that only wait, only signal, do both, or wait twice. *)
EXTENDS Semaphore
MCPrograms == {<<>>, <<"P">>, <<"V">>, <<"P", "V">>, <<"P", "P">>, <<"V", "V">>, <<"V", "P">>}
MCPriority == [t \in Threads |-> IF t = 3 THEN -1 ELSE 0]
===============================================================================
