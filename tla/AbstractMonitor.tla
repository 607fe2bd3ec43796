--------------------------- MODULE AbstractMonitor ----------------------------
(***************************************************************************)
(* Threads that use one lock and one condition as they please, by the      *)
(* operations of Monitor.  A call that the caller does not hold the lock   *)
(* for stops the machine with an assertion.                                *)
(***************************************************************************)
EXTENDS Monitor

CONSTANTS Threads, Programs

VARIABLES todo,    \* the calls each thread still has to make
          inWait,  \* the threads whose Wait has not returned
          aborted
vars == <<owner, waitList, todo, inWait, aborted>>

Init == /\ owner = [l \in {"lock"} |-> NoThread]
        /\ waitList = [c \in {"cond"} |-> <<>>]
        /\ todo \in [Threads -> Programs]
        /\ inWait = {}
        /\ aborted = FALSE

Call(t, op) == /\ ~aborted
               /\ t \notin inWait
               /\ todo[t] # <<>>
               /\ Head(todo[t]) = op

Return(t) == todo' = [todo EXCEPT ![t] = Tail(@)] /\ UNCHANGED <<inWait, aborted>>

DoAcquire(t) == Call(t, "Acquire") /\ Acquire(t, "lock") /\ Return(t)

DoRelease(t) == Call(t, "Release") /\ Release(t, "lock") /\ Return(t)

DoWait(t) == /\ Call(t, "Wait")
             /\ Wait(t, "lock", "cond")
             /\ inWait' = inWait \cup {t}
             /\ UNCHANGED <<todo, aborted>>

DoReturn(t) == /\ ~aborted
               /\ t \in inWait
               /\ ReturnFromWait(t, "lock", "cond")
               /\ todo' = [todo EXCEPT ![t] = Tail(@)]
               /\ inWait' = inWait \ {t}
               /\ UNCHANGED aborted

DoSignal(t) == Call(t, "Signal") /\ Signal(t, "lock", "cond") /\ Return(t)

DoBroadcast(t) == Call(t, "Broadcast") /\ Broadcast(t, "lock", "cond") /\ Return(t)

Abort(t) == /\ \E op \in {"Release", "Wait", "Signal", "Broadcast"} : Call(t, op)
            /\ ~Holds(t, "lock")
            /\ aborted' = TRUE
            /\ UNCHANGED <<owner, waitList, todo, inWait>>

Next == \E t \in Threads : \/ DoAcquire(t) \/ DoRelease(t)
                           \/ DoWait(t) \/ DoReturn(t)
                           \/ DoSignal(t) \/ DoBroadcast(t)
                           \/ Abort(t)

Spec == Init /\ [][Next]_vars
===============================================================================
