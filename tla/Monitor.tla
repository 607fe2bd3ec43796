------------------------------- MODULE Monitor --------------------------------
(***************************************************************************)
(* Locks and Mesa-style condition variables as threads/synch.h promises    *)
(* them: the operations the modules of their clients are written with.     *)
(*                                                                         *)
(* A lock is the thread that owns it, a condition the list of the threads  *)
(* that wait on it.  A thread in Wait that is off the list was signalled;  *)
(* it has to get the lock back before Wait returns, and any other thread   *)
(* may get it first.  Module Condition shows that the code, with its lock  *)
(* queue and sleeping threads, implements these operations.                *)
(***************************************************************************)
EXTENDS SortedList

CONSTANTS Priority,  \* what getPriority returns for each thread
          NoThread

VARIABLES owner,    \* the owner of each lock, or NoThread
          waitList  \* Condition::waitList of each condition

Holds(t, l) == owner[l] = t

Acquire(t, l) == /\ owner[l] \in {NoThread, t}
                 /\ owner' = [owner EXCEPT ![l] = t]
                 /\ UNCHANGED waitList

Release(t, l) == /\ Holds(t, l)
                 /\ owner' = [owner EXCEPT ![l] = NoThread]
                 /\ UNCHANGED waitList

\* The thread is queued and the lock released in one step.
Wait(t, l, c) == /\ Holds(t, l)
                 /\ owner' = [owner EXCEPT ![l] = NoThread]
                 /\ waitList' = [waitList EXCEPT ![c] = SortedInsert(@, t, Priority[t])]

ReturnFromWait(t, l, c) == t \notin Items(waitList[c]) /\ Acquire(t, l)

\* Signal of an empty list is lost.
Signal(t, l, c) ==
  /\ Holds(t, l)
  /\ waitList' = [waitList EXCEPT ![c] = IF @ = <<>> THEN @ ELSE Tail(@)]
  /\ UNCHANGED owner

Broadcast(t, l, c) == /\ Holds(t, l)
                      /\ waitList' = [waitList EXCEPT ![c] = <<>>]
                      /\ UNCHANGED owner
===============================================================================
