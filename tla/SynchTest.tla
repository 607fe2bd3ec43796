------------------------------ MODULE SynchTest -------------------------------
(***************************************************************************)
(* What the threads of the lock, condition and priority tests of           *)
(* threads/threadtest.cc do: main forks them in an order, each runs a      *)
(* procedure made of calls on one lock and one condition.                  *)
(*                                                                         *)
(* A test is the order in which main forks the threads, the argument of    *)
(* setPriority for each, and their procedures.  Main puts them on the      *)
(* ready list; a thread that has started runs whenever it is not blocked,  *)
(* as with the timer of -rs.                                               *)
(***************************************************************************)
EXTENDS Monitor, FiniteSets, Functions

CONSTANTS Threads,
          Tests  \* the tests: records with fields fork, priority, procedure

Calls == {"Acquire", "Release", "Wait", "Signal", "Broadcast", "DeleteLock",
          "DeleteCondition", "SetI", "WaitForI"}

\* What the constants are; ThreadTest assumes it of its own.
SynchTestAssumption ==
  /\ NoThread \notin Threads
  /\ Tests \subseteq [fork : Seq(Threads), priority : [Threads -> Int],
                      procedure : [Threads -> Seq(Calls)]]

lock == "lock"
condition == "condition"

VARIABLES test,
          forks,      \* what main still has to fork
          readyList,  \* Scheduler::readyList, as far as nobody has run yet
          pc, todo,
          i,          \* the global variable synchronize waits for
          deleted,    \* the objects that have been deleted
          aborted     \* an ASSERT has stopped the machine
vars == <<owner, waitList, test, forks, readyList, pc, todo, i, deleted, aborted>>

Init == /\ owner = [l \in {lock} |-> NoThread]
        /\ waitList = [c \in {condition} |-> <<>>]
        /\ test \in Tests
        /\ forks = test.fork
        /\ readyList = <<>>
        /\ pc = [t \in Threads |-> "new"]
        /\ todo = test.procedure
        /\ i = 0
        /\ deleted = {}
        /\ aborted = FALSE

Goto(t, place) == pc' = [pc EXCEPT ![t] = place]

Return(t) == todo' = [todo EXCEPT ![t] = Tail(@)]

\* Slip: the ready list is first in, first out.
ForkFifo(t) ==
  /\ ~aborted
  /\ forks # <<>> /\ t = Head(forks)
  /\ forks' = Tail(forks)
  /\ readyList' = AppendItem(readyList, t)
  /\ Goto(t, "ready")
  /\ UNCHANGED <<owner, waitList, test, todo, i, deleted, aborted>>

\* Main forks the next thread.  setPriority negates its argument.
Fork(t) ==
  /\ ~aborted
  /\ forks # <<>> /\ t = Head(forks)
  /\ forks' = Tail(forks)
  /\ readyList' = SortedInsert(readyList, t, -test.priority[t])
  /\ Goto(t, "ready")
  /\ UNCHANGED <<owner, waitList, test, todo, i, deleted, aborted>>

\* The thread gets the processor for the first time.
Start(t) ==
  /\ ~aborted
  /\ readyList # <<>> /\ t = Head(readyList).item
  /\ readyList' = Tail(readyList)
  /\ Goto(t, "run")
  /\ UNCHANGED <<owner, waitList, test, forks, todo, i, deleted, aborted>>

\* Thread t is about to make a call, in which it uses the object o.
Does(t, op, o) == /\ ~aborted
                  /\ pc[t] = "run"
                  /\ todo[t] # <<>> /\ Head(todo[t]) = op
                  /\ o \notin deleted

CallAcquire(t) == /\ Does(t, "Acquire", lock)
                  /\ Acquire(t, lock)
                  /\ Return(t)
                  /\ UNCHANGED <<pc, i, deleted, aborted>>

CallRelease(t) == /\ Does(t, "Release", lock)
                  /\ Release(t, lock)
                  /\ Return(t)
                  /\ UNCHANGED <<pc, i, deleted, aborted>>

\* synchronize calls Wait only while i is 0.
CallWait(t) == /\ \/ Does(t, "Wait", condition)
                  \/ Does(t, "WaitForI", condition) /\ i = 0
               /\ Wait(t, lock, condition)
               /\ Goto(t, "waiting")
               /\ UNCHANGED <<todo, i, deleted, aborted>>

WaitReturns(t) == /\ ~aborted /\ pc[t] = "waiting"
                  /\ ReturnFromWait(t, lock, condition)
                  /\ Goto(t, "run")
                  /\ IF Head(todo[t]) = "Wait" THEN Return(t) ELSE UNCHANGED todo
                  /\ UNCHANGED <<i, deleted, aborted>>

FindsI(t) == /\ Does(t, "WaitForI", condition) /\ i = 1
             /\ Return(t)
             /\ UNCHANGED <<owner, waitList, pc, i, deleted, aborted>>

CallSignal(t) == /\ \/ Does(t, "Signal", condition) /\ Signal(t, lock, condition)
                    \/ Does(t, "Broadcast", condition) /\ Broadcast(t, lock, condition)
                 /\ Return(t)
                 /\ UNCHANGED <<pc, i, deleted, aborted>>

SetI(t) == /\ Does(t, "SetI", lock)
           /\ i' = 1
           /\ Return(t)
           /\ UNCHANGED <<owner, waitList, pc, deleted, aborted>>

Abort == aborted' = TRUE /\ UNCHANGED <<owner, waitList, pc, todo, i, deleted>>

\* Only the holder of the lock may release it, wait, signal or broadcast.
AssertFails(t) ==
  /\ \/ Does(t, "Release", lock)
     \/ \E op \in {"Wait", "Signal", "Broadcast"} : Does(t, op, condition)
  /\ ~Holds(t, lock)
  /\ Abort

\* The destructors assert that the lock is free and that nobody waits.
Delete(t) ==
  \E o \in {lock, condition} :
    /\ Does(t, IF o = lock THEN "DeleteLock" ELSE "DeleteCondition", o)
    /\ \/ /\ IF o = lock THEN owner[lock] = NoThread ELSE waitList[condition] = <<>>
          /\ deleted' = deleted \cup {o}
          /\ Return(t)
          /\ UNCHANGED <<owner, waitList, pc, i, aborted>>
       \/ /\ IF o = lock THEN owner[lock] # NoThread ELSE waitList[condition] # <<>>
          /\ Abort

\* A deleted object is freed memory: an assertion may hold or not, and what the
\* call does to the object is seen by nobody.
UseDeleted(t) ==
  /\ ~aborted
  /\ pc[t] = "run" /\ todo[t] # <<>>
  /\ \/ lock \in deleted /\ Head(todo[t]) \in {"Acquire", "Release"}
     \/ condition \in deleted /\ Head(todo[t]) = "Wait"
  /\ \/ Abort
     \/ Return(t) /\ UNCHANGED <<owner, waitList, pc, i, deleted, aborted>>

Call(t) == /\ \/ CallAcquire(t) \/ CallRelease(t) \/ CallWait(t) \/ WaitReturns(t)
              \/ FindsI(t) \/ CallSignal(t) \/ SetI(t) \/ AssertFails(t) \/ Delete(t)
              \/ UseDeleted(t)
           /\ UNCHANGED <<test, forks, readyList>>

Step(t) == Fork(t) \/ Start(t) \/ Call(t)

Next == \E t \in Threads : Step(t)

Spec == Init /\ [][Next]_vars
-------------------------------------------------------------------------------
\* Everybody is on the ready list, in this order: what scheduler->Print shows
\* at the end of a priority test when no thread has run before.
ReadyInOrder(order) ==
  Len(readyList) = Len(order) => [k \in DOMAIN readyList |-> readyList[k].item] = order

Returned == {t \in Threads : pc[t] = "run" /\ todo[t] = <<>>}

\* A thread that has not returned waits for a signal, or for a lock whose owner
\* keeps it.
Rested == \/ aborted
          \/ \A t \in Range(test.fork) \ Returned :
               t \in Items(waitList[condition]) \/ owner[lock] \in Returned
===============================================================================
