------------------------------- MODULE Semaphore ------------------------------
(***************************************************************************)
(* The semaphore of threads/synch.cc.                                      *)
(*                                                                         *)
(* P and V run with interrupts off, so a call is one step, except that a P *)
(* that finds value = 0 sleeps inside its loop and is resumed, some time   *)
(* after a V has made it ready, to look at value again.  In between any    *)
(* other thread may run (see Cpu): a thread that calls P then takes the    *)
(* unit the V was meant to give to the sleeper.                            *)
(*                                                                         *)
(* Each thread makes a finite sequence of calls.  A device interrupt whose *)
(* handler does V is a thread that only calls V.                           *)
(***************************************************************************)
EXTENDS SortedList, FiniteSets

CONSTANTS Threads,
          Priority,      \* what getPriority returns for each thread
          InitialValue,
          Programs       \* the sequences of calls a thread may make

ASSUME SemaphoreAssumption == /\ IsFiniteSet(Threads)
                              /\ Priority \in [Threads -> Int]
                              /\ InitialValue \in Nat
                              /\ Programs \subseteq Seq({"P", "V"})

VARIABLES value,  \* Semaphore::value
          queue,  \* Semaphore::queue
          mode,   \* "running": not inside P; "asleep": in Sleep, on the queue;
                  \* "woken": made ready by a V, still inside P's loop
          todo    \* the calls each thread still has to make
vars == <<value, queue, mode, todo>>

Init == /\ value = InitialValue
        /\ queue = <<>>
        /\ mode = [t \in Threads |-> "running"]
        /\ todo \in [Threads -> Programs]

Calls(t, op) == /\ mode[t] = "running"
                /\ todo[t] # <<>>
                /\ Head(todo[t]) = op

Return(t) == todo' = [todo EXCEPT ![t] = Tail(@)]

-------------------------------------------------------------------------------
\* One turn of P's loop.
WaitOrTake(t) ==
  \/ /\ value = 0
     /\ queue' = SortedInsert(queue, t, Priority[t])
     /\ mode' = [mode EXCEPT ![t] = "asleep"]
     /\ UNCHANGED <<value, todo>>
  \/ /\ value # 0
     /\ value' = value - 1
     /\ mode' = [mode EXCEPT ![t] = "running"]
     /\ Return(t)
     /\ UNCHANGED queue

P(t) == Calls(t, "P") /\ WaitOrTake(t)

\* Slips: the loop is an if; the sleeper that finds nothing goes to sleep
\* without queueing up again.
ResumeInPWithoutLoop(t) ==
  /\ mode[t] = "woken"
  /\ value' = value - 1
  /\ mode' = [mode EXCEPT ![t] = "running"]
  /\ Return(t)
  /\ UNCHANGED queue
ResumeInPUnqueued(t) ==
  /\ mode[t] = "woken"
  /\ \/ value # 0 /\ WaitOrTake(t)
     \/ /\ value = 0
        /\ mode' = [mode EXCEPT ![t] = "asleep"]
        /\ UNCHANGED <<value, queue, todo>>

\* Sleep returns and the loop looks at value again.
ResumeInP(t) == mode[t] = "woken" /\ WaitOrTake(t)

\* Slip: only the first V after a sleep wakes.
VWakesWhenEmpty(t) ==
  /\ Calls(t, "V")
  /\ \/ /\ queue # <<>> /\ value = 0
        /\ mode' = [mode EXCEPT ![Head(queue).item] = "woken"]
        /\ queue' = Tail(queue)
     \/ /\ queue = <<>> \/ value # 0
        /\ UNCHANGED <<mode, queue>>
  /\ value' = value + 1
  /\ Return(t)

V(t) ==
  /\ Calls(t, "V")
  /\ \/ /\ queue # <<>>
        /\ mode' = [mode EXCEPT ![Head(queue).item] = "woken"]
        /\ queue' = Tail(queue)
     \/ /\ queue = <<>>
        /\ UNCHANGED <<mode, queue>>
  /\ value' = value + 1
  /\ Return(t)

Step(t) == P(t) \/ ResumeInP(t) \/ V(t)

Next == \E t \in Threads : Step(t)

Spec == Init /\ [][Next]_vars

\* A runnable thread runs sooner or later: the timer yields, and the ready
\* list is FIFO among threads of one priority.
FairSpec == Spec /\ \A t \in Threads : WF_vars(Step(t))
-------------------------------------------------------------------------------
TypeOK == /\ value \in Nat
          /\ queue \in Seq(Elements(Threads))
          /\ mode \in [Threads -> {"running", "asleep", "woken"}]
          /\ todo \in [Threads -> Seq({"P", "V"})]

Woken == {t \in Threads : mode[t] = "woken"}

\* The queue holds exactly the threads asleep in P, each once, those of higher
\* priority (a smaller key) first.
SleepersQueued ==
  /\ Items(queue) = {t \in Threads : mode[t] = "asleep"}
  /\ Distinct(queue)
  /\ Sorted(queue)

\* While threads sleep in P, every unit of value is already spoken for by a
\* woken thread: no V is lost, however many threads come between the V and
\* the thread it woke.
NoLostWakeup == queue # <<>> => value <= Cardinality(Woken)

\* The atomic semaphore the code implements.
Atomic == INSTANCE AbstractSemaphore

\* P takes a unit only when there is one, V adds one, and nothing else
\* changes value.
ImplementsAtomic == Atomic!Spec

\* Every system of threads comes to rest, and at rest nobody sleeps on a
\* semaphore that has units left.
Quiesces == <>[](\A t \in Threads : \/ todo[t] = <<>>
                                    \/ value = 0 /\ t \in Items(queue))
===============================================================================
