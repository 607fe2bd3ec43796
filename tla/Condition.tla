------------------------------ MODULE Condition -------------------------------
(***************************************************************************)
(* The condition variable of threads/synch.cc, composed with the code of   *)
(* the lock its callers hold (module Lock): threads that use one lock and  *)
(* one condition as they please.                                           *)
(*                                                                         *)
(* Wait puts the caller on waitList and releases the lock with interrupts  *)
(* off, then sleeps; when it is signalled it runs Acquire and may sleep    *)
(* again, this time on the lock's Q.                                       *)
(***************************************************************************)
EXTENDS Lock

VARIABLE waitList  \* Condition::waitList
vars == <<held, threadName, Q, mode, todo, inside, aborted, waitList>>

Init == LockInit /\ waitList = <<>>

-------------------------------------------------------------------------------
\* Each operation asserts that the caller holds the lock.
AssertFails(t) ==
  /\ \E op \in {"Wait", "Signal", "Broadcast"} : Calls(t, op)
  /\ ~isHeldByCurrentThread(t)
  /\ aborted' = TRUE
  /\ UNCHANGED <<lockVars, mode, todo, inside, waitList>>

\* Slips: the lock is kept while asleep; the release wakes nobody.
WaitKeepsLock(t) ==
  /\ Calls(t, "Wait")
  /\ isHeldByCurrentThread(t)
  /\ waitList' = SortedInsert(waitList, t, Priority[t])
  /\ mode' = [mode EXCEPT ![t] = "waiting"]
  /\ UNCHANGED <<lockVars, todo, inside, aborted>>
WaitWakesNobody(t) ==
  /\ Calls(t, "Wait")
  /\ isHeldByCurrentThread(t)
  /\ waitList' = SortedInsert(waitList, t, Priority[t])
  /\ held' = 0
  /\ inside' = inside \ {t}
  /\ mode' = [mode EXCEPT ![t] = "waiting"]
  /\ UNCHANGED <<threadName, Q, todo, aborted>>

\* Queue up, Release, Sleep.
Wait(t) ==
  /\ Calls(t, "Wait")
  /\ isHeldByCurrentThread(t)
  /\ waitList' = SortedInsert(waitList, t, Priority[t])
  /\ held' = 0
  /\ inside' = inside \ {t}
  /\ \/ /\ Q # <<>>
        /\ mode' = [mode EXCEPT ![t] = "waiting", ![Head(Q).item] = "woken"]
        /\ Q' = Tail(Q)
     \/ /\ Q = <<>>
        /\ mode' = [mode EXCEPT ![t] = "waiting"]
        /\ UNCHANGED Q
  /\ UNCHANGED <<threadName, todo, aborted>>

\* Sleep returns and Wait calls Acquire.
ResumeInWait(t) ==
  /\ ~aborted
  /\ mode[t] = "signalled"
  /\ EnterLock(t)
  /\ UNCHANGED <<waitList, aborted>>

Signal(t) ==
  /\ Calls(t, "Signal")
  /\ isHeldByCurrentThread(t)
  /\ \/ /\ waitList # <<>>
        /\ mode' = [mode EXCEPT ![Head(waitList).item] = "signalled"]
        /\ waitList' = Tail(waitList)
     \/ waitList = <<>> /\ UNCHANGED <<mode, waitList>>
  /\ Return(t)
  /\ UNCHANGED <<lockVars, inside, aborted>>

Broadcast(t) ==
  /\ Calls(t, "Broadcast")
  /\ isHeldByCurrentThread(t)
  /\ mode' = [u \in Threads |-> IF u \in Items(waitList) THEN "signalled" ELSE mode[u]]
  /\ waitList' = <<>>
  /\ Return(t)
  /\ UNCHANGED <<lockVars, inside, aborted>>

LockStep(t) == /\ Acquire(t) \/ ResumeInAcquire(t) \/ Release(t)
               /\ UNCHANGED waitList

Step(t) == \/ LockStep(t)
           \/ Wait(t) \/ ResumeInWait(t) \/ Signal(t) \/ Broadcast(t)
           \/ AssertFails(t)

Next == \E t \in Threads : Step(t)

Spec == Init /\ [][Next]_vars

\* A runnable thread runs sooner or later (see Scheduler).
FairSpec == Spec /\ \A t \in Threads : WF_vars(Step(t))
-------------------------------------------------------------------------------
TypeOK == /\ held \in {0, 1}
          /\ threadName \in Names
          /\ Q \in Seq(Elements(Threads))
          /\ waitList \in Seq(Elements(Threads))
          /\ mode \in [Threads -> {"running", "asleep", "woken", "waiting", "signalled"}]
          /\ todo \in [Threads -> Seq(Operations)]
          /\ inside \subseteq Threads
          /\ aborted \in BOOLEAN

\* Two threads are never between Acquire and Release, out of Wait, at once.
MutualExclusion == \A t, u \in inside : t = u

\* The lock is BUSY exactly while some thread is inside, and the name stored
\* is that thread's: its own Release will find the lock held.
HolderIsNamed == /\ held = 0 => inside = {}
                 /\ held = 1 => \E t \in inside : threadName = Name[t]

\* Every sleeping thread is on exactly one list, the one its mode says, in the
\* order of the priorities: the next Release or Signal finds it, and none finds
\* it twice.
SleepersQueued ==
  /\ Items(Q) = {t \in Threads : mode[t] = "asleep"}
  /\ Items(waitList) = {t \in Threads : mode[t] = "waiting"}
  /\ Distinct(Q) /\ Distinct(waitList)
  /\ Sorted(Q) /\ Sorted(waitList)

\* The lock is never FREE while threads sleep on its queue and nobody is on
\* the way to take it, although Wait too releases it.
NoLostWakeup ==
  Q # <<>> => held = 1 \/ \E t \in Threads : mode[t] = "woken"

\* Monitor's lock and condition.
Promise == INSTANCE AbstractMonitor WITH
  owner <- [l \in {"lock"} |-> IF inside = {} THEN NoThread
                               ELSE CHOOSE t \in Threads : t \in inside],
  waitList <- [c \in {"cond"} |-> waitList],
  inWait <- {t \in Threads : /\ mode[t] # "running"
                             /\ Head(todo[t]) = "Wait"}

ImplementsMonitor == Promise!Spec

\* Every system of threads comes to rest, and at rest a thread waits only for
\* a signal, or for a lock whose owner never released it.
Quiesces ==
  <>[](\/ aborted
       \/ \A t \in Threads :
            \/ todo[t] = <<>>
            \/ mode[t] = "waiting"
            \/ mode[t] = "asleep" /\ inside # {})
===============================================================================
