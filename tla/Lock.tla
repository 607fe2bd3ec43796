--------------------------------- MODULE Lock ---------------------------------
(***************************************************************************)
(* The lock of threads/synch.cc.                                           *)
(*                                                                         *)
(* As in Semaphore, a call is one step unless Acquire finds the lock held: *)
(* then the thread sleeps inside the loop and is resumed after a Release.  *)
(* Module Condition has the threads that make these calls.                 *)
(*                                                                         *)
(* The lock does not remember the thread that holds it but a copy of that  *)
(* thread's name; a thread holds the lock when its name is the one stored. *)
(***************************************************************************)
EXTENDS SortedList, FiniteSets

CONSTANTS Threads,
          Name,      \* Thread::name, what isHeldByCurrentThread compares
          Priority,
          Programs,  \* the sequences of Operations a thread may call
          NoThread   \* no thread

Operations == {"Acquire", "Release", "Wait", "Signal", "Broadcast"}

ASSUME LockAssumption == /\ IsFiniteSet(Threads)
                         /\ NoThread \notin Threads
                         /\ Priority \in [Threads -> Int]
                         /\ Programs \subseteq Seq(Operations)

\* What isHeldByCurrentThread relies on.
DistinctNames == \A t, u \in Threads : Name[t] = Name[u] => t = u

Names == {Name[t] : t \in Threads}

VARIABLES held,        \* Lock::held
          threadName,  \* Lock::threadName, not initialized by the constructor
          Q,           \* Lock::Q
          mode,        \* "running"; "asleep" in Acquire, or "woken" but not resumed;
                       \* "waiting" in Wait, or "signalled" but not resumed
          todo,        \* the calls each thread still has to make
          inside,      \* the threads back from Acquire that have not called Release
          aborted      \* an ASSERT has stopped the machine
lockVars == <<held, threadName, Q>>

LockInit == /\ held = 0
            /\ threadName \in Names
            /\ Q = <<>>
            /\ mode = [t \in Threads |-> "running"]
            /\ todo \in [Threads -> Programs]
            /\ inside = {}
            /\ aborted = FALSE

Calls(t, op) == /\ ~aborted
                /\ mode[t] = "running"
                /\ todo[t] # <<>>
                /\ Head(todo[t]) = op

Return(t) == todo' = [todo EXCEPT ![t] = Tail(@)]

isHeldByCurrentThread(t) == held = 1 /\ threadName = Name[t]

-------------------------------------------------------------------------------
\* Slip: the loop is an if, and the thread that comes out of Sleep takes the
\* lock.
AcquireLoopOnce(t) ==
  \/ /\ held = 1 /\ mode[t] = "running"
     /\ Q' = SortedInsert(Q, t, Priority[t])
     /\ mode' = [mode EXCEPT ![t] = "asleep"]
     /\ UNCHANGED <<held, threadName, todo, inside>>
  \/ /\ held = 0 \/ mode[t] = "woken"
     /\ held' = 1
     /\ threadName' = Name[t]
     /\ mode' = [mode EXCEPT ![t] = "running"]
     /\ inside' = inside \cup {t}
     /\ Return(t)
     /\ UNCHANGED Q

\* One turn of Acquire's loop.
AcquireLoop(t) ==
  \/ /\ held = 1
     /\ Q' = SortedInsert(Q, t, Priority[t])
     /\ mode' = [mode EXCEPT ![t] = "asleep"]
     /\ UNCHANGED <<held, threadName, todo, inside>>
  \/ /\ held = 0
     /\ held' = 1
     /\ threadName' = Name[t]
     /\ mode' = [mode EXCEPT ![t] = "running"]
     /\ inside' = inside \cup {t}
     /\ Return(t)
     /\ UNCHANGED Q

\* The body of Acquire: a thread that already holds the lock goes on at once.
EnterLock(t) ==
  \/ /\ isHeldByCurrentThread(t)
     /\ mode' = [mode EXCEPT ![t] = "running"]
     /\ inside' = inside \cup {t}
     /\ Return(t)
     /\ UNCHANGED lockVars
  \/ ~isHeldByCurrentThread(t) /\ AcquireLoop(t)

Acquire(t) == Calls(t, "Acquire") /\ EnterLock(t) /\ UNCHANGED aborted

\* Sleep returns and the loop looks at held again.
ResumeInAcquire(t) ==
  /\ ~aborted
  /\ mode[t] = "woken"
  /\ AcquireLoop(t)
  /\ UNCHANGED aborted

\* Slips: the waiter stays on Q; the assertion is missing and held counts down.
ReleaseKeepsWaiter(t) ==
  /\ Calls(t, "Release")
  /\ isHeldByCurrentThread(t)
  /\ mode' = IF Q = <<>> THEN mode ELSE [mode EXCEPT ![Head(Q).item] = "woken"]
  /\ held' = 0
  /\ inside' = inside \ {t}
  /\ Return(t)
  /\ UNCHANGED <<threadName, Q, aborted>>
ReleaseUnchecked(t) ==
  /\ Calls(t, "Release")
  /\ \/ /\ Q # <<>>
        /\ mode' = [mode EXCEPT ![Head(Q).item] = "woken"]
        /\ Q' = Tail(Q)
     \/ Q = <<>> /\ UNCHANGED <<mode, Q>>
  /\ held' = held - 1
  /\ inside' = inside \ {t}
  /\ Return(t)
  /\ UNCHANGED <<threadName, aborted>>

Release(t) ==
  /\ Calls(t, "Release")
  /\ \/ /\ isHeldByCurrentThread(t)
        /\ \/ /\ Q # <<>>
              /\ mode' = [mode EXCEPT ![Head(Q).item] = "woken"]
              /\ Q' = Tail(Q)
           \/ Q = <<>> /\ UNCHANGED <<mode, Q>>
        /\ held' = 0
        /\ inside' = inside \ {t}
        /\ Return(t)
        /\ UNCHANGED <<threadName, aborted>>
     \/ /\ ~isHeldByCurrentThread(t)
        /\ aborted' = TRUE
        /\ UNCHANGED <<held, threadName, Q, mode, todo, inside>>
===============================================================================
