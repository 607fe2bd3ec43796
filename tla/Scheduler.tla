------------------------------- MODULE Scheduler ------------------------------
(***************************************************************************)
(* Threads and their dispatcher: threads/thread.cc and                     *)
(* threads/scheduler.cc.                                                   *)
(*                                                                         *)
(* Nachos runs on one processor and protects this code by turning          *)
(* interrupts off, so each operation below is one step.  The running       *)
(* thread wakes others through the synchronization primitives (Wakeup);    *)
(* when nobody is ready the last thread to sleep idles inside Sleep, and   *)
(* the handler of a device interrupt may then make a thread ready          *)
(* (HandlerReady, which runs in Interrupt::Idle).  The timer handler makes *)
(* the running thread Yield.                                               *)
(***************************************************************************)
EXTENDS SortedList, FiniteSets

CONSTANTS Threads,     \* slots for Thread objects
          Main,        \* the thread main() runs in, made by Initialize
          Priorities,  \* arguments of setPriority
          NoThread     \* NULL

ASSUME SchedulerAssumption == /\ Main \in Threads
                              /\ NoThread \notin Threads
                              /\ Priorities \subseteq Int

VARIABLES
  status,             \* Thread::status; also NONE before new, DELETED after delete
  priority,           \* Thread::priority, the negated argument of setPriority
  fresh,              \* threads whose saved state is still that of StackAllocate
  finished,           \* threads that called Finish
  readyList,          \* Scheduler::readyList
  currentThread,
  threadToBeDestroyed
vars == <<status, priority, fresh, finished, readyList, currentThread,
          threadToBeDestroyed>>

Statuses == {"NONE", "JUST_CREATED", "RUNNING", "READY", "BLOCKED", "DELETED"}

\* Slip: Initialize forgets to make main the current thread.
InitNoCurrent ==
  /\ status = [t \in Threads |-> IF t = Main THEN "RUNNING" ELSE "NONE"]
  /\ priority = [t \in Threads |-> 0]
  /\ fresh = {}
  /\ finished = {}
  /\ readyList = <<>>
  /\ currentThread = NoThread
  /\ threadToBeDestroyed = NoThread

Init ==
  /\ status = [t \in Threads |-> IF t = Main THEN "RUNNING" ELSE "NONE"]
  /\ priority = [t \in Threads |-> 0]
  /\ fresh = {}
  /\ finished = {}
  /\ readyList = <<>>
  /\ currentThread = Main
  /\ threadToBeDestroyed = NoThread

\* The current thread went to sleep, nobody was ready: it is in Sleep's loop.
Idle == status[currentThread] = "BLOCKED"

Running == status[currentThread] = "RUNNING"

-------------------------------------------------------------------------------
\* Slips: the newcomer goes to the front; priorities are ignored.
ReadyToRunAtFront(list, t) == <<Element(t, priority[t])>> \o list
ReadyToRunFifo(list, t) == AppendItem(list, t)

\* Scheduler::ReadyToRun on the ready list; the callers set the status.
ReadyToRun(list, t) == SortedInsert(list, t, priority[t])

\* Slip: threadToBeDestroyed is not reset after the delete.
RunKeepsPointer(next, list, st, carcass) ==
  LET reaps == carcass # NoThread /\ next \notin fresh
  IN  /\ readyList' = list
      /\ currentThread' = next
      /\ fresh' = fresh \ {next}
      /\ threadToBeDestroyed' = carcass
      /\ status' = [t \in Threads |-> IF t = next THEN "RUNNING"
                                      ELSE IF reaps /\ t = carcass THEN "DELETED"
                                      ELSE st[t]]

\* Scheduler::Run: next gets the processor.  A thread that was switched out
\* returns here from SWITCH and deletes the carcass of a finished thread; a
\* fresh one starts in ThreadRoot and does not.
Run(next, list, st, carcass) ==
  LET reaps == carcass # NoThread /\ next \notin fresh
  IN  /\ readyList' = list
      /\ currentThread' = next
      /\ fresh' = fresh \ {next}
      /\ threadToBeDestroyed' = IF reaps THEN NoThread ELSE carcass
      /\ status' = [t \in Threads |-> IF t = next THEN "RUNNING"
                                      ELSE IF reaps /\ t = carcass THEN "DELETED"
                                      ELSE st[t]]

\* Thread::Sleep: give the processor to the first ready thread, or idle.
Sleep(carcass) ==
  LET st == [status EXCEPT ![currentThread] = "BLOCKED"]
  IN  \/ /\ readyList # <<>>
         /\ Run(Head(readyList).item, Tail(readyList), st, carcass)
      \/ /\ readyList = <<>>
         /\ status' = st
         /\ threadToBeDestroyed' = carcass
         /\ UNCHANGED <<fresh, readyList, currentThread>>

-------------------------------------------------------------------------------
NewThread(t) ==
  /\ Running
  /\ status[t] = "NONE"
  /\ status' = [status EXCEPT ![t] = "JUST_CREATED"]
  /\ priority' = [priority EXCEPT ![t] = 0]
  /\ UNCHANGED <<fresh, finished, readyList, currentThread, threadToBeDestroyed>>

\* A thread that is queued keeps its place, so the callers set the priority of
\* a thread before they fork it, or their own.
setPriority(t, newPriority) ==
  /\ Running
  /\ \/ t = currentThread
     \/ status[t] = "JUST_CREATED"
  /\ priority' = [priority EXCEPT ![t] = -newPriority]
  /\ UNCHANGED <<status, fresh, finished, readyList, currentThread,
                 threadToBeDestroyed>>

Fork(t) ==
  /\ Running
  /\ status[t] = "JUST_CREATED"
  /\ status' = [status EXCEPT ![t] = "READY"]
  /\ readyList' = ReadyToRun(readyList, t)
  /\ fresh' = fresh \cup {t}
  /\ UNCHANGED <<priority, finished, currentThread, threadToBeDestroyed>>

\* Slips: the yielding thread is not put back; it stays marked RUNNING.
YieldForgetsSelf ==
  /\ Running
  /\ readyList # <<>>
  /\ Run(Head(readyList).item, Tail(readyList),
         [status EXCEPT ![currentThread] = "READY"], threadToBeDestroyed)
  /\ UNCHANGED <<priority, finished>>
YieldKeepsRunning ==
  /\ Running
  /\ readyList # <<>>
  /\ Run(Head(readyList).item, ReadyToRun(Tail(readyList), currentThread),
         status, threadToBeDestroyed)
  /\ UNCHANGED <<priority, finished>>

\* Nothing happens when nobody is ready.
Yield ==
  /\ Running
  /\ readyList # <<>>
  /\ Run(Head(readyList).item, ReadyToRun(Tail(readyList), currentThread),
         [status EXCEPT ![currentThread] = "READY"], threadToBeDestroyed)
  /\ UNCHANGED <<priority, finished>>

\* The running thread waits on a semaphore, a lock or a condition.
Block ==
  /\ Running
  /\ Sleep(threadToBeDestroyed)
  /\ UNCHANGED <<priority, finished>>

\* V, Release, Signal or Broadcast by the running thread, or the handler of an
\* interrupt that interrupts it.  A finished thread is on no wait list.
Wakeup(t) ==
  /\ Running
  /\ status[t] = "BLOCKED" /\ t \notin finished
  /\ status' = [status EXCEPT ![t] = "READY"]
  /\ readyList' = ReadyToRun(readyList, t)
  /\ UNCHANGED <<priority, fresh, finished, currentThread, threadToBeDestroyed>>

\* An interrupt handler run by Idle: the thread it wakes may be the idling one.
HandlerReady(t) ==
  /\ Idle
  /\ status[t] = "BLOCKED" /\ t \notin finished
  /\ status' = [status EXCEPT ![t] = "READY"]
  /\ readyList' = ReadyToRun(readyList, t)
  /\ UNCHANGED <<priority, fresh, finished, currentThread, threadToBeDestroyed>>

\* Slip: after an interrupt the idling thread goes on, woken or not.
LeaveIdleResumesSleeper ==
  /\ ~Running
  /\ readyList # <<>>
  /\ Run(currentThread, readyList, status, threadToBeDestroyed)
  /\ UNCHANGED <<priority, finished>>

\* Sleep's loop finds a thread after the interrupt was handled.  The idling
\* thread may itself have become ready, so Idle need not hold here.
LeaveIdle ==
  /\ ~Running
  /\ readyList # <<>>
  /\ Run(Head(readyList).item, Tail(readyList), status, threadToBeDestroyed)
  /\ UNCHANGED <<priority, finished>>

\* Thread::Finish of a thread that is not joined (Join has the others).
Finish ==
  /\ Running
  /\ finished' = finished \cup {currentThread}
  /\ Sleep(currentThread)
  /\ UNCHANGED priority

Next == \/ \E t \in Threads : \/ NewThread(t)
                              \/ \E p \in Priorities : setPriority(t, p)
                              \/ Fork(t)
                              \/ Wakeup(t)
                              \/ HandlerReady(t)
        \/ Yield
        \/ Block
        \/ LeaveIdle
        \/ Finish

Spec == Init /\ [][Next]_vars

\* The timer (or the program) makes a running thread give the processor up
\* sooner or later, and Sleep's loop does not stop on a nonempty ready list.
FairSpec == Spec /\ WF_vars(Yield \/ Block \/ Finish) /\ WF_vars(LeaveIdle)
-------------------------------------------------------------------------------
TypeOK ==
  /\ status \in [Threads -> Statuses]
  /\ priority \in [Threads -> Int]
  /\ fresh \subseteq Threads
  /\ finished \subseteq Threads
  /\ readyList \in Seq(Elements(Threads))
  /\ currentThread \in Threads
  /\ threadToBeDestroyed \in Threads \cup {NoThread}

\* The ready list holds exactly the READY threads, each once.  A thread lost
\* from it never runs again; one that is on it twice would be dispatched
\* while it waits on a semaphore.
ReadyListExact ==
  /\ Items(readyList) = {t \in Threads : status[t] = "READY"}
  /\ Distinct(readyList)

\* Only the current thread can be RUNNING, and it is deleted or fresh never:
\* the processor never executes on a stack that was freed.
OneRunning ==
  /\ \A t \in Threads : status[t] = "RUNNING" => t = currentThread
  /\ status[currentThread] \in {"RUNNING", "READY", "BLOCKED"}

\* What waits for destruction is a thread that has finished and will not be
\* woken, and the destructor runs only once (thread.cc asserts that it is not
\* the current thread).
CarcassIsDead ==
  /\ threadToBeDestroyed # NoThread =>
       /\ threadToBeDestroyed \in finished
       /\ status[threadToBeDestroyed] = "BLOCKED"
  /\ \A t \in finished : status[t] \in {"BLOCKED", "DELETED"}

\* README 4a: the ready queue is ordered by decreasing priorities, that is by
\* the increasing values that setPriority stores.
OrderedByPriority ==
  \A i, j \in DOMAIN readyList :
    i < j => priority[readyList[i].item] <= priority[readyList[j].item]

\* What the synchronization modules assume of the processor.
Life ==
  [t \in Threads |->
     CASE status[t] \in {"NONE", "JUST_CREATED"} -> "unborn"
       [] status[t] \in {"RUNNING", "READY"} -> "runnable"
       [] status[t] = "BLOCKED" /\ t \notin finished -> "blocked"
       [] OTHER -> "done"]

CpuView == INSTANCE Cpu WITH life <- Life

\* The dispatcher neither loses a thread nor runs one that has to wait.
ImplementsCpu == CpuView!Spec

\* thread.cc, Yield: the thread that yields is put on the ready list "so that
\* it will eventually be re-scheduled": a thread stays READY for ever only while
\* threads of higher priority (a smaller value) keep running.
EventuallyScheduled ==
  \A t \in Threads :
    []<>(\/ status[t] # "READY"
         \/ Running /\ priority[currentThread] < priority[t])
===============================================================================
