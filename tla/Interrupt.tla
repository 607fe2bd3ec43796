------------------------------- MODULE Interrupt ------------------------------
(***************************************************************************)
(* Simulated time, the interrupts that are pending, the timer, and the     *)
(* switch from one thread to another that an interrupt brings about        *)
(* (machine/interrupt.cc, machine/timer.cc; Thread::Yield, Thread::Sleep   *)
(* and Scheduler::Run of a kernel with user programs).                     *)
(*                                                                         *)
(* One processor: a step belongs to the current thread, or to the hardware *)
(* while it ticks or idles.  Time passes when the thread turns interrupts  *)
(* on and after each user instruction (OneTick).  The keys of pending are  *)
(* the times left.  All threads have one priority, so that the ready list  *)
(* is FIFO (module Scheduler has priorities).                              *)
(***************************************************************************)
EXTENDS Mips, SortedList

CONSTANTS Threads,
          UserTick, SystemTick,  \* what one tick adds to the time in each mode
          TimerTicks             \* half the longest time between timer interrupts

ASSUME InterruptAssumption == {UserTick, SystemTick, TimerTicks} \subseteq Nat \ {0}

VARIABLES status,         \* Interrupt::status: "User", "System" or "Idle"
          pending,        \* Interrupt::pending: items are kinds of interrupts
          yieldOnReturn,
          doing,          \* "run": the current thread; "tick": it is about to tick;
                          \* "due": interrupts are looked at; "idle", "idling": the
                          \* same with no thread to run; "halted"; "aborted"
          current,        \* currentThread
          ready,          \* Scheduler::readyList
          place,          \* where each thread goes on
          inYield,        \* the threads that gave up the processor in Yield
          old,            \* the status each thread's OneTick will restore
          cpu,            \* Machine::registers
          saved,          \* Thread::userRegisters
          addressSpace    \* the thread whose page table the machine uses
clock == <<status, pending, yieldOnReturn, doing>>
dispatch == <<current, ready, inYield, saved, addressSpace>>

InterruptInit(first, others) ==
  /\ status = "System"
  /\ yieldOnReturn = FALSE
  /\ doing = "run"
  /\ current = first
  /\ ready = others
  /\ place = [t \in Threads |-> IF t = first THEN "begin" ELSE "root"]
  /\ inYield = {}
  /\ old = [t \in Threads |-> "System"]
  /\ cpu = [r |-> [x \in Registers |-> 0], hi |-> 0, lo |-> 0, pc |-> 0, nextPC |-> 0,
            load |-> 0, loadValue |-> 0]
  /\ saved = [t \in Threads |-> cpu]
  /\ addressSpace = first

\* Interrupt::Schedule.
Schedule(list, kind, fromNow) == SortedInsert(list, kind, fromNow)

Later(list, time) == [i \in DOMAIN list |-> [list[i] EXCEPT !.key = @ - time]]

\* The thread calls OneTick, in this status, and goes on at next.
Ticks(t, next, mode) == /\ status' = mode
                        /\ old' = [old EXCEPT ![t] = mode]
                        /\ place' = [place EXCEPT ![t] = next]
                        /\ doing' = "tick"

\* Scheduler::Run.  A thread that was never run starts in ThreadRoot and does
\* not come out of Run: nothing is restored.  Slip: the page table never is.
RunSameSpace(t) ==
  /\ saved' = [saved EXCEPT ![current] = cpu]
  /\ current' = t
  /\ cpu' = IF place[t] = "root" THEN cpu ELSE saved'[t]
  /\ UNCHANGED addressSpace

Run(t) ==
  /\ saved' = [saved EXCEPT ![current] = cpu]
  /\ current' = t
  /\ cpu' = IF place[t] = "root" THEN cpu ELSE saved'[t]
  /\ addressSpace' = IF place[t] = "root" THEN addressSpace ELSE t

\* The first thread of the list gets the processor.  In Yield it was about to
\* turn interrupts on again.
Dispatch(list, yielding) ==
  /\ Run(Head(list))
  /\ ready' = Tail(list)
  /\ inYield' = yielding \ {Head(list)}
  /\ doing' = IF Head(list) \in yielding THEN "tick" ELSE "run"

\* Thread::Sleep of the current thread.
Sleep == \/ ready # <<>> /\ Dispatch(ready, inYield)
         \/ ready = <<>> /\ doing' = "idle" /\ UNCHANGED <<dispatch, cpu>>

\* Thread::Yield, with interrupts on.
Yield == \/ ready # <<>> /\ Dispatch(Append(ready, current), inYield \cup {current})
         \/ ready = <<>> /\ doing' = "tick" /\ UNCHANGED <<dispatch, cpu>>
-------------------------------------------------------------------------------
OneTick ==
  /\ doing = "tick"
  /\ pending' = Later(pending, IF status = "System" THEN SystemTick ELSE UserTick)
  /\ doing' = "due"
  /\ UNCHANGED <<status, yieldOnReturn, dispatch, place, old, cpu>>

\* CheckIfDue: what is due is taken off, unless the machine is idle and only
\* the timer is left.
OnlyTimer == status = "Idle" /\ Len(pending) = 1 /\ Head(pending).item = "timer"

\* What is not due is put back, behind what has the same time.
PutBack == IF pending = <<>> THEN <<>>
           ELSE Schedule(Tail(pending), Head(pending).item, Head(pending).key)

Due == pending # <<>> /\ Head(pending).key <= 0 /\ ~OnlyTimer

\* The first pending interrupt is of this kind, and its handler is called.
\* Slip: the load of the interrupted program is left pending.
FiresMidLoad(kind) == /\ doing \in {"due", "idling"}
                      /\ Due
                      /\ Head(pending).item = kind
                      /\ UNCHANGED <<cpu, doing, place, old, status, current, inYield, saved,
                                     addressSpace>>

Fires(kind) == /\ doing \in {"due", "idling"}
               /\ Due
               /\ Head(pending).item = kind
               /\ cpu' = DelayedLoad(cpu, 0, 0)
               /\ UNCHANGED <<doing, place, old, status, current, inYield, saved, addressSpace>>

\* The handler of the timer asks for a time slice: the status is that of the
\* kernel while a handler runs, even when the machine was idle.
TimerExpired == /\ Fires("timer")
                /\ \E n \in 1 .. 2 * TimerTicks :
                     pending' = Schedule(Tail(pending), "timer", n)
                /\ yieldOnReturn' = TRUE
                /\ UNCHANGED ready

ReturnFromTick == /\ doing = "due"
                  /\ ~Due
                  /\ ~yieldOnReturn
                  /\ doing' = "run"
                  /\ status' = old[current]
                  /\ pending' = PutBack
                  /\ UNCHANGED <<yieldOnReturn, dispatch, place, old, cpu>>

YieldInTick == /\ doing = "due"
               /\ ~Due
               /\ yieldOnReturn
               /\ yieldOnReturn' = FALSE
               /\ status' = "System"
               /\ pending' = PutBack
               /\ Yield
               /\ UNCHANGED <<place, old>>

\* Interrupt::Idle, called by Sleep: the clock advances to the next interrupt,
\* or the machine halts when none will come but the timer's.
Idle == /\ doing = "idle"
        /\ status' = "Idle"
        /\ IF \E i \in DOMAIN pending : pending[i].item # "timer"
           THEN /\ doing' = "idling"
                /\ pending' = IF Head(pending).key > 0 THEN Later(pending, Head(pending).key)
                              ELSE pending
           ELSE doing' = "halted" /\ UNCHANGED pending
        /\ UNCHANGED <<yieldOnReturn, dispatch, place, old, cpu>>

\* Back in Sleep, which looks at the ready list again.
IdleReturns == /\ doing = "idling"
               /\ ~Due
               /\ yieldOnReturn' = FALSE
               /\ status' = "System"
               /\ pending' = PutBack
               /\ Sleep
               /\ UNCHANGED <<place, old>>
===============================================================================
