--------------------------------- MODULE Join ---------------------------------
(***************************************************************************)
(* How threads end: Thread::Finish, Thread::Join and the destruction of    *)
(* Thread objects (threads/thread.cc).                                     *)
(*                                                                         *)
(* A thread made with join = 1 and the thread that joins it meet under the *)
(* child's threadLock and condition: the parent waits until the child has  *)
(* finished, the child stays until the parent has seen it.  The fields are *)
(* those of the child's Thread object, which the scheduler deletes some    *)
(* time after the child's last step (module Scheduler has the details).    *)
(***************************************************************************)
EXTENDS Monitor, FiniteSets

CONSTANTS Threads,
          Main,      \* runs from the start, and is never joined
          Joinable,  \* the sets of threads that may have been made with join = 1
          Programs   \* what the threads may do: to each, a sequence of <<"Fork" or
                     \* "Join", child>>

\* What the constants are; ThreadTest assumes it of its own.
JoinAssumption ==
  /\ Main \in Threads
  /\ NoThread \notin Threads
  /\ \A J \in Joinable : J \subseteq Threads \ {Main}
  /\ \A t \in Threads : Priority[t] \in Int
  /\ Programs \subseteq [Threads -> Seq({"Fork", "Join"} \X Threads)]

VARIABLES join, joinCalled, threadFinished, finishedJoining,  \* fields of each Thread
          pc,      \* where each thread is in Fork, Join and Finish
          todo,    \* what its procedure still has to do
          aborted  \* an ASSERT has stopped the machine
fields == <<join, joinCalled, threadFinished, finishedJoining>>
vars == <<owner, waitList, fields, pc, todo, aborted>>

\* The constructor of a thread that is not to be joined leaves threadFinished
\* unset: it holds whatever was in memory.
Init == /\ owner = [c \in Threads |-> NoThread]
        /\ waitList = [c \in Threads |-> <<>>]
        /\ join \in {[t \in Threads |-> t \in J] : J \in Joinable}
        /\ joinCalled = [c \in Threads |-> FALSE]
        /\ threadFinished \in {f \in [Threads -> BOOLEAN] : \A c \in Threads : f[c] => ~join[c]}
        /\ finishedJoining = [c \in Threads |-> FALSE]
        /\ pc = [t \in Threads |-> IF t = Main THEN "run" ELSE "new"]
        /\ todo \in Programs
        /\ aborted = FALSE

Does(t, op, c) == ~aborted /\ todo[t] # <<>> /\ Head(todo[t]) = <<op, c>>

At(t, place) == ~aborted /\ pc[t] = place

Goto(t, place) == pc' = [pc EXCEPT ![t] = place]

Done(t) == todo' = [todo EXCEPT ![t] = Tail(@)]

Abort == aborted' = TRUE /\ UNCHANGED <<owner, waitList, fields, pc, todo>>

-------------------------------------------------------------------------------
Fork(t, c) ==
  /\ At(t, "run") /\ Does(t, "Fork", c)
  /\ pc[c] = "new"
  /\ Goto(c, "run")
  /\ Done(t)
  /\ UNCHANGED <<owner, waitList, fields, aborted>>

\* Join up to the assertion that fails.
JoinFails(t, c) ==
  /\ At(t, "run") /\ Does(t, "Join", c)
  /\ pc[c] # "deleted"
  /\ \/ c = t
     \/ joinCalled[c]
     \/ ~threadFinished[c] /\ (~join[c] \/ pc[c] = "new")
  /\ Abort

JoinReturnsEarly(t, c) ==
  /\ At(t, "run") /\ Does(t, "Join", c)
  /\ pc[c] # "deleted"
  /\ c # t /\ ~joinCalled[c]
  /\ threadFinished[c]
  /\ joinCalled' = [joinCalled EXCEPT ![c] = TRUE]
  /\ Done(t)
  /\ UNCHANGED <<owner, waitList, join, threadFinished, finishedJoining, pc, aborted>>

\* A Thread that was deleted is freed memory: the assertions may hold or not.
JoinDeleted(t, c) ==
  /\ At(t, "run") /\ Does(t, "Join", c)
  /\ pc[c] = "deleted"
  /\ \/ Abort
     \/ Done(t) /\ UNCHANGED <<owner, waitList, fields, pc, aborted>>

\* Join up to threadLock->Acquire.  The lock is free here: a child takes it in
\* Finish only after joinCalled was set.
JoinEnters(t, c) ==
  /\ At(t, "run") /\ Does(t, "Join", c)
  /\ c # t /\ ~joinCalled[c]
  /\ ~threadFinished[c] /\ join[c] /\ pc[c] # "new"
  /\ joinCalled' = [joinCalled EXCEPT ![c] = TRUE]
  /\ Acquire(t, c)
  /\ Goto(t, "joining")
  /\ UNCHANGED <<join, threadFinished, finishedJoining, todo, aborted>>

\* Join's loop, from a point where the parent has the lock to the next call.
JoinWaits(t, c) ==
  /\ At(t, "joining") /\ Does(t, "Join", c)
  /\ ~threadFinished[c]
  /\ Wait(t, c, c)
  /\ Goto(t, "joinWait")
  /\ UNCHANGED <<fields, todo, aborted>>

JoinWaitReturns(t, c) ==
  /\ At(t, "joinWait") /\ Does(t, "Join", c)
  /\ ReturnFromWait(t, c, c)
  /\ Goto(t, "joining")
  /\ UNCHANGED <<fields, todo, aborted>>

\* Slip: the child is not told.
JoinSeesFinishSilently(t, c) ==
  /\ At(t, "joining") /\ Does(t, "Join", c)
  /\ threadFinished[c]
  /\ finishedJoining' = [finishedJoining EXCEPT ![c] = TRUE]
  /\ Goto(t, "joinLeave")
  /\ UNCHANGED <<owner, waitList, join, joinCalled, threadFinished, todo, aborted>>

JoinSeesFinish(t, c) ==
  /\ At(t, "joining") /\ Does(t, "Join", c)
  /\ threadFinished[c]
  /\ finishedJoining' = [finishedJoining EXCEPT ![c] = TRUE]
  /\ Signal(t, c, c)
  /\ Goto(t, "joinLeave")
  /\ UNCHANGED <<join, joinCalled, threadFinished, todo, aborted>>

JoinLeaves(t, c) ==
  /\ At(t, "joinLeave") /\ Does(t, "Join", c)
  /\ Release(t, c)
  /\ Goto(t, "run")
  /\ Done(t)
  /\ UNCHANGED <<fields, aborted>>
-------------------------------------------------------------------------------
\* Finish, called when the procedure returns, up to threadLock->Acquire.
FinishCalled(t) ==
  /\ At(t, "run") /\ todo[t] = <<>>
  /\ \/ ~join[t] /\ Goto(t, "dead") /\ UNCHANGED <<owner, waitList, aborted>>
     \/ join[t] /\ joinCalled[t] /\ Acquire(t, t) /\ Goto(t, "finish") /\ UNCHANGED aborted
     \/ /\ join[t] /\ ~joinCalled[t]
        /\ aborted' = TRUE
        /\ UNCHANGED <<owner, waitList, pc>>
  /\ UNCHANGED <<fields, todo>>

FinishSignals(t) ==
  /\ At(t, "finish")
  /\ threadFinished' = [threadFinished EXCEPT ![t] = TRUE]
  /\ Signal(t, t, t)
  /\ Goto(t, "finishing")
  /\ UNCHANGED <<join, joinCalled, finishedJoining, todo, aborted>>

\* Slip: the child does not wait for its parent.
FinishWaitsNot(t) ==
  /\ At(t, "finishing")
  /\ ~finishedJoining[t]
  /\ Release(t, t)
  /\ Goto(t, "finishLeave")
  /\ UNCHANGED <<fields, todo, aborted>>

FinishWaits(t) ==
  /\ At(t, "finishing")
  /\ ~finishedJoining[t]
  /\ Wait(t, t, t)
  /\ Goto(t, "finishWait")
  /\ UNCHANGED <<fields, todo, aborted>>

FinishWaitReturns(t) ==
  /\ At(t, "finishWait")
  /\ ReturnFromWait(t, t, t)
  /\ Goto(t, "finishing")
  /\ UNCHANGED <<fields, todo, aborted>>

FinishReleases(t) ==
  /\ At(t, "finishing")
  /\ finishedJoining[t]
  /\ Release(t, t)
  /\ Goto(t, "finishLeave")
  /\ UNCHANGED <<fields, todo, aborted>>

\* threadToBeDestroyed is set and the thread sleeps for ever.
Die(t) ==
  /\ At(t, "finishLeave")
  /\ Goto(t, "dead")
  /\ UNCHANGED <<owner, waitList, fields, todo, aborted>>

\* Scheduler::Run deletes the carcass, in another thread.
Delete(t) ==
  /\ At(t, "dead")
  /\ Goto(t, "deleted")
  /\ UNCHANGED <<owner, waitList, fields, todo, aborted>>

Step(t) == \/ \E c \in Threads : \/ Fork(t, c)
                                 \/ JoinFails(t, c)
                                 \/ JoinReturnsEarly(t, c)
                                 \/ JoinDeleted(t, c)
                                 \/ JoinEnters(t, c)
                                 \/ JoinWaits(t, c)
                                 \/ JoinWaitReturns(t, c)
                                 \/ JoinSeesFinish(t, c)
                                 \/ JoinLeaves(t, c)
           \/ FinishCalled(t)
           \/ FinishSignals(t)
           \/ FinishWaits(t)
           \/ FinishWaitReturns(t)
           \/ FinishReleases(t)
           \/ Die(t)

Next == \E t \in Threads : Step(t) \/ Delete(t)

Spec == Init /\ [][Next]_vars
-------------------------------------------------------------------------------
Gone(c) == pc[c] \in {"finishLeave", "dead", "deleted"}

\* The rendezvous: the parent learns that the child has finished only when the
\* child's procedure is done, and a child to be joined goes away only after
\* its parent has learnt it.
Rendezvous ==
  \A c \in Threads :
    /\ finishedJoining[c] => todo[c] = <<>> /\ threadFinished[c]
    /\ join[c] /\ Gone(c) => finishedJoining[c]

\* While a thread is inside Join the Thread object it works on exists: the
\* child cannot leave before the parent's last use of its lock.
JoinedObjectLives ==
  \A t, c \in Threads :
    /\ pc[t] \in {"joining", "joinWait", "joinLeave"}
    /\ Head(todo[t]) = <<"Join", c>>
    => ~Gone(c)

\* threads/README, "Join", test (3), and thread.cc, Join: "call join after
\* child is done executing": no assertion fails however late the parent calls.
NoAssertionFails == ~aborted

===============================================================================
