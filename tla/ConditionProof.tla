---------------------------- MODULE ConditionProof ----------------------------
(***************************************************************************)
(* Proofs about the lock and the condition variable, for every finite set  *)
(* of threads whose names differ, all priorities and all programs.         *)
(***************************************************************************)
EXTENDS Condition, ListProof

Modes == {"running", "asleep", "woken", "waiting", "signalled"}

\* The list holds the threads in mode m of md, in the order of priorities.
Tracks(list, m, md) == /\ list \in Seq(Elements(Threads))
                       /\ Items(list) = {t \in Threads : md[t] = m}
                       /\ Distinct(list)
                       /\ Sorted(list)

\* A thread inside Acquire or Wait has that call to finish.
PendingCall ==
  \A t \in Threads :
    /\ mode[t] # "running" => /\ todo[t] # <<>>
                              /\ Head(todo[t]) \in {"Acquire", "Wait"}
    /\ mode[t] \in {"waiting", "signalled"} => Head(todo[t]) = "Wait"

\* Mutual exclusion is not inductive alone: that nobody is inside a FREE lock,
\* and that the name stored belongs to the thread inside, is what keeps the
\* next thread out.
IInv == /\ TypeOK
        /\ MutualExclusion
        /\ HolderIsNamed
        /\ SleepersQueued
        /\ NoLostWakeup
        /\ PendingCall

-------------------------------------------------------------------------------
\* What the steps do to a list of sleepers.
LEMMA TracksInsert ==
  ASSUME NEW list, NEW m \in Modes, NEW md \in [Threads -> Modes], Tracks(list, m, md),
         NEW t \in Threads, md[t] # m
  PROVE  Tracks(SortedInsert(list, t, Priority[t]), m, [md EXCEPT ![t] = m])
<1> DEFINE new == SortedInsert(list, t, Priority[t])
<1>0. /\ list \in Seq(Elements(Threads)) /\ Distinct(list) /\ Sorted(list)
      /\ Priority[t] \in Int
      /\ t \notin Items(list)
  BY LockAssumption DEF Tracks
<1>1. new \in Seq(Elements(Threads))
  BY <1>0, InsertShape
<1>2. Items(new) = Items(list) \cup {t}
  BY <1>0, InsertItems
<1>3. Distinct(new) /\ Sorted(new)
  BY <1>0, InsertDistinct, InsertSorted
<1>4. {u \in Threads : [md EXCEPT ![t] = m][u] = m} = {u \in Threads : md[u] = m} \cup {t}
  OBVIOUS
<1> HIDE DEF new
<1>5. QED
  BY <1>1, <1>2, <1>3, <1>4 DEF Tracks, new

LEMMA TracksRemove ==
  ASSUME NEW list, NEW m \in Modes, NEW md \in [Threads -> Modes], Tracks(list, m, md),
         list # <<>>, NEW m2 \in Modes, m2 # m
  PROVE  /\ Head(list).item \in Threads
         /\ md[Head(list).item] = m
         /\ Tracks(Tail(list), m, [md EXCEPT ![Head(list).item] = m2])
<1> DEFINE u == Head(list).item
<1>1. /\ Tail(list) \in Seq(Elements(Threads))
      /\ u \in Threads
      /\ u \in Items(list)
      /\ Items(list) = Items(Tail(list)) \cup {u}
      /\ Sorted(Tail(list)) /\ Distinct(Tail(list))
      /\ u \notin Items(Tail(list))
  BY RemoveProperties DEF Tracks
<1> HIDE DEF u
<1>2. md[u] = m
  BY <1>1 DEF Tracks
<1>3. {v \in Threads : [md EXCEPT ![u] = m2][v] = m} = {v \in Threads : md[v] = m} \ {u}
  BY <1>1
<1>4. Tracks(Tail(list), m, [md EXCEPT ![u] = m2])
  BY <1>1, <1>3 DEF Tracks
<1>5. QED
  BY <1>1, <1>2, <1>4 DEF u

LEMMA HeadIsTracked ==
  ASSUME NEW list, NEW m \in Modes, NEW md \in [Threads -> Modes], Tracks(list, m, md),
         list # <<>>
  PROVE  \E u \in Threads : u = Head(list).item /\ md[u] = m
BY RemoveProperties DEF Tracks

LEMMA TracksOther ==
  ASSUME NEW list, NEW m \in Modes, NEW md \in [Threads -> Modes], Tracks(list, m, md),
         NEW t \in Threads, md[t] # m, NEW m2 \in Modes, m2 # m
  PROVE  Tracks(list, m, [md EXCEPT ![t] = m2])
<1>1. {v \in Threads : [md EXCEPT ![t] = m2][v] = m} = {v \in Threads : md[v] = m}
  OBVIOUS
<1>2. QED
  BY <1>1 DEF Tracks

-------------------------------------------------------------------------------
LEMMA InitInv == Init => IInv
<1> SUFFICES ASSUME Init PROVE IInv
  OBVIOUS
<1> USE LockAssumption DEF Init, LockInit
<1>1. TypeOK
  BY EmptySeq DEF TypeOK
<1>2. SleepersQueued
  <2>1. Items(<<>>) = {} /\ Distinct(<<>>) /\ Sorted(<<>>)
    BY DEF Items, Distinct, Sorted
  <2>2. \A m \in Modes \ {"running"} : {t \in Threads : mode[t] = m} = {}
    OBVIOUS
  <2>3. QED
    BY <2>1, <2>2 DEF SleepersQueued, Modes
<1>3. QED
  BY <1>1, <1>2 DEF IInv, MutualExclusion, HolderIsNamed, NoLostWakeup, PendingCall

\* The thread that holds the lock by name is the one inside.
LEMMA HolderIsInside ==
  ASSUME DistinctNames, IInv, NEW t \in Threads
  PROVE  isHeldByCurrentThread(t) <=> inside = {t}
<1>0. /\ held \in {0, 1} /\ inside \subseteq Threads
      /\ MutualExclusion /\ HolderIsNamed
  BY DEF IInv, TypeOK
<1>1. ASSUME isHeldByCurrentThread(t) PROVE inside = {t}
  <2>1. PICK u \in inside : threadName = Name[u]
    BY <1>0, <1>1 DEF isHeldByCurrentThread, HolderIsNamed
  <2>2. u = t
    BY <1>0, <1>1, <2>1 DEF isHeldByCurrentThread, DistinctNames
  <2>3. QED
    BY <1>0, <2>1, <2>2 DEF MutualExclusion
<1>2. ASSUME inside = {t} PROVE isHeldByCurrentThread(t)
  BY <1>0, <1>2 DEF HolderIsNamed, isHeldByCurrentThread
<1>3. QED
  BY <1>1, <1>2

\* The facts about the state that each step starts from.
Typed == /\ held \in {0, 1} /\ threadName \in Names
         /\ mode \in [Threads -> Modes]
         /\ todo \in [Threads -> Seq(Operations)]
         /\ inside \subseteq Threads /\ aborted \in BOOLEAN

LEMMA Unfold ==
  /\ IInv <=> /\ Typed
              /\ Tracks(Q, "asleep", mode) /\ Tracks(waitList, "waiting", mode)
              /\ MutualExclusion /\ HolderIsNamed /\ NoLostWakeup /\ PendingCall
  /\ IInv' <=> /\ Typed'
               /\ Tracks(Q', "asleep", mode') /\ Tracks(waitList', "waiting", mode')
               /\ MutualExclusion' /\ HolderIsNamed' /\ NoLostWakeup' /\ PendingCall'
BY DEF IInv, TypeOK, Typed, Tracks, SleepersQueued, Modes

\* A call that returns shortens the caller's program.
LEMMA ReturnTyped ==
  ASSUME todo \in [Threads -> Seq(Operations)], NEW t \in Threads, todo[t] # <<>>, Return(t)
  PROVE  todo' \in [Threads -> Seq(Operations)]
BY HeadTailProperties DEF Return

-------------------------------------------------------------------------------
\* A turn of Acquire's loop, by a caller or by a thread that was woken.
LEMMA AcquireLoopInv ==
  ASSUME IInv, NEW t \in Threads, mode[t] \in {"running", "woken", "signalled"},
         todo[t] # <<>>, Head(todo[t]) \in {"Acquire", "Wait"},
         AcquireLoop(t), UNCHANGED <<waitList, aborted>>
  PROVE  IInv'
<1>0. /\ Typed
      /\ Tracks(Q, "asleep", mode) /\ Tracks(waitList, "waiting", mode)
      /\ MutualExclusion /\ HolderIsNamed /\ NoLostWakeup /\ PendingCall
  BY Unfold
<1>m. mode \in [Threads -> Modes] /\ Modes = {"running", "asleep", "woken", "waiting", "signalled"}
  BY <1>0 DEF Typed, Modes
<1>1. CASE /\ held = 1
           /\ Q' = SortedInsert(Q, t, Priority[t])
           /\ mode' = [mode EXCEPT ![t] = "asleep"]
           /\ UNCHANGED <<held, threadName, todo, inside>>
  <2>1. Typed'
    BY <1>0, <1>1, <1>m DEF Typed
  <2>2. Tracks(Q', "asleep", mode')
    BY <1>0, <1>1, <1>m, TracksInsert
  <2>3. Tracks(waitList', "waiting", mode')
    BY <1>0, <1>1, <1>m, TracksOther
  <2>4. MutualExclusion' /\ HolderIsNamed' /\ NoLostWakeup'
    BY <1>0, <1>1 DEF MutualExclusion, HolderIsNamed, NoLostWakeup
  <2>5. PendingCall'
    BY <1>0, <1>m, <1>1 DEF PendingCall
  <2>6. QED
    BY <2>1, <2>2, <2>3, <2>4, <2>5, Unfold
<1>2. CASE /\ held = 0
           /\ held' = 1
           /\ threadName' = Name[t]
           /\ mode' = [mode EXCEPT ![t] = "running"]
           /\ inside' = inside \cup {t}
           /\ Return(t)
           /\ UNCHANGED Q
  <2>1. inside' = {t}
    BY <1>0, <1>2 DEF HolderIsNamed
  <2>2. Typed'
    <3>1. todo' \in [Threads -> Seq(Operations)]
      BY <1>0, <1>2, ReturnTyped DEF Typed
    <3>2. QED
      BY <1>0, <1>2, <1>m, <2>1, <3>1 DEF Typed, Names
  <2>3. Tracks(Q', "asleep", mode') /\ Tracks(waitList', "waiting", mode')
    BY <1>0, <1>2, <1>m, TracksOther
  <2>4. MutualExclusion' /\ HolderIsNamed' /\ NoLostWakeup'
    BY <1>2, <2>1 DEF MutualExclusion, HolderIsNamed, NoLostWakeup
  <2>5. PendingCall'
    BY <1>0, <1>2, <1>m DEF PendingCall, Return, Typed
  <2>6. QED
    BY <2>2, <2>3, <2>4, <2>5, Unfold
<1>3. QED
  BY <1>1, <1>2 DEF AcquireLoop

\* The whole of Acquire; a caller that owns the lock goes on at once.
LEMMA EnterLockInv ==
  ASSUME DistinctNames, IInv, NEW t \in Threads,
         mode[t] \in {"running", "woken", "signalled"},
         todo[t] # <<>>, Head(todo[t]) \in {"Acquire", "Wait"},
         EnterLock(t), UNCHANGED <<waitList, aborted>>
  PROVE  IInv'
<1>0. /\ Typed
      /\ Tracks(Q, "asleep", mode) /\ Tracks(waitList, "waiting", mode)
      /\ MutualExclusion /\ HolderIsNamed /\ NoLostWakeup /\ PendingCall
  BY Unfold
<1>m. mode \in [Threads -> Modes] /\ Modes = {"running", "asleep", "woken", "waiting", "signalled"}
  BY <1>0 DEF Typed, Modes
<1>1. CASE /\ isHeldByCurrentThread(t)
           /\ mode' = [mode EXCEPT ![t] = "running"]
           /\ inside' = inside \cup {t}
           /\ Return(t)
           /\ UNCHANGED lockVars
  <2>1. inside' = inside
    BY <1>1, HolderIsInside
  <2>2. Typed'
    <3>1. todo' \in [Threads -> Seq(Operations)]
      BY <1>0, <1>1, ReturnTyped DEF Typed
    <3>2. QED
      BY <1>0, <1>1, <1>m, <2>1, <3>1 DEF Typed, lockVars
  <2>3. Tracks(Q', "asleep", mode') /\ Tracks(waitList', "waiting", mode')
    BY <1>0, <1>1, <1>m, TracksOther DEF lockVars
  <2>4. MutualExclusion' /\ HolderIsNamed'
    BY <1>0, <1>1, <2>1 DEF MutualExclusion, HolderIsNamed, lockVars
  <2>5. NoLostWakeup'
    BY <1>1 DEF NoLostWakeup, isHeldByCurrentThread, lockVars
  <2>6. PendingCall'
    BY <1>0, <1>1, <1>m DEF PendingCall, Return, Typed
  <2>7. QED
    BY <2>2, <2>3, <2>4, <2>5, <2>6, Unfold
<1>2. CASE AcquireLoop(t)
  BY <1>2, AcquireLoopInv
<1>3. QED
  BY <1>1, <1>2 DEF EnterLock
\* A step that only stops the machine.
LEMMA AbortInv ==
  ASSUME IInv, aborted' = TRUE, UNCHANGED <<lockVars, mode, todo, inside, waitList>>
  PROVE  IInv'
BY DEF IInv, TypeOK, MutualExclusion, HolderIsNamed, SleepersQueued, NoLostWakeup,
       PendingCall, lockVars

LEMMA ReleaseInv ==
  ASSUME DistinctNames, IInv, NEW t \in Threads, Release(t), UNCHANGED waitList
  PROVE  IInv'
<1>0. /\ Typed
      /\ Tracks(Q, "asleep", mode) /\ Tracks(waitList, "waiting", mode)
      /\ MutualExclusion /\ HolderIsNamed /\ NoLostWakeup /\ PendingCall
  BY Unfold
<1>m. mode \in [Threads -> Modes] /\ Modes = {"running", "asleep", "woken", "waiting", "signalled"}
  BY <1>0 DEF Typed, Modes
<1>1. CASE /\ isHeldByCurrentThread(t)
           /\ \/ /\ Q # <<>>
                 /\ mode' = [mode EXCEPT ![Head(Q).item] = "woken"]
                 /\ Q' = Tail(Q)
              \/ Q = <<>> /\ UNCHANGED <<mode, Q>>
           /\ held' = 0
           /\ inside' = inside \ {t}
           /\ Return(t)
           /\ UNCHANGED <<threadName, aborted>>
  <2>0. mode[t] = "running" /\ todo[t] # <<>> /\ Return(t)
    BY <1>1 DEF Release, Calls
  <2>1. inside' = {}
    BY <1>1, HolderIsInside
  <2>2. todo' \in [Threads -> Seq(Operations)]
    BY <1>0, <1>1, <2>0, ReturnTyped DEF Typed
  <2>3. MutualExclusion' /\ HolderIsNamed'
    BY <1>1, <2>1 DEF MutualExclusion, HolderIsNamed
  <2>4. ASSUME Q = <<>>, UNCHANGED <<mode, Q>> PROVE IInv'
    <3>1. Typed'
      BY <1>0, <1>1, <2>1, <2>2, <2>4 DEF Typed
    <3>2. NoLostWakeup'
      BY <2>4 DEF NoLostWakeup
    <3>3. PendingCall'
      BY <1>0, <1>1, <2>0, <2>4 DEF PendingCall, Return, Typed
    <3>4. Tracks(Q', "asleep", mode') /\ Tracks(waitList', "waiting", mode')
      BY <1>0, <2>4
    <3>5. QED
      BY <2>3, <3>1, <3>2, <3>3, <3>4, Unfold
  <2>5. ASSUME Q # <<>>, mode' = [mode EXCEPT ![Head(Q).item] = "woken"], Q' = Tail(Q)
        PROVE  IInv'
    <3> DEFINE u == Head(Q).item
    <3>1. /\ u \in Threads
          /\ mode[u] = "asleep"
          /\ Tracks(Q', "asleep", mode')
      BY <1>0, <1>m, <2>5, TracksRemove
    <3> HIDE DEF u
    <3>2. mode' = [mode EXCEPT ![u] = "woken"]
      BY <2>5 DEF u
    <3>3. Tracks(waitList', "waiting", mode')
      BY <1>0, <1>m, <3>1, <3>2, TracksOther
    <3>4. Typed'
      BY <1>0, <1>1, <1>m, <2>1, <2>2, <3>1, <3>2 DEF Typed
    <3>5. NoLostWakeup'
      <4>1. mode'[u] = "woken"
        BY <1>m, <3>1, <3>2
      <4>2. QED
        BY <3>1, <4>1 DEF NoLostWakeup
    <3>6. PendingCall'
      <4>1. u # t
        BY <2>0, <3>1
      <4>2. QED
        BY <1>0, <2>0, <1>m, <3>1, <3>2, <4>1 DEF PendingCall, Return, Typed
    <3>7. QED
      BY <2>3, <3>1, <3>3, <3>4, <3>5, <3>6, Unfold
  <2>6. QED
    BY <1>1, <2>4, <2>5
<1>2. CASE aborted' = TRUE /\ UNCHANGED <<held, threadName, Q, mode, todo, inside>>
  BY <1>2, AbortInv DEF lockVars
<1>3. QED
  BY <1>1, <1>2 DEF Release

\* Wait changes two lists and up to two threads: itself and the lock's next.
LEMMA WaitInv ==
  ASSUME DistinctNames, IInv, NEW t \in Threads, Wait(t)
  PROVE  IInv'
<1>0. /\ Typed
      /\ Tracks(Q, "asleep", mode) /\ Tracks(waitList, "waiting", mode)
      /\ MutualExclusion /\ HolderIsNamed /\ NoLostWakeup /\ PendingCall
  BY Unfold
<1>m. mode \in [Threads -> Modes] /\ Modes = {"running", "asleep", "woken", "waiting", "signalled"}
  BY <1>0 DEF Typed, Modes
<1>1. /\ mode[t] = "running" /\ todo[t] # <<>> /\ Head(todo[t]) = "Wait"
      /\ isHeldByCurrentThread(t)
      /\ waitList' = SortedInsert(waitList, t, Priority[t])
      /\ held' = 0
      /\ inside' = inside \ {t}
      /\ UNCHANGED <<threadName, todo, aborted>>
  BY DEF Wait, Calls
<1>2. inside' = {}
  BY <1>1, HolderIsInside
<1>3. MutualExclusion' /\ HolderIsNamed'
  BY <1>1, <1>2 DEF MutualExclusion, HolderIsNamed
<1> DEFINE md == [mode EXCEPT ![t] = "waiting"]
<1>4. /\ md \in [Threads -> Modes]
      /\ Tracks(waitList', "waiting", md)
      /\ Tracks(Q, "asleep", md)
      /\ \A v \in Threads : md[v] = IF v = t THEN "waiting" ELSE mode[v]
  <2>1. Tracks(waitList', "waiting", md)
    BY <1>0, <1>1, <1>m, TracksInsert
  <2>2. Tracks(Q, "asleep", md)
    BY <1>0, <1>1, <1>m, TracksOther
  <2>3. QED
    BY <1>m, <2>1, <2>2
<1>5. ASSUME Q = <<>>, mode' = [mode EXCEPT ![t] = "waiting"], UNCHANGED Q PROVE IInv'
  <2>0. mode' = md
    BY <1>5
  <2> HIDE DEF md
  <2>1. Typed'
    BY <1>0, <1>1, <1>2, <1>4, <2>0 DEF Typed
  <2>2. NoLostWakeup'
    BY <1>5 DEF NoLostWakeup
  <2>3. PendingCall'
    BY <1>0, <1>1, <1>4, <2>0 DEF PendingCall
  <2>4. QED
    BY <1>3, <1>4, <1>5, <2>0, <2>1, <2>2, <2>3, Unfold
<1>6. ASSUME Q # <<>>, Q' = Tail(Q),
             mode' = [mode EXCEPT ![t] = "waiting", ![Head(Q).item] = "woken"]
      PROVE  IInv'
  <2> DEFINE u == Head(Q).item
  <2>0. mode' = [md EXCEPT ![u] = "woken"]
    BY <1>6
  <2> HIDE DEF md
  <2>1. /\ u \in Threads
        /\ md[u] = "asleep"
        /\ Tracks(Tail(Q), "asleep", [md EXCEPT ![u] = "woken"])
    <3>1. Tracks(Q, "asleep", md) /\ md \in [Threads -> Modes]
      BY <1>4
    <3>2. "asleep" \in Modes /\ "woken" \in Modes
      BY <1>m
    <3>3. QED
      BY <1>6, <3>1, <3>2, TracksRemove
  <2> HIDE DEF u
  <2>2. Tracks(waitList', "waiting", mode')
    BY <1>4, <1>m, <2>0, <2>1, TracksOther
  <2>3. Typed'
    BY <1>0, <1>1, <1>2, <1>4, <1>m, <2>0, <2>1 DEF Typed
  <2>4. NoLostWakeup'
    <3>1. mode'[u] = "woken"
      BY <1>4, <2>0, <2>1
    <3>2. QED
      BY <2>1, <3>1 DEF NoLostWakeup
  <2>5. PendingCall'
    BY <1>0, <1>1, <1>4, <2>0, <2>1 DEF PendingCall
  <2>6. QED
    BY <1>3, <1>6, <2>0, <2>1, <2>2, <2>3, <2>4, <2>5, Unfold
<1>7. QED
  BY <1>5, <1>6 DEF Wait

LEMMA SignalInv ==
  ASSUME IInv, NEW t \in Threads, Signal(t)
  PROVE  IInv'
<1>0. /\ Typed
      /\ Tracks(Q, "asleep", mode) /\ Tracks(waitList, "waiting", mode)
      /\ MutualExclusion /\ HolderIsNamed /\ NoLostWakeup /\ PendingCall
  BY Unfold
<1>m. mode \in [Threads -> Modes] /\ Modes = {"running", "asleep", "woken", "waiting", "signalled"}
  BY <1>0 DEF Typed, Modes
<1>1. /\ mode[t] = "running" /\ todo[t] # <<>>
      /\ isHeldByCurrentThread(t)
      /\ Return(t)
      /\ UNCHANGED <<held, threadName, Q, inside, aborted>>
  BY DEF Signal, Calls, lockVars
<1>2. todo' \in [Threads -> Seq(Operations)]
  BY <1>0, <1>1, ReturnTyped DEF Typed
<1>3. MutualExclusion' /\ HolderIsNamed' /\ NoLostWakeup'
  BY <1>0, <1>1 DEF MutualExclusion, HolderIsNamed, NoLostWakeup, isHeldByCurrentThread
<1>4. ASSUME UNCHANGED <<mode, waitList>> PROVE IInv'
  <2>1. Typed'
    BY <1>0, <1>1, <1>2, <1>4 DEF Typed
  <2>2. PendingCall'
    BY <1>0, <1>1, <1>4 DEF PendingCall, Return, Typed
  <2>3. QED
    BY <1>0, <1>1, <1>3, <1>4, <2>1, <2>2, Unfold
<1>5. ASSUME waitList # <<>>, waitList' = Tail(waitList),
             mode' = [mode EXCEPT ![Head(waitList).item] = "signalled"]
      PROVE  IInv'
  <2> DEFINE u == Head(waitList).item
  <2>1. /\ u \in Threads
        /\ mode[u] = "waiting"
        /\ Tracks(waitList', "waiting", mode')
    BY <1>0, <1>5, <1>m, TracksRemove
  <2> HIDE DEF u
  <2>2. mode' = [mode EXCEPT ![u] = "signalled"]
    BY <1>5 DEF u
  <2>3. Tracks(Q', "asleep", mode')
    BY <1>0, <1>1, <1>m, <2>1, <2>2, TracksOther
  <2>4. Typed'
    BY <1>0, <1>1, <1>2, <1>m, <2>1, <2>2 DEF Typed
  <2>5. PendingCall'
    <3>1. u # t
      BY <1>1, <2>1
    <3>2. QED
      BY <1>0, <1>1, <1>m, <2>1, <2>2, <3>1 DEF PendingCall, Return, Typed
  <2>6. QED
    BY <1>3, <2>1, <2>3, <2>4, <2>5, Unfold
<1>6. QED
  BY <1>4, <1>5 DEF Signal

LEMMA BroadcastInv ==
  ASSUME IInv, NEW t \in Threads, Broadcast(t)
  PROVE  IInv'
<1>0. /\ Typed
      /\ Tracks(Q, "asleep", mode) /\ Tracks(waitList, "waiting", mode)
      /\ MutualExclusion /\ HolderIsNamed /\ NoLostWakeup /\ PendingCall
  BY Unfold
<1>m. mode \in [Threads -> Modes] /\ Modes = {"running", "asleep", "woken", "waiting", "signalled"}
  BY <1>0 DEF Typed, Modes
<1>1. /\ mode[t] = "running" /\ todo[t] # <<>>
      /\ isHeldByCurrentThread(t)
      /\ mode' = [u \in Threads |-> IF u \in Items(waitList) THEN "signalled" ELSE mode[u]]
      /\ waitList' = <<>>
      /\ Return(t)
      /\ UNCHANGED <<held, threadName, Q, inside, aborted>>
  BY DEF Broadcast, Calls, lockVars
<1>2. todo' \in [Threads -> Seq(Operations)]
  BY <1>0, <1>1, ReturnTyped DEF Typed
<1>3. MutualExclusion' /\ HolderIsNamed' /\ NoLostWakeup'
  BY <1>0, <1>1 DEF MutualExclusion, HolderIsNamed, NoLostWakeup, isHeldByCurrentThread
<1>4. \A u \in Threads :
        mode'[u] = IF mode[u] = "waiting" THEN "signalled" ELSE mode[u]
  BY <1>0, <1>1 DEF Tracks
<1>5. Typed'
  BY <1>0, <1>1, <1>2, <1>m DEF Typed
<1>6. Tracks(Q', "asleep", mode')
  <2>1. {u \in Threads : mode'[u] = "asleep"} = {u \in Threads : mode[u] = "asleep"}
    BY <1>4
  <2>2. QED
    BY <1>0, <1>1, <2>1 DEF Tracks
<1>7. Tracks(waitList', "waiting", mode')
  <2>1. {u \in Threads : mode'[u] = "waiting"} = {}
    BY <1>4
  <2>2. Items(<<>>) = {} /\ Distinct(<<>>) /\ Sorted(<<>>)
    BY DEF Items, Distinct, Sorted
  <2>3. QED
    BY <1>1, <2>1, <2>2, EmptySeq DEF Tracks
<1>8. PendingCall'
  BY <1>0, <1>1, <1>4 DEF PendingCall, Return, Typed
<1>9. QED
  BY <1>3, <1>5, <1>6, <1>7, <1>8, Unfold

LEMMA NextInv == DistinctNames /\ IInv /\ [Next]_vars => IInv'
<1> SUFFICES ASSUME DistinctNames, IInv, [Next]_vars PROVE IInv'
  OBVIOUS
<1>1. ASSUME NEW t \in Threads, LockStep(t) PROVE IInv'
  <2>1. CASE Acquire(t)
    BY <1>1, <2>1, EnterLockInv DEF LockStep, Acquire, Calls
  <2>2. CASE ResumeInAcquire(t)
    BY <1>1, <2>2, AcquireLoopInv DEF LockStep, ResumeInAcquire, IInv, PendingCall
  <2>3. CASE Release(t)
    BY <1>1, <2>3, ReleaseInv DEF LockStep
  <2>4. QED
    BY <1>1, <2>1, <2>2, <2>3 DEF LockStep
<1>2. ASSUME NEW t \in Threads, ResumeInWait(t) PROVE IInv'
  BY <1>2, EnterLockInv DEF ResumeInWait, IInv, PendingCall
<1>3. ASSUME NEW t \in Threads, AssertFails(t) PROVE IInv'
  BY <1>3, AbortInv DEF AssertFails
<1>4. CASE UNCHANGED vars
  BY <1>4 DEF vars, IInv, TypeOK, MutualExclusion, HolderIsNamed, SleepersQueued,
              NoLostWakeup, PendingCall
<1>5. QED
  BY <1>1, <1>2, <1>3, <1>4, WaitInv, SignalInv, BroadcastInv DEF Next, Step

\* What Acquire, Release, Wait, Signal and Broadcast keep true, all together.
THEOREM ConditionInvariant == ASSUME DistinctNames PROVE Spec => []IInv
<1>1. QED
  BY InitInv, NextInv, PTL DEF Spec

\* The fields of the lock and of the condition keep their types.
THEOREM ConditionTypeOK == ASSUME DistinctNames PROVE Spec => []TypeOK
BY ConditionInvariant, PTL DEF IInv

\* Threads with names of their own exclude one another, across Wait too.
THEOREM LockExcludes == ASSUME DistinctNames PROVE Spec => []MutualExclusion
BY ConditionInvariant, PTL DEF IInv

\* Each sleeper is on the one list its next wakeup is taken from.
THEOREM SleepersAreQueued == ASSUME DistinctNames PROVE Spec => []SleepersQueued
BY ConditionInvariant, PTL DEF IInv

\* A FREE lock never leaves its waiters asleep with nobody on the way.
THEOREM LockLosesNoWakeup == ASSUME DistinctNames PROVE Spec => []NoLostWakeup
BY ConditionInvariant, PTL DEF IInv
-------------------------------------------------------------------------------
\* What the refinement mapping gives Monitor: the owner and the threads in Wait.
Owner == IF inside = {} THEN NoThread ELSE CHOOSE t \in Threads : t \in inside
InWait == {t \in Threads : mode[t] # "running" /\ Head(todo[t]) = "Wait"}

LEMMA OwnerIs ==
  ASSUME NEW t \in Threads
  PROVE  /\ inside = {t} => Owner = t
         /\ inside' = {t} => Owner' = t
         /\ inside = {} => Owner = NoThread
         /\ inside' = {} => Owner' = NoThread
         /\ inside' = inside => Owner' = Owner
<1>1. (CHOOSE u \in Threads : u \in {t}) = t
  OBVIOUS
<1>2. inside' = inside => Owner' = Owner
  BY DEF Owner
<1>3. QED
  BY <1>1, <1>2 DEF Owner

\* The abstract module's own copies of the list operators are the same.
LEMMA SameLists ==
  ASSUME NEW list, NEW item, NEW key
  PROVE  /\ Promise!Items(list) = Items(list)
         /\ Promise!SortedInsert(list, item, key) = SortedInsert(list, item, key)
<1>1. Promise!Items(list) = Items(list)
  BY DEF Promise!Items, Items
<1>2. Promise!Place(list, key) = Place(list, key)
  BY DEF Promise!Place, Place
<1>3. Promise!SortedInsert(list, item, key) = SortedInsert(list, item, key)
  BY <1>2 DEF Promise!SortedInsert, SortedInsert, Promise!Element, Element,
              Promise!InsertAt, InsertAt
<1>4. QED
  BY <1>1, <1>3

\* The abstract operations in terms of the mapping.
LEMMA MappedOperations ==
  ASSUME NEW t \in Threads
  PROVE  /\ Promise!Holds(t, "lock") <=> Owner = t
         /\ Owner \in {NoThread, t} /\ Owner' = t /\ waitList' = waitList
              => Promise!Acquire(t, "lock")
         /\ Owner = t /\ Owner' = NoThread /\ waitList' = waitList
              => Promise!Release(t, "lock")
         /\ Owner = t /\ Owner' = NoThread /\
            waitList' = SortedInsert(waitList, t, Priority[t])
              => Promise!Wait(t, "lock", "cond")
         /\ Owner = t /\ Owner' = Owner /\
            waitList' = (IF waitList = <<>> THEN waitList ELSE Tail(waitList))
              => Promise!Signal(t, "lock", "cond")
         /\ Owner = t /\ Owner' = Owner /\ waitList' = <<>>
              => Promise!Broadcast(t, "lock", "cond")
<1>1. Promise!Holds(t, "lock") <=> Owner = t
  BY DEF Owner, Promise!Holds
<1>2. ASSUME NEW w
      PROVE  [[l \in {"lock"} |-> Owner] EXCEPT !["lock"] = w] = [l \in {"lock"} |-> w]
  OBVIOUS
<1>3. ASSUME NEW w
      PROVE  [[c \in {"cond"} |-> waitList] EXCEPT !["cond"] = w] = [c \in {"cond"} |-> w]
  OBVIOUS
<1>4. Owner \in {NoThread, t} /\ Owner' = t /\ waitList' = waitList
        => Promise!Acquire(t, "lock")
  BY <1>2 DEF Owner, Promise!Acquire
<1>5. Owner = t /\ Owner' = NoThread /\ waitList' = waitList
        => Promise!Release(t, "lock")
  BY <1>1, <1>2 DEF Owner, Promise!Release
<1>6. Owner = t /\ Owner' = NoThread /\
      waitList' = SortedInsert(waitList, t, Priority[t])
        => Promise!Wait(t, "lock", "cond")
  BY <1>1, <1>2, <1>3, SameLists DEF Owner, Promise!Wait
<1>7. Owner = t /\ Owner' = Owner /\
      waitList' = (IF waitList = <<>> THEN waitList ELSE Tail(waitList))
        => Promise!Signal(t, "lock", "cond")
  BY <1>1, <1>3 DEF Owner, Promise!Signal
<1>8. Owner = t /\ Owner' = Owner /\ waitList' = <<>>
        => Promise!Broadcast(t, "lock", "cond")
  BY <1>1, <1>3 DEF Owner, Promise!Broadcast
<1>9. QED
  BY <1>1, <1>4, <1>5, <1>6, <1>7, <1>8

\* A turn of Acquire takes the lock for an Acquire or ends a Wait, or shows
\* the abstract monitor nothing.
LEMMA EnterLockRefines ==
  ASSUME DistinctNames, IInv, NEW t \in Threads, ~aborted,
         mode[t] \in {"running", "woken", "signalled"},
         todo[t] # <<>>, Head(todo[t]) \in {"Acquire", "Wait"},
         mode[t] = "running" => Head(todo[t]) = "Acquire",
         EnterLock(t), UNCHANGED <<waitList, aborted>>
  PROVE  Promise!Next \/ UNCHANGED Promise!vars
<1>0. /\ mode \in [Threads -> Modes]
      /\ HolderIsNamed
      /\ Items(waitList) = {u \in Threads : mode[u] = "waiting"}
  BY Unfold DEF Typed, Tracks
<1>1. ASSUME mode' = [mode EXCEPT ![t] = "asleep"], UNCHANGED <<todo, inside>>
      PROVE  UNCHANGED Promise!vars
  <2>1. UNCHANGED InWait
    BY <1>0, <1>1 DEF InWait
  <2>2. QED
    BY <1>1, <2>1 DEF InWait, Promise!vars
<1>2. ASSUME Owner \in {NoThread, t}, Owner' = t, Return(t),
             mode' = [mode EXCEPT ![t] = "running"]
      PROVE  Promise!Next
  <2>1. Promise!Acquire(t, "lock")
    BY <1>2, MappedOperations
  <2>2. CASE Head(todo[t]) = "Acquire"
    <3>1. InWait' = InWait /\ t \notin InWait
      BY <1>0, <1>2, <2>2 DEF InWait, Return
    <3>2. Promise!DoAcquire(t)
      BY <1>2, <2>1, <2>2, <3>1
         DEF InWait, Return, Promise!DoAcquire, Promise!Call, Promise!Return
    <3>3. QED
      BY <3>2 DEF Promise!Next
  <2>3. CASE Head(todo[t]) = "Wait"
    <3>1. t \in InWait /\ InWait' = InWait \ {t}
      BY <1>0, <1>2, <2>3 DEF InWait, Return
    <3>2. t \notin Items(waitList)
      BY <1>0
    <3>3. Promise!DoReturn(t)
      BY <1>2, <2>1, <3>1, <3>2, SameLists
         DEF InWait, Return, Promise!DoReturn, Promise!ReturnFromWait
    <3>4. QED
      BY <3>3 DEF Promise!Next
  <2>4. QED
    BY <2>2, <2>3
<1>3. CASE isHeldByCurrentThread(t)
  <2>1. inside = {t} /\ inside' = {t} /\ mode' = [mode EXCEPT ![t] = "running"] /\ Return(t)
    BY <1>3, HolderIsInside DEF EnterLock
  <2>2. QED
    BY <1>2, <2>1, OwnerIs
<1>4. CASE held = 0 /\ AcquireLoop(t)
  <2>1. inside = {} /\ inside' = {t} /\ mode' = [mode EXCEPT ![t] = "running"] /\ Return(t)
    BY <1>0, <1>4 DEF AcquireLoop, HolderIsNamed
  <2>2. QED
    BY <1>2, <2>1, OwnerIs
<1>5. CASE held = 1 /\ AcquireLoop(t)
  BY <1>1, <1>5 DEF AcquireLoop
<1>6. QED
  BY <1>3, <1>4, <1>5 DEF EnterLock, AcquireLoop

\* An assertion fails in the code exactly when the caller is not the owner.
LEMMA AbortRefines ==
  ASSUME DistinctNames, IInv, NEW t \in Threads,
         NEW op \in {"Release", "Wait", "Signal", "Broadcast"}, Calls(t, op),
         ~isHeldByCurrentThread(t),
         aborted' = TRUE, UNCHANGED <<lockVars, mode, todo, inside, waitList>>
  PROVE  Promise!Next
<1>0. MutualExclusion /\ inside \subseteq Threads
  BY DEF IInv, TypeOK
<1>1. Owner # t
  <2>1. inside # {t}
    BY HolderIsInside
  <2>2. t \notin inside
    BY <1>0, <2>1 DEF MutualExclusion
  <2>3. CASE inside = {}
    BY <2>3, LockAssumption DEF Owner
  <2>4. CASE inside # {}
    BY <1>0, <2>2, <2>4 DEF Owner
  <2>5. QED
    BY <2>3, <2>4
<1>2. UNCHANGED <<Owner, InWait>>
  BY OwnerIs DEF InWait
<1>3. t \notin InWait
  BY DEF InWait, Calls
<1>4. ~Promise!Holds(t, "lock")
  BY <1>1, MappedOperations
<1>5. Promise!Abort(t)
  BY <1>2, <1>3, <1>4 DEF Owner, InWait, Calls, Promise!Abort, Promise!Call
<1>6. QED
  BY <1>5 DEF Promise!Next
LEMMA StepRefines ==
  ASSUME DistinctNames, IInv, NEW t \in Threads, Step(t)
  PROVE  [Promise!Next]_(Promise!vars)
<1>0. /\ mode \in [Threads -> Modes]
      /\ Tracks(Q, "asleep", mode) /\ Tracks(waitList, "waiting", mode)
      /\ PendingCall
      /\ Modes = {"running", "asleep", "woken", "waiting", "signalled"}
  BY Unfold DEF Typed, Modes
<1>1. CASE Acquire(t) /\ UNCHANGED waitList
  BY <1>1, EnterLockRefines DEF Acquire, Calls
<1>2. CASE ResumeInAcquire(t) /\ UNCHANGED waitList
  <2>1. CASE isHeldByCurrentThread(t)
    <3>1. inside = {t} /\ held = 1
      BY <2>1, HolderIsInside DEF isHeldByCurrentThread
    <3>2. mode' = [mode EXCEPT ![t] = "asleep"] /\ UNCHANGED <<todo, inside>>
      BY <1>2, <3>1 DEF ResumeInAcquire, AcquireLoop
    <3>3. UNCHANGED InWait
      BY <1>0, <1>2, <3>2 DEF InWait, ResumeInAcquire
    <3>4. QED
      BY <1>2, <3>2, <3>3 DEF InWait, ResumeInAcquire, Promise!vars
  <2>2. CASE ~isHeldByCurrentThread(t)
    <3>1. EnterLock(t) /\ ~aborted /\ UNCHANGED <<waitList, aborted>> /\ mode[t] = "woken"
      BY <1>2, <2>2 DEF ResumeInAcquire, EnterLock
    <3>2. todo[t] # <<>> /\ Head(todo[t]) \in {"Acquire", "Wait"}
      BY <1>0, <3>1 DEF PendingCall
    <3>3. QED
      BY <3>1, <3>2, EnterLockRefines
  <2>3. QED
    BY <2>1, <2>2
<1>3. CASE ResumeInWait(t)
  BY <1>0, <1>3, EnterLockRefines DEF ResumeInWait, PendingCall
<1>4. CASE AssertFails(t)
  BY <1>4, AbortRefines DEF AssertFails
<1>5. CASE Release(t) /\ UNCHANGED waitList /\ ~isHeldByCurrentThread(t)
  BY <1>5, AbortRefines DEF Release, lockVars
<1>6. CASE Release(t) /\ UNCHANGED waitList /\ isHeldByCurrentThread(t)
  <2>1. inside = {t} /\ inside' = {}
    BY <1>6, HolderIsInside DEF Release
  <2>2. Promise!Release(t, "lock")
    BY <1>6, <2>1, OwnerIs, MappedOperations
  <2>3. mode[t] = "running" /\ Return(t) /\ ~aborted /\ aborted' = aborted
    BY <1>6 DEF Release, Calls
  <2>4. ASSUME Q # <<>>, mode' = [mode EXCEPT ![Head(Q).item] = "woken"]
        PROVE  UNCHANGED InWait
    <3>1. PICK u \in Threads : u = Head(Q).item /\ mode[u] = "asleep"
      BY <1>0, <2>4, HeadIsTracked
    <3>2. mode' = [mode EXCEPT ![u] = "woken"] /\ u # t
      BY <2>3, <2>4, <3>1
    <3>3. QED
      BY <1>0, <2>3, <3>1, <3>2 DEF InWait, Return
  <2>5. ASSUME UNCHANGED mode PROVE UNCHANGED InWait
    BY <1>0, <2>3, <2>5 DEF InWait, Return
  <2>6. UNCHANGED InWait /\ t \notin InWait
    BY <1>6, <2>3, <2>4, <2>5 DEF Release, InWait
  <2>7. Promise!DoRelease(t)
    BY <1>6, <2>2, <2>3, <2>6
       DEF Release, Calls, Return, InWait, Promise!DoRelease, Promise!Call, Promise!Return
  <2>8. QED
    BY <2>7 DEF Promise!Next
<1>7. CASE Wait(t)
  <2>1. inside = {t} /\ inside' = {}
    BY <1>7, HolderIsInside DEF Wait
  <2>2. Promise!Wait(t, "lock", "cond")
    BY <1>7, <2>1, OwnerIs, MappedOperations DEF Wait
  <2>3. mode[t] = "running" /\ Head(todo[t]) = "Wait" /\ UNCHANGED todo
    BY <1>7 DEF Wait, Calls
  <2>4. ASSUME Q # <<>>, mode' = [mode EXCEPT ![t] = "waiting", ![Head(Q).item] = "woken"]
        PROVE  InWait' = InWait \cup {t}
    <3>1. PICK u \in Threads : u = Head(Q).item /\ mode[u] = "asleep"
      BY <1>0, <2>4, HeadIsTracked
    <3>2. mode' = [mode EXCEPT ![t] = "waiting", ![u] = "woken"] /\ u # t
      BY <2>3, <2>4, <3>1
    <3>3. QED
      BY <1>0, <2>3, <3>1, <3>2 DEF InWait
  <2>5. ASSUME mode' = [mode EXCEPT ![t] = "waiting"] PROVE InWait' = InWait \cup {t}
    BY <1>0, <2>3, <2>5 DEF InWait
  <2>6. InWait' = InWait \cup {t} /\ t \notin InWait
    BY <1>7, <2>3, <2>4, <2>5 DEF Wait, InWait
  <2>7. Promise!DoWait(t)
    BY <1>7, <2>2, <2>6 DEF Wait, Calls, InWait, Promise!DoWait, Promise!Call
  <2>8. QED
    BY <2>7 DEF Promise!Next
<1>8. CASE Signal(t)
  <2>1. inside = {t} /\ inside' = inside
    BY <1>8, HolderIsInside DEF Signal
  <2>2. Promise!Signal(t, "lock", "cond")
    <3>1. waitList' = IF waitList = <<>> THEN waitList ELSE Tail(waitList)
      BY <1>8 DEF Signal
    <3>2. Owner = t /\ Owner' = Owner
      BY <2>1, OwnerIs
    <3>3. QED
      BY <3>1, <3>2, MappedOperations
  <2>3. mode[t] = "running" /\ Return(t)
    BY <1>8 DEF Signal, Calls
  <2>4. ASSUME waitList # <<>>, mode' = [mode EXCEPT ![Head(waitList).item] = "signalled"]
        PROVE  UNCHANGED InWait
    <3>1. PICK u \in Threads : u = Head(waitList).item /\ mode[u] = "waiting"
      BY <1>0, <2>4, HeadIsTracked
    <3>2. mode' = [mode EXCEPT ![u] = "signalled"] /\ u # t
      BY <2>3, <2>4, <3>1
    <3>3. QED
      BY <1>0, <2>3, <3>1, <3>2 DEF InWait, Return
  <2>5. ASSUME UNCHANGED mode PROVE UNCHANGED InWait
    BY <1>0, <2>3, <2>5 DEF InWait, Return
  <2>6. UNCHANGED InWait /\ t \notin InWait
    BY <1>8, <2>3, <2>4, <2>5 DEF Signal, InWait
  <2>7. Promise!DoSignal(t)
    BY <1>8, <2>2, <2>6
       DEF Signal, Calls, Return, InWait, Promise!DoSignal, Promise!Call, Promise!Return
  <2>8. QED
    BY <2>7 DEF Promise!Next
<1>9. CASE Broadcast(t)
  <2>1. inside = {t} /\ inside' = inside
    BY <1>9, HolderIsInside DEF Broadcast
  <2>2. Promise!Broadcast(t, "lock", "cond")
    BY <1>9, <2>1, OwnerIs, MappedOperations DEF Broadcast
  <2>3. \A u \in Threads :
          mode'[u] = IF mode[u] = "waiting" THEN "signalled" ELSE mode[u]
    BY <1>0, <1>9 DEF Broadcast, Tracks
  <2>4. UNCHANGED InWait /\ t \notin InWait
    BY <1>0, <1>9, <2>3 DEF Broadcast, Calls, Return, InWait
  <2>5. Promise!DoBroadcast(t)
    BY <1>9, <2>2, <2>4
       DEF Broadcast, Calls, Return, InWait, Promise!DoBroadcast, Promise!Call,
           Promise!Return
  <2>6. QED
    BY <2>5 DEF Promise!Next
<1>10. QED
  BY <1>1, <1>2, <1>3, <1>4, <1>5, <1>6, <1>7, <1>8, <1>9 DEF Step, LockStep

\* Among threads whose names differ the code, with its lock queue and its
\* sleepers, is the monitor of synch.h that Join, Mailbox, Whale and SynchList
\* are written with.
THEOREM ConditionImplementsMonitor == ASSUME DistinctNames PROVE Spec => ImplementsMonitor
<1>1. Init => Promise!Init
  <2> SUFFICES ASSUME Init PROVE Promise!Init
    OBVIOUS
  <2>1. Owner = NoThread /\ InWait = {}
    BY DEF Init, LockInit, Owner, InWait
  <2>2. QED
    BY <2>1 DEF Init, LockInit, Owner, InWait, Promise!Init
<1>2. DistinctNames /\ IInv /\ [Next]_vars => [Promise!Next]_(Promise!vars)
  <2> SUFFICES ASSUME DistinctNames, IInv, [Next]_vars PROVE [Promise!Next]_(Promise!vars)
    OBVIOUS
  <2>1. CASE UNCHANGED vars
    BY <2>1 DEF vars, Promise!vars
  <2>2. QED
    BY <2>1, StepRefines DEF Next
<1>3. QED
  BY <1>1, <1>2, ConditionInvariant, PTL DEF Spec, ImplementsMonitor, Promise!Spec
===============================================================================
