---------------------------- MODULE SemaphoreProof ----------------------------
(***************************************************************************)
(* Proofs about the semaphore, for every finite set of threads, all        *)
(* priorities, every initial value and all programs.                       *)
(***************************************************************************)
EXTENDS Semaphore, ListProof, FiniteSetTheorems

\* The wakeup count is inductive only together with the exactness of the
\* queue: a sleeper that were not on it could be woken without a place in it.
Inv == TypeOK /\ SleepersQueued /\ NoLostWakeup

LEMMA InitInv == Init => Inv
<1> SUFFICES ASSUME Init PROVE Inv
  OBVIOUS
<1> USE SemaphoreAssumption DEF Init
<1>1. TypeOK
  BY EmptySeq DEF TypeOK
<1>2. SleepersQueued
  <2>1. Items(<<>>) = {} /\ Distinct(<<>>) /\ Sorted(<<>>)
    BY DEF Items, Distinct, Sorted
  <2>2. {t \in Threads : mode[t] = "asleep"} = {}
    OBVIOUS
  <2>3. QED
    BY <2>1, <2>2 DEF SleepersQueued
<1>3. NoLostWakeup
  BY DEF NoLostWakeup
<1>4. QED
  BY <1>1, <1>2, <1>3 DEF Inv

\* How the number of woken threads changes when one thread changes mode.
LEMMA WokenIsFinite ==
  ASSUME TypeOK
  PROVE  IsFiniteSet(Woken) /\ Cardinality(Woken) \in Nat
<1>1. Woken \in SUBSET Threads
  BY DEF Woken
<1>2. QED
  BY <1>1, SemaphoreAssumption, FS_Subset, FS_CardinalityType

LEMMA WokenOneMore ==
  ASSUME TypeOK, NEW t \in Threads, mode[t] = "asleep",
         mode' = [mode EXCEPT ![t] = "woken"]
  PROVE  Cardinality(Woken') = Cardinality(Woken) + 1
<1>1. Woken' = Woken \cup {t} /\ t \notin Woken
  BY DEF Woken, TypeOK
<1>2. QED
  BY <1>1, WokenIsFinite, FS_AddElement

LEMMA WokenOneLess ==
  ASSUME TypeOK, NEW t \in Threads, mode[t] = "woken", NEW m, m # "woken",
         mode' = [mode EXCEPT ![t] = m]
  PROVE  Cardinality(Woken') = Cardinality(Woken) - 1
<1>1. Woken' = Woken \ {t} /\ t \in Woken
  BY DEF Woken, TypeOK
<1>2. QED
  BY <1>1, WokenIsFinite, FS_RemoveElement

\* A turn of P's loop, by a caller or by a woken thread.
LEMMA WaitOrTakeInv ==
  ASSUME Inv, NEW t \in Threads, mode[t] \in {"running", "woken"}, todo[t] # <<>>,
         WaitOrTake(t)
  PROVE  Inv'
<1>0. /\ TypeOK /\ SleepersQueued /\ NoLostWakeup
      /\ value \in Nat
      /\ queue \in Seq(Elements(Threads))
      /\ mode \in [Threads -> {"running", "asleep", "woken"}]
      /\ todo \in [Threads -> Seq({"P", "V"})]
      /\ Priority[t] \in Int
      /\ Cardinality(Woken) \in Nat
  BY SemaphoreAssumption, WokenIsFinite DEF Inv, TypeOK
<1>1. CASE /\ value = 0
           /\ queue' = SortedInsert(queue, t, Priority[t])
           /\ mode' = [mode EXCEPT ![t] = "asleep"]
           /\ UNCHANGED <<value, todo>>
  <2>1. t \notin Items(queue)
    BY <1>0 DEF SleepersQueued
  <2>2. /\ queue' \in Seq(Elements(Threads))
        /\ Items(queue') = Items(queue) \cup {t}
        /\ Distinct(queue')
        /\ Sorted(queue')
    <3>1. /\ queue' = SortedInsert(queue, t, Priority[t])
          /\ queue \in Seq(Elements(Threads)) /\ Priority[t] \in Int
          /\ Distinct(queue) /\ Sorted(queue)
      BY <1>0, <1>1 DEF SleepersQueued
    <3>2. queue' \in Seq(Elements(Threads))
      BY <3>1, InsertShape
    <3>3. Items(queue') = Items(queue) \cup {t}
      BY <3>1, InsertItems
    <3>4. Distinct(queue')
      BY <3>1, <2>1, InsertDistinct
    <3>5. Sorted(queue')
      BY <3>1, InsertSorted
    <3>6. QED
      BY <3>2, <3>3, <3>4, <3>5
  <2>3. TypeOK'
    BY <1>0, <1>1, <2>2 DEF TypeOK
  <2>4. SleepersQueued'
    <3>1. {u \in Threads : mode'[u] = "asleep"}
            = {u \in Threads : mode[u] = "asleep"} \cup {t}
      BY <1>0, <1>1
    <3>2. QED
      BY <1>0, <2>2, <3>1 DEF SleepersQueued
  <2>5. NoLostWakeup'
    <3>1. value' = 0
      BY <1>1
    <3>2. IsFiniteSet(Woken') /\ Cardinality(Woken') \in Nat
      <4>1. Woken' \in SUBSET Threads
        BY DEF Woken
      <4>2. QED
        BY <4>1, SemaphoreAssumption, FS_Subset, FS_CardinalityType
    <3>3. QED
      BY <3>1, <3>2 DEF NoLostWakeup
  <2>6. QED
    BY <2>2, <2>3, <2>4, <2>5 DEF Inv
<1>2. CASE /\ value # 0
           /\ value' = value - 1
           /\ mode' = [mode EXCEPT ![t] = "running"]
           /\ Return(t)
           /\ UNCHANGED queue
  <2>1. TypeOK'
    <3>1. todo' \in [Threads -> Seq({"P", "V"})]
      BY <1>0, <1>2, HeadTailProperties DEF Return
    <3>2. value' \in Nat
      BY <1>0, <1>2
    <3>3. QED
      BY <1>0, <1>2, <3>1, <3>2 DEF TypeOK
  <2>2. SleepersQueued'
    <3>1. {u \in Threads : mode'[u] = "asleep"} = {u \in Threads : mode[u] = "asleep"}
      BY <1>0, <1>2
    <3>2. QED
      BY <1>0, <1>2, <3>1 DEF SleepersQueued
  <2>3. NoLostWakeup'
    <3>1. CASE mode[t] = "woken"
      <4>1. Cardinality(Woken') = Cardinality(Woken) - 1
        BY <1>0, <1>2, <3>1, WokenOneLess
      <4>2. QED
        BY <1>0, <1>2, <4>1 DEF NoLostWakeup
    <3>2. CASE mode[t] = "running"
      <4>1. Woken' = Woken
        BY <1>0, <1>2, <3>2 DEF Woken
      <4>2. QED
        BY <1>0, <1>2, <4>1 DEF NoLostWakeup
    <3>3. QED
      BY <3>1, <3>2
  <2>4. QED
    BY <1>0, <1>2, <2>1, <2>2, <2>3 DEF Inv
<1>3. QED
  BY <1>1, <1>2 DEF WaitOrTake

LEMMA VInv ==
  ASSUME Inv, NEW t \in Threads, V(t)
  PROVE  Inv'
<1>0. /\ TypeOK /\ SleepersQueued /\ NoLostWakeup
      /\ value \in Nat
      /\ queue \in Seq(Elements(Threads))
      /\ mode \in [Threads -> {"running", "asleep", "woken"}]
      /\ todo \in [Threads -> Seq({"P", "V"})]
      /\ Cardinality(Woken) \in Nat
  BY WokenIsFinite DEF Inv, TypeOK
<1>1. /\ value' = value + 1
      /\ todo' \in [Threads -> Seq({"P", "V"})]
  BY <1>0, HeadTailProperties DEF V, Calls, Return
<1>2. CASE /\ queue # <<>>
           /\ mode' = [mode EXCEPT ![Head(queue).item] = "woken"]
           /\ queue' = Tail(queue)
  <2> DEFINE u == Head(queue).item
  <2>1. /\ queue' \in Seq(Elements(Threads))
        /\ u \in Threads
        /\ u \in Items(queue)
        /\ Items(queue) = Items(queue') \cup {u}
        /\ Sorted(queue')
        /\ Distinct(queue')
        /\ u \notin Items(queue')
    BY <1>0, <1>2, RemoveProperties DEF SleepersQueued
  <2>2. mode[u] = "asleep"
    BY <1>0, <2>1 DEF SleepersQueued
  <2> HIDE DEF u
  <2>3. mode' = [mode EXCEPT ![u] = "woken"]
    BY <1>2 DEF u
  <2>4. TypeOK'
    BY <1>0, <1>1, <2>1, <2>3 DEF TypeOK
  <2>5. SleepersQueued'
    <3>1. {v \in Threads : mode'[v] = "asleep"}
            = {v \in Threads : mode[v] = "asleep"} \ {u}
      BY <1>0, <2>1, <2>3
    <3>2. QED
      BY <1>0, <2>1, <3>1 DEF SleepersQueued
  <2>6. NoLostWakeup'
    <3>1. Cardinality(Woken') = Cardinality(Woken) + 1
      BY <1>0, <2>1, <2>2, <2>3, WokenOneMore
    <3>2. value <= Cardinality(Woken)
      BY <1>0, <1>2 DEF NoLostWakeup
    <3>3. QED
      BY <1>0, <1>1, <3>1, <3>2 DEF NoLostWakeup
  <2>7. QED
    BY <2>1, <2>4, <2>5, <2>6 DEF Inv
<1>3. CASE queue = <<>> /\ UNCHANGED <<mode, queue>>
  <2>1. TypeOK' /\ SleepersQueued'
    BY <1>0, <1>1, <1>3 DEF TypeOK, SleepersQueued
  <2>2. NoLostWakeup'
    BY <1>3 DEF NoLostWakeup
  <2>3. QED
    BY <2>1, <2>2 DEF Inv
<1>4. QED
  BY <1>2, <1>3 DEF V

-------------------------------------------------------------------------------
\* A thread inside P's loop still has the P to finish.
WokenHasCall ==
  \A t \in Threads : mode[t] # "running" => todo[t] # <<>> /\ Head(todo[t]) = "P"

IInv == Inv /\ WokenHasCall

LEMMA NextInv == IInv /\ [Next]_vars => IInv'
<1> SUFFICES ASSUME IInv, [Next]_vars PROVE IInv'
  OBVIOUS
<1>0. /\ Inv /\ WokenHasCall
      /\ mode \in [Threads -> {"running", "asleep", "woken"}]
      /\ todo \in [Threads -> Seq({"P", "V"})]
  BY DEF IInv, Inv, TypeOK
<1>1. ASSUME NEW t \in Threads, mode[t] \in {"running", "woken"},
             todo[t] # <<>>, Head(todo[t]) = "P", WaitOrTake(t)
      PROVE  IInv'
  <2>1. Inv'
    BY <1>0, <1>1, WaitOrTakeInv
  <2>2. WokenHasCall'
    BY <1>0, <1>1 DEF WaitOrTake, Return, WokenHasCall
  <2>3. QED
    BY <2>1, <2>2 DEF IInv
<1>2. ASSUME NEW t \in Threads, P(t) PROVE IInv'
  BY <1>0, <1>1, <1>2 DEF P, Calls
<1>3. ASSUME NEW t \in Threads, ResumeInP(t) PROVE IInv'
  <2>1. mode[t] = "woken" /\ todo[t] # <<>> /\ Head(todo[t]) = "P"
    BY <1>0, <1>3 DEF ResumeInP, WokenHasCall
  <2>2. QED
    BY <1>1, <1>3, <2>1 DEF ResumeInP
<1>4. ASSUME NEW t \in Threads, V(t) PROVE IInv'
  <2>1. Inv'
    BY <1>0, <1>4, VInv
  <2>2. mode[t] = "running" /\ todo' = [todo EXCEPT ![t] = Tail(@)]
    BY <1>4 DEF V, Calls, Return
  <2>3. ASSUME queue = <<>>, UNCHANGED <<mode, queue>>
        PROVE  WokenHasCall'
    BY <1>0, <2>2, <2>3 DEF WokenHasCall
  <2>4. ASSUME queue # <<>>, mode' = [mode EXCEPT ![Head(queue).item] = "woken"]
        PROVE  WokenHasCall'
    <3>1. PICK u \in Threads : u = Head(queue).item /\ mode[u] = "asleep"
      <4>1. queue \in Seq(Elements(Threads)) /\ queue # <<>> /\ SleepersQueued
        BY <1>0, <2>4 DEF Inv, TypeOK
      <4>2. Head(queue).item \in Threads /\ Head(queue).item \in Items(queue)
        BY <4>1, RemoveProperties DEF Inv, SleepersQueued
      <4>3. QED
        BY <4>1, <4>2 DEF SleepersQueued
    <3>2. mode' = [mode EXCEPT ![u] = "woken"]
      BY <2>4, <3>1
    <3>3. u # t
      BY <2>2, <3>1
    <3>4. QED
      BY <1>0, <2>2, <3>1, <3>2, <3>3 DEF WokenHasCall
  <2>5. WokenHasCall'
    BY <1>4, <2>3, <2>4 DEF V
  <2>6. QED
    BY <2>1, <2>5 DEF IInv
<1>5. CASE UNCHANGED vars
  <2>1. UNCHANGED <<value, queue, mode, todo>>
    BY <1>5 DEF vars
  <2>2. UNCHANGED Woken
    BY <2>1 DEF Woken
  <2>3. QED
    BY <1>0, <2>1, <2>2
       DEF IInv, Inv, TypeOK, SleepersQueued, NoLostWakeup,
           WokenHasCall
<1>6. QED
  BY <1>2, <1>3, <1>4, <1>5 DEF Next, Step

\* What P and V keep true, all together.
THEOREM SemaphoreInvariant == Spec => []IInv
<1>1. Init => IInv
  BY InitInv DEF Init, IInv, WokenHasCall
<1>2. QED
  BY <1>1, NextInv, PTL DEF Spec

\* The semaphore's fields keep their types; in particular value never goes
\* below zero.
THEOREM SemaphoreTypeOK == Spec => []TypeOK
BY SemaphoreInvariant, PTL DEF IInv, Inv

\* The queue is exactly the set of sleepers.
THEOREM QueueIsExact == Spec => []SleepersQueued
BY SemaphoreInvariant, PTL DEF IInv, Inv

\* No V is lost: units beyond the woken threads mean nobody sleeps.
THEOREM NoWakeupIsLost == Spec => []NoLostWakeup
BY SemaphoreInvariant, PTL DEF IInv, Inv

\* The code's semaphore, seen through value and todo alone, is the atomic one.
THEOREM SemaphoreImplementsAtomic == Spec => ImplementsAtomic
<1>1. Init => Atomic!Init
  BY DEF Init, Atomic!Init
<1>2. IInv /\ [Next]_vars => [Atomic!Next]_(Atomic!vars)
  <2> SUFFICES ASSUME IInv, [Next]_vars PROVE [Atomic!Next]_(Atomic!vars)
    OBVIOUS
  <2>0. value \in Nat /\ WokenHasCall
    BY DEF IInv, Inv, TypeOK
  <2>1. ASSUME NEW t \in Threads, todo[t] # <<>>, Head(todo[t]) = "P", WaitOrTake(t)
        PROVE  [Atomic!Next]_(Atomic!vars)
    <3>1. CASE UNCHANGED <<value, todo>>
      BY <3>1 DEF Atomic!vars
    <3>2. CASE value # 0 /\ value' = value - 1 /\ Return(t)
      <4>1. Atomic!P(t)
        BY <2>0, <2>1, <3>2 DEF Atomic!P, Atomic!Call, Return
      <4>2. QED
        BY <4>1 DEF Atomic!Next
    <3>3. QED
      BY <2>1, <3>1, <3>2 DEF WaitOrTake
  <2>2. ASSUME NEW t \in Threads, P(t) PROVE [Atomic!Next]_(Atomic!vars)
    BY <2>1, <2>2 DEF P, Calls
  <2>3. ASSUME NEW t \in Threads, ResumeInP(t) PROVE [Atomic!Next]_(Atomic!vars)
    BY <2>0, <2>1, <2>3 DEF ResumeInP, WokenHasCall
  <2>4. ASSUME NEW t \in Threads, V(t) PROVE [Atomic!Next]_(Atomic!vars)
    <3>1. Atomic!V(t)
      BY <2>4 DEF V, Calls, Return, Atomic!V, Atomic!Call
    <3>2. QED
      BY <3>1 DEF Atomic!Next
  <2>5. CASE UNCHANGED vars
    BY <2>5 DEF vars, Atomic!vars
  <2>6. QED
    BY <2>2, <2>3, <2>4, <2>5 DEF Next, Step
<1>3. QED
  BY <1>1, <1>2, SemaphoreInvariant, PTL DEF Spec, ImplementsAtomic, Atomic!Spec
===============================================================================
