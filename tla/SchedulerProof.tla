---------------------------- MODULE SchedulerProof ----------------------------
(***************************************************************************)
(* Proofs about the dispatcher, for every set of threads and priorities,   *)
(* and about the linked lists its ready list is one of (module List), for  *)
(* every set of cells and of keys, however many items are inserted.        *)
(***************************************************************************)
EXTENDS Scheduler, List, ListProof, FiniteSetTheorems

\* The four invariants hold together: that a READY thread is on the list only
\* once keeps a dispatched one off it, and that finished threads are never
\* READY keeps the destructor away from the thread that gets the processor.
Inv == TypeOK /\ ReadyListExact /\ OneRunning /\ CarcassIsDead

\* A list of ready threads whose head has been taken off.
LEMMA HeadIsReady ==
  ASSUME TypeOK, ReadyListExact, readyList # <<>>
  PROVE  LET next == Head(readyList).item
         IN  /\ next \in Threads
             /\ status[next] = "READY"
             /\ Tail(readyList) \in Seq(Elements(Threads))
             /\ Distinct(Tail(readyList))
             /\ Items(Tail(readyList)) =
                  {t \in Threads : status[t] = "READY" /\ t # next}
<1>1. readyList \in Seq(Elements(Threads))
  BY DEF TypeOK
<1>2. /\ Tail(readyList) \in Seq(Elements(Threads))
      /\ Head(readyList).item \in Threads
      /\ Head(readyList).item \in Items(readyList)
      /\ Items(readyList) = Items(Tail(readyList)) \cup {Head(readyList).item}
      /\ Distinct(Tail(readyList))
      /\ Head(readyList).item \notin Items(Tail(readyList))
  BY <1>1, RemoveProperties DEF ReadyListExact
<1>3. Items(readyList) = {t \in Threads : status[t] = "READY"}
  BY DEF ReadyListExact
<1>4. QED
  BY <1>2, <1>3

\* ReadyToRun of a thread that is not on the list.
LEMMA ReadyToRunAdds ==
  ASSUME TypeOK, NEW list \in Seq(Elements(Threads)), NEW t \in Threads,
         Distinct(list), t \notin Items(list)
  PROVE  /\ ReadyToRun(list, t) \in Seq(Elements(Threads))
         /\ Distinct(ReadyToRun(list, t))
         /\ Items(ReadyToRun(list, t)) = Items(list) \cup {t}
<1>1. priority[t] \in Int
  BY DEF TypeOK
<1>2. QED
  BY <1>1, InsertShape, InsertItems, InsertDistinct DEF ReadyToRun

\* Scheduler::Run re-establishes the invariant when it is given a READY thread
\* that was taken off the list, nobody is RUNNING, and the carcass, if there
\* is one, is blocked for good.
LEMMA RunKeepsInv ==
  ASSUME TypeOK,
         NEW next \in Threads, NEW list \in Seq(Elements(Threads)),
         NEW st \in [Threads -> Statuses], NEW carcass \in Threads \cup {NoThread},
         st[next] = "READY",
         Distinct(list),
         Items(list) = {t \in Threads : st[t] = "READY" /\ t # next},
         \A t \in Threads : st[t] # "RUNNING",
         finished' \subseteq Threads,
         priority' \in [Threads -> Int],
         \A t \in finished' : st[t] \in {"BLOCKED", "DELETED"},
         carcass # NoThread => carcass \in finished' /\ st[carcass] = "BLOCKED",
         Run(next, list, st, carcass)
  PROVE  Inv'
<1>1. PICK reaps \in BOOLEAN :
         /\ reaps => carcass # NoThread
         /\ readyList' = list
         /\ currentThread' = next
         /\ fresh' = fresh \ {next}
         /\ threadToBeDestroyed' = IF reaps THEN NoThread ELSE carcass
         /\ status' = [t \in Threads |-> IF t = next THEN "RUNNING"
                                         ELSE IF reaps /\ t = carcass THEN "DELETED"
                                         ELSE st[t]]
  <2> DEFINE b == carcass # NoThread /\ next \notin fresh
  <2>1. b \in BOOLEAN
    OBVIOUS
  <2>2. QED
    BY <2>1 DEF Run
<1>2. carcass # next
  BY SchedulerAssumption
<1>3. TypeOK'
  BY <1>1 DEF TypeOK, Statuses
<1>4. ReadyListExact'
  <2>1. ASSUME NEW t \in Threads
        PROVE  status'[t] = "READY" <=> st[t] = "READY" /\ t # next
    <3>1. CASE reaps /\ t = carcass
      BY <1>1, <1>2, <3>1
    <3>2. CASE ~(reaps /\ t = carcass)
      BY <1>1, <3>2
    <3>3. QED
      BY <3>1, <3>2
  <2>2. {t \in Threads : status'[t] = "READY"}
          = {t \in Threads : st[t] = "READY" /\ t # next}
    BY <2>1
  <2>3. QED
    BY <1>1, <2>2 DEF ReadyListExact
<1>5. OneRunning'
  BY <1>1 DEF OneRunning
<1>6. CarcassIsDead'
  BY <1>1, <1>2, SchedulerAssumption DEF CarcassIsDead
<1>7. QED
  BY <1>3, <1>4, <1>5, <1>6 DEF Inv

\* Thread::Sleep, from any operation that puts the running thread to sleep.
LEMMA SleepKeepsInv ==
  ASSUME Inv, Running, NEW carcass \in Threads \cup {NoThread},
         finished' \subseteq Threads,
         priority' = priority,
         \A t \in finished' : t = currentThread \/ t \in finished,
         carcass # NoThread => /\ carcass \in finished'
                               /\ carcass = currentThread \/ status[carcass] = "BLOCKED",
         Sleep(carcass)
  PROVE  Inv'
<1> DEFINE st == [status EXCEPT ![currentThread] = "BLOCKED"]
<1>1. /\ TypeOK /\ ReadyListExact /\ OneRunning /\ CarcassIsDead
      /\ currentThread \in Threads
      /\ status[currentThread] = "RUNNING"
      /\ status \in [Threads -> Statuses]
  BY DEF Inv, Running, TypeOK
<1>2. /\ st \in [Threads -> Statuses]
      /\ \A t \in Threads : st[t] = IF t = currentThread THEN "BLOCKED" ELSE status[t]
  BY <1>1 DEF Statuses
<1>3. \A t \in Threads : st[t] # "RUNNING"
  BY <1>1, <1>2 DEF OneRunning
<1>4. \A t \in finished' : st[t] \in {"BLOCKED", "DELETED"}
  BY <1>1, <1>2 DEF CarcassIsDead
<1>5. carcass # NoThread => carcass \in finished' /\ st[carcass] = "BLOCKED"
  BY <1>2
<1>6. CASE /\ readyList # <<>>
           /\ Run(Head(readyList).item, Tail(readyList), st, carcass)
  <2> DEFINE next == Head(readyList).item
  <2>1. /\ next \in Threads
        /\ status[next] = "READY"
        /\ Tail(readyList) \in Seq(Elements(Threads))
        /\ Distinct(Tail(readyList))
        /\ Items(Tail(readyList)) = {t \in Threads : status[t] = "READY" /\ t # next}
    BY <1>1, <1>6, HeadIsReady
  <2>2. st[next] = "READY"
    BY <2>1, <1>1, <1>2
  <2>3. {t \in Threads : status[t] = "READY" /\ t # next}
          = {t \in Threads : st[t] = "READY" /\ t # next}
    <3>1. \A t \in Threads : status[t] = "READY" <=> st[t] = "READY"
      BY <1>1, <1>2
    <3>2. QED
      BY <3>1
  <2>4. priority' \in [Threads -> Int]
    BY <1>1 DEF TypeOK
  <2> HIDE DEF st, next
  <2>5. Run(next, Tail(readyList), st, carcass)
    BY <1>6 DEF next
  <2>6. QED
    BY <1>1, <1>2, <1>3, <1>4, <1>5, <2>1, <2>2, <2>3, <2>4, <2>5, RunKeepsInv
<1>7. CASE /\ readyList = <<>>
           /\ status' = st
           /\ threadToBeDestroyed' = carcass
           /\ UNCHANGED <<fresh, readyList, currentThread>>
  <2>1. TypeOK'
    BY <1>1, <1>2, <1>7 DEF TypeOK
  <2>2. ReadyListExact'
    <3>1. {t \in Threads : status[t] = "READY"} = {t \in Threads : st[t] = "READY"}
      <4>1. \A t \in Threads : status[t] = "READY" <=> st[t] = "READY"
        BY <1>1, <1>2
      <4>2. QED
        BY <4>1
    <3>2. QED
      BY <1>1, <1>7, <3>1 DEF ReadyListExact
  <2>3. OneRunning'
    BY <1>1, <1>2, <1>3, <1>7 DEF OneRunning
  <2>4. CarcassIsDead'
    BY <1>4, <1>5, <1>7 DEF CarcassIsDead
  <2>5. QED
    BY <2>1, <2>2, <2>3, <2>4 DEF Inv
<1>8. QED
  BY <1>6, <1>7 DEF Sleep

\* Marking a thread READY and putting it on the ready list, when it was
\* neither ready nor running nor finished.
LEMMA EnqueueKeepsInv ==
  ASSUME Inv, NEW t \in Threads,
         status[t] \in {"JUST_CREATED", "BLOCKED"}, t \notin finished,
         status' = [status EXCEPT ![t] = "READY"],
         readyList' = ReadyToRun(readyList, t),
         fresh' \subseteq Threads,
         UNCHANGED <<priority, finished, currentThread, threadToBeDestroyed>>
  PROVE  Inv'
<1>1. /\ TypeOK /\ ReadyListExact /\ OneRunning /\ CarcassIsDead
      /\ status \in [Threads -> Statuses]
      /\ readyList \in Seq(Elements(Threads))
  BY DEF Inv, TypeOK
<1>2. t \notin Items(readyList) /\ Distinct(readyList)
  BY <1>1 DEF ReadyListExact
<1>3. /\ readyList' \in Seq(Elements(Threads))
      /\ Distinct(readyList')
      /\ Items(readyList') = Items(readyList) \cup {t}
  BY <1>1, <1>2, ReadyToRunAdds
<1>4. \A u \in Threads : status'[u] = IF u = t THEN "READY" ELSE status[u]
  BY <1>1
<1>5. TypeOK'
  BY <1>1, <1>3 DEF TypeOK, Statuses
<1>6. ReadyListExact'
  <2>1. {u \in Threads : status'[u] = "READY"}
          = {u \in Threads : status[u] = "READY"} \cup {t}
    BY <1>4
  <2>2. QED
    BY <1>1, <1>3, <2>1 DEF ReadyListExact
<1>7. OneRunning'
  BY <1>1, <1>4 DEF OneRunning, TypeOK
<1>8. CarcassIsDead'
  BY <1>1, <1>4 DEF CarcassIsDead, TypeOK
<1>9. QED
  BY <1>5, <1>6, <1>7, <1>8 DEF Inv

LEMMA InitInv == Init => Inv
<1> SUFFICES ASSUME Init PROVE Inv
  OBVIOUS
<1> USE SchedulerAssumption DEF Init
<1>1. TypeOK
  BY EmptySeq DEF TypeOK, Statuses
<1>2. ReadyListExact
  <2>1. Items(<<>>) = {} /\ Distinct(<<>>)
    BY DEF Items, Distinct
  <2>2. {t \in Threads : status[t] = "READY"} = {}
    OBVIOUS
  <2>3. QED
    BY <2>1, <2>2 DEF ReadyListExact
<1>3. OneRunning
  BY DEF OneRunning
<1>4. CarcassIsDead
  BY DEF CarcassIsDead
<1>5. QED
  BY <1>1, <1>2, <1>3, <1>4 DEF Inv

LEMMA NextInv == Inv /\ [Next]_vars => Inv'
<1> SUFFICES ASSUME Inv, [Next]_vars PROVE Inv'
  OBVIOUS
<1>0. /\ TypeOK /\ ReadyListExact /\ OneRunning /\ CarcassIsDead
      /\ status \in [Threads -> Statuses]
      /\ priority \in [Threads -> Int]
      /\ fresh \subseteq Threads /\ finished \subseteq Threads
      /\ currentThread \in Threads
      /\ threadToBeDestroyed \in Threads \cup {NoThread}
  BY DEF Inv, TypeOK
<1>1. ASSUME NEW t \in Threads, NewThread(t)
      PROVE  Inv'
  <2>1. /\ status[t] = "NONE"
        /\ status' = [status EXCEPT ![t] = "JUST_CREATED"]
        /\ priority' = [priority EXCEPT ![t] = 0]
        /\ UNCHANGED <<fresh, finished, readyList, currentThread,
                       threadToBeDestroyed>>
    BY <1>1 DEF NewThread
  <2>2. \A u \in Threads : status'[u] = IF u = t THEN "JUST_CREATED" ELSE status[u]
    BY <1>0, <2>1
  <2>3. TypeOK'
    BY <1>0, <2>1 DEF TypeOK, Statuses
  <2>4. ReadyListExact'
    <3>1. {u \in Threads : status'[u] = "READY"} = {u \in Threads : status[u] = "READY"}
      BY <2>1, <2>2
    <3>2. QED
      BY <1>0, <2>1, <3>1 DEF ReadyListExact
  <2>5. OneRunning'
    BY <1>0, <2>1, <2>2 DEF OneRunning
  <2>6. CarcassIsDead'
    BY <1>0, <2>1, <2>2 DEF CarcassIsDead
  <2>7. QED
    BY <2>3, <2>4, <2>5, <2>6 DEF Inv
<1>2. ASSUME NEW t \in Threads, NEW p \in Priorities, setPriority(t, p)
      PROVE  Inv'
  <2>1. /\ priority' = [priority EXCEPT ![t] = -p]
        /\ UNCHANGED <<status, fresh, finished, readyList, currentThread,
                       threadToBeDestroyed>>
    BY <1>2 DEF setPriority
  <2>2. -p \in Int
    BY SchedulerAssumption
  <2>3. TypeOK'
    BY <1>0, <2>1, <2>2 DEF TypeOK
  <2>4. QED
    BY <1>0, <2>1, <2>3 DEF Inv, ReadyListExact, OneRunning, CarcassIsDead
<1>3. ASSUME NEW t \in Threads, Fork(t)
      PROVE  Inv'
  <2>1. t \notin finished
    BY <1>0, <1>3 DEF Fork, CarcassIsDead
  <2>2. fresh' \subseteq Threads
    BY <1>0, <1>3 DEF Fork
  <2>3. QED
    BY <1>3, <2>1, <2>2, EnqueueKeepsInv DEF Fork
<1>4. ASSUME NEW t \in Threads, Wakeup(t)
      PROVE  Inv'
  BY <1>0, <1>4, EnqueueKeepsInv DEF Wakeup
<1>5. ASSUME NEW t \in Threads, HandlerReady(t)
      PROVE  Inv'
  BY <1>0, <1>5, EnqueueKeepsInv DEF HandlerReady
<1>6. ASSUME Yield
      PROVE  Inv'
  <2> DEFINE next == Head(readyList).item
             st == [status EXCEPT ![currentThread] = "READY"]
             list == ReadyToRun(Tail(readyList), currentThread)
  <2>1. /\ status[currentThread] = "RUNNING"
        /\ readyList # <<>>
        /\ Run(next, list, st, threadToBeDestroyed)
        /\ priority' = priority /\ finished' = finished
    BY <1>6 DEF Yield, Running
  <2>2. /\ next \in Threads
        /\ status[next] = "READY"
        /\ Tail(readyList) \in Seq(Elements(Threads))
        /\ Distinct(Tail(readyList))
        /\ Items(Tail(readyList)) = {t \in Threads : status[t] = "READY" /\ t # next}
    BY <1>0, <2>1, HeadIsReady
  <2>3. currentThread \notin Items(Tail(readyList))
    BY <2>1, <2>2
  <2>4. /\ list \in Seq(Elements(Threads))
        /\ Distinct(list)
        /\ Items(list) = Items(Tail(readyList)) \cup {currentThread}
    BY <1>0, <2>2, <2>3, ReadyToRunAdds
  <2>5. /\ st \in [Threads -> Statuses]
        /\ \A t \in Threads : st[t] = IF t = currentThread THEN "READY" ELSE status[t]
    BY <1>0 DEF Statuses
  <2>6. Items(list) = {t \in Threads : st[t] = "READY" /\ t # next}
    <3>1. next # currentThread
      BY <2>1, <2>2
    <3>2. {t \in Threads : st[t] = "READY" /\ t # next}
            = {t \in Threads : status[t] = "READY" /\ t # next} \cup {currentThread}
      BY <1>0, <2>5, <3>1
    <3>3. QED
      BY <2>2, <2>4, <3>2
  <2>7. /\ \A t \in Threads : st[t] # "RUNNING"
        /\ \A t \in finished' : st[t] \in {"BLOCKED", "DELETED"}
        /\ threadToBeDestroyed # NoThread =>
             /\ threadToBeDestroyed \in finished'
             /\ st[threadToBeDestroyed] = "BLOCKED"
    BY <1>0, <2>1, <2>5 DEF OneRunning, CarcassIsDead
  <2>8. st[next] = "READY"
    BY <2>2, <2>5
  <2> HIDE DEF next, st, list
  <2>9. QED
    BY <1>0, <2>1, <2>2, <2>4, <2>5, <2>6, <2>7, <2>8, RunKeepsInv
<1>7. ASSUME Block
      PROVE  Inv'
  BY <1>0, <1>7, SleepKeepsInv DEF Block, CarcassIsDead
<1>8. ASSUME LeaveIdle
      PROVE  Inv'
  <2> DEFINE next == Head(readyList).item
  <2>1. /\ status[currentThread] # "RUNNING"
        /\ readyList # <<>>
        /\ Run(next, Tail(readyList), status, threadToBeDestroyed)
        /\ priority' = priority /\ finished' = finished
    BY <1>8 DEF LeaveIdle, Running
  <2>2. /\ next \in Threads
        /\ status[next] = "READY"
        /\ Tail(readyList) \in Seq(Elements(Threads))
        /\ Distinct(Tail(readyList))
        /\ Items(Tail(readyList)) = {t \in Threads : status[t] = "READY" /\ t # next}
    BY <1>0, <2>1, HeadIsReady
  <2>3. \A t \in Threads : status[t] # "RUNNING"
    BY <1>0, <2>1 DEF OneRunning
  <2>4. /\ \A t \in finished' : status[t] \in {"BLOCKED", "DELETED"}
        /\ threadToBeDestroyed # NoThread =>
             /\ threadToBeDestroyed \in finished'
             /\ status[threadToBeDestroyed] = "BLOCKED"
    BY <1>0, <2>1 DEF CarcassIsDead
  <2> HIDE DEF next
  <2>5. QED
    BY <1>0, <2>1, <2>2, <2>3, <2>4, RunKeepsInv
<1>9. ASSUME Finish
      PROVE  Inv'
  <2>1. /\ finished' = finished \cup {currentThread}
        /\ Sleep(currentThread)
        /\ priority' = priority
        /\ Running
    BY <1>9 DEF Finish
  <2>2. finished' \subseteq Threads
    BY <1>0, <2>1
  <2>3. QED
    BY <1>0, <2>1, <2>2, SleepKeepsInv
<1>10. ASSUME UNCHANGED vars
       PROVE  Inv'
  BY <1>10 DEF vars, Inv, TypeOK, ReadyListExact, OneRunning, CarcassIsDead
<1>11. QED
  BY <1>1, <1>2, <1>3, <1>4, <1>5, <1>6, <1>7, <1>8, <1>9, <1>10 DEF Next

\* Spec keeps the invariant.
THEOREM SchedulerInvariant == Spec => []Inv
<1>1. Init => Inv
  BY InitInv
<1>2. Inv /\ [Next]_vars => Inv'
  BY NextInv
<1>3. QED
  BY <1>1, <1>2, PTL DEF Spec

\* Every variable of the dispatcher has its type.
THEOREM SchedulerTypeOK == Spec => []TypeOK
<1>1. Inv => TypeOK
  BY DEF Inv
<1>2. QED
  BY <1>1, SchedulerInvariant, PTL

\* The ready list always holds exactly the READY threads, each once.
THEOREM ReadyListIsExact == Spec => []ReadyListExact
<1>1. Inv => ReadyListExact
  BY DEF Inv
<1>2. QED
  BY <1>1, SchedulerInvariant, PTL

\* The processor is never given to two threads, nor to a deleted one.
THEOREM OneThreadRuns == Spec => []OneRunning
<1>1. Inv => OneRunning
  BY DEF Inv
<1>2. QED
  BY <1>1, SchedulerInvariant, PTL

\* Only a finished thread that nothing can wake is ever destroyed.
THEOREM OnlyDeadThreadsDestroyed == Spec => []CarcassIsDead
<1>1. Inv => CarcassIsDead
  BY DEF Inv
<1>2. QED
  BY <1>1, SchedulerInvariant, PTL

-------------------------------------------------------------------------------
(* The order of the ready list. *)

\* What an element was inserted with is still the priority of its thread: no
\* operation changes the priority of a thread that is on the list.
KeysCurrent(list, prio) ==
  \A n \in DOMAIN list : list[n].key = prio[list[n].item]

\* OrderedByPriority compares priorities, the list compares the keys it holds.
OrderInv == /\ Inv
            /\ Sorted(readyList)
            /\ KeysCurrent(readyList, priority)

\* A list loses its first element.
LEMMA TailOrdered ==
  ASSUME NEW list \in Seq(Elements(Threads)), NEW prio,
         list # <<>>, Sorted(list), KeysCurrent(list, prio)
  PROVE  Sorted(Tail(list)) /\ KeysCurrent(Tail(list), prio)
<1>1. Sorted(Tail(list))
  BY RemoveProperties
<1>2. /\ DOMAIN list = 1 .. Len(list)
      /\ Len(list) \in Nat \ {0}
      /\ DOMAIN Tail(list) = 1 .. Len(list) - 1
      /\ \A n \in 1 .. Len(list) - 1 : Tail(list)[n] = list[n + 1]
  BY EmptySeq
<1>3. ASSUME NEW n \in DOMAIN Tail(list)
      PROVE  Tail(list)[n].key = prio[Tail(list)[n].item]
  <2>1. n + 1 \in DOMAIN list /\ Tail(list)[n] = list[n + 1]
    BY <1>2
  <2>2. QED
    BY <2>1 DEF KeysCurrent
<1>4. QED
  BY <1>1, <1>3 DEF KeysCurrent

\* A thread is put on the list.
LEMMA ReadyToRunOrdered ==
  ASSUME TypeOK, NEW list \in Seq(Elements(Threads)), NEW t \in Threads,
         Sorted(list), KeysCurrent(list, priority)
  PROVE  /\ Sorted(ReadyToRun(list, t))
         /\ KeysCurrent(ReadyToRun(list, t), priority)
<1> DEFINE new == ReadyToRun(list, t)
           p == Place(list, priority[t])
<1>1. priority[t] \in Int
  BY DEF TypeOK
<1>2. Sorted(new)
  BY <1>1, InsertSorted DEF ReadyToRun
<1>3. /\ new \in Seq(Elements(Threads))
      /\ Len(new) = Len(list) + 1
      /\ \A n \in 1 .. Len(list) + 1 :
           new[n] = IF n < p THEN list[n]
                    ELSE IF n = p THEN Element(t, priority[t])
                    ELSE list[n - 1]
      /\ p \in 1 .. Len(list) + 1
  <2>1. new = SortedInsert(list, t, priority[t])
    BY DEF ReadyToRun
  <2>2. p \in 1 .. Len(list) + 1
    BY <1>1, PlaceProperties
  <2> HIDE DEF new
  <2>3. QED
    BY <1>1, <2>1, <2>2, InsertShape
<1>4. /\ DOMAIN list = 1 .. Len(list)
      /\ Len(list) \in Nat
      /\ DOMAIN new = 1 .. Len(list) + 1
  BY <1>3, ElementTypes
<1> HIDE DEF new, p
<1>5. ASSUME NEW n \in DOMAIN new
      PROVE  new[n].key = priority[new[n].item]
  <2>1. CASE n < p
    <3>1. n \in DOMAIN list /\ new[n] = list[n]
      BY <1>3, <1>4, <2>1
    <3>2. QED
      BY <3>1 DEF KeysCurrent
  <2>2. CASE n = p
    <3>1. new[n] = Element(t, priority[t])
      BY <1>3, <1>4, <2>2
    <3>2. QED
      BY <3>1 DEF Element
  <2>3. CASE n > p
    <3>1. n - 1 \in DOMAIN list /\ new[n] = list[n - 1]
      BY <1>3, <1>4, <2>3
    <3>2. QED
      BY <3>1 DEF KeysCurrent
  <2>4. QED
    BY <1>3, <1>4, <2>1, <2>2, <2>3
<1>6. QED
  BY <1>2, <1>5 DEF KeysCurrent, new

\* What Sleep does to the list.
LEMMA SleepMovesList ==
  ASSUME NEW carcass, Sleep(carcass)
  PROVE  \/ readyList' = readyList
         \/ readyList # <<>> /\ readyList' = Tail(readyList)
BY DEF Sleep, Run

\* Every step leaves the list alone, takes its head off, adds a thread, or
\* (Yield) does both; priorities change only off the list.
LEMMA NextMovesList ==
  ASSUME Inv, [Next]_vars
  PROVE  \/ /\ readyList' = readyList
            /\ \A t \in Items(readyList) : priority'[t] = priority[t]
         \/ /\ priority' = priority
            /\ \/ readyList # <<>> /\ readyList' = Tail(readyList)
               \/ \E t \in Threads : readyList' = ReadyToRun(readyList, t)
               \/ /\ readyList # <<>>
                  /\ readyList' = ReadyToRun(Tail(readyList), currentThread)
<1>1. /\ currentThread \in Threads
      /\ priority \in [Threads -> Int]
      /\ Items(readyList) = {t \in Threads : status[t] = "READY"}
  BY DEF Inv, TypeOK, ReadyListExact
<1>2. ASSUME NEW t \in Threads, NewThread(t)
      PROVE  /\ readyList' = readyList
             /\ \A u \in Items(readyList) : priority'[u] = priority[u]
  <2>1. t \notin Items(readyList)
    BY <1>1, <1>2 DEF NewThread
  <2>2. QED
    BY <1>1, <1>2, <2>1 DEF NewThread
<1>3. ASSUME NEW t \in Threads, NEW p \in Priorities, setPriority(t, p)
      PROVE  /\ readyList' = readyList
             /\ \A u \in Items(readyList) : priority'[u] = priority[u]
  <2>1. t \notin Items(readyList)
    BY <1>1, <1>3 DEF setPriority, Running
  <2>2. QED
    BY <1>1, <1>3, <2>1 DEF setPriority
<1>4. ASSUME NEW t \in Threads, Fork(t) \/ Wakeup(t) \/ HandlerReady(t)
      PROVE  priority' = priority /\ readyList' = ReadyToRun(readyList, t)
  BY <1>4 DEF Fork, Wakeup, HandlerReady
<1>5. ASSUME Yield
      PROVE  /\ priority' = priority
             /\ readyList # <<>>
             /\ readyList' = ReadyToRun(Tail(readyList), currentThread)
  BY <1>5 DEF Yield, Run
<1>6. ASSUME Block \/ Finish
      PROVE  /\ priority' = priority
             /\ \/ readyList' = readyList
                \/ readyList # <<>> /\ readyList' = Tail(readyList)
  BY <1>6, SleepMovesList DEF Block, Finish
<1>7. ASSUME LeaveIdle
      PROVE  /\ priority' = priority
             /\ readyList # <<>> /\ readyList' = Tail(readyList)
  BY <1>7 DEF LeaveIdle, Run
<1>8. CASE UNCHANGED vars
  BY <1>8 DEF vars
<1>9. QED
  BY <1>2, <1>3, <1>4, <1>5, <1>6, <1>7, <1>8 DEF Next

LEMMA OrderStep ==
  ASSUME OrderInv, [Next]_vars
  PROVE  OrderInv'
<1>1. /\ Inv /\ TypeOK /\ readyList \in Seq(Elements(Threads))
      /\ currentThread \in Threads
      /\ Sorted(readyList) /\ KeysCurrent(readyList, priority)
  BY DEF OrderInv, Inv, TypeOK
<1>2. Inv'
  BY <1>1, NextInv
<1>3. ASSUME readyList # <<>>
      PROVE  /\ Tail(readyList) \in Seq(Elements(Threads))
             /\ Sorted(Tail(readyList)) /\ KeysCurrent(Tail(readyList), priority)
  BY <1>1, <1>3, TailOrdered, RemoveProperties
<1>4. CASE /\ readyList' = readyList
           /\ \A t \in Items(readyList) : priority'[t] = priority[t]
  <2>1. KeysCurrent(readyList, priority')
    <3>1. ASSUME NEW n \in DOMAIN readyList
          PROVE  readyList[n].key = priority'[readyList[n].item]
      <4>1. readyList[n].item \in Items(readyList)
        BY DEF Items
      <4>2. QED
        BY <1>1, <1>4, <4>1 DEF KeysCurrent
    <3>2. QED
      BY <3>1 DEF KeysCurrent
  <2>2. QED
    BY <1>1, <1>2, <1>4, <2>1 DEF OrderInv
<1>5. CASE /\ priority' = priority
           /\ readyList # <<>> /\ readyList' = Tail(readyList)
  BY <1>2, <1>3, <1>5 DEF OrderInv
<1>6. ASSUME NEW t \in Threads,
             priority' = priority, readyList' = ReadyToRun(readyList, t)
      PROVE  OrderInv'
  BY <1>1, <1>2, <1>6, ReadyToRunOrdered DEF OrderInv
<1>7. CASE /\ priority' = priority
           /\ readyList # <<>>
           /\ readyList' = ReadyToRun(Tail(readyList), currentThread)
  BY <1>1, <1>2, <1>3, <1>7, ReadyToRunOrdered DEF OrderInv
<1>8. QED
  BY <1>1, <1>4, <1>5, <1>6, <1>7, NextMovesList

\* The dispatcher takes the first thread of the list, and that is one of the
\* highest priority: setPriority never touches a thread that waits its turn.
THEOREM ReadyListIsOrdered == Spec => []OrderedByPriority
<1>1. Init => OrderInv
  <2> SUFFICES ASSUME Init PROVE OrderInv
    OBVIOUS
  <2>1. readyList = <<>>
    BY DEF Init
  <2>2. Sorted(readyList) /\ KeysCurrent(readyList, priority)
    BY <2>1 DEF Sorted, KeysCurrent
  <2>3. QED
    BY <2>2, InitInv DEF OrderInv
<1>2. OrderInv /\ [Next]_vars => OrderInv'
  BY OrderStep
<1>3. OrderInv => OrderedByPriority
  <2> SUFFICES ASSUME OrderInv,
                      NEW n \in DOMAIN readyList, NEW m \in DOMAIN readyList, n < m
               PROVE  priority[readyList[n].item] <= priority[readyList[m].item]
    BY DEF OrderedByPriority
  <2>1. readyList[n].key <= readyList[m].key
    BY DEF OrderInv, Sorted
  <2>2. QED
    BY <2>1 DEF OrderInv, KeysCurrent
<1>4. QED
  BY <1>1, <1>2, <1>3, PTL DEF Spec

-------------------------------------------------------------------------------
(* The dispatcher implements Cpu. *)

\* The phase of a thread's life that its status stands for.
LifeOf(st, fin, t) ==
  CASE st[t] \in {"NONE", "JUST_CREATED"} -> "unborn"
    [] st[t] \in {"RUNNING", "READY"} -> "runnable"
    [] st[t] = "BLOCKED" /\ t \notin fin -> "blocked"
    [] OTHER -> "done"

LEMMA LifeCases ==
  ASSUME NEW st, NEW fin, NEW t
  PROVE  /\ st[t] \in {"NONE", "JUST_CREATED"} => LifeOf(st, fin, t) = "unborn"
         /\ st[t] \in {"RUNNING", "READY"} => LifeOf(st, fin, t) = "runnable"
         /\ st[t] = "BLOCKED" /\ t \notin fin => LifeOf(st, fin, t) = "blocked"
         /\ st[t] = "BLOCKED" /\ t \in fin => LifeOf(st, fin, t) = "done"
         /\ st[t] = "DELETED" => LifeOf(st, fin, t) = "done"
BY DEF LifeOf

LEMMA LifeDepends ==
  ASSUME NEW st1, NEW st2, NEW fin1, NEW fin2, NEW t,
         st1[t] = st2[t], t \in fin1 <=> t \in fin2
  PROVE  LifeOf(st1, fin1, t) = LifeOf(st2, fin2, t)
BY DEF LifeOf

\* Scheduler::Run changes the status of two threads and the life of none.
LEMMA RunKeepsLives ==
  ASSUME NEW next \in Threads, NEW list, NEW carcass, NEW st \in [Threads -> Statuses],
         st[next] = "READY",
         carcass # NoThread => carcass \in finished' /\ st[carcass] = "BLOCKED",
         Run(next, list, st, carcass)
  PROVE  \A t \in Threads : LifeOf(status', finished', t)
                              = LifeOf(st, finished', t)
<1> SUFFICES ASSUME NEW t \in Threads
             PROVE  LifeOf(status', finished', t) = LifeOf(st, finished', t)
  OBVIOUS
<1> DEFINE reaps == carcass # NoThread /\ next \notin fresh
<1>1. status'[t] = IF t = next THEN "RUNNING"
                   ELSE IF reaps /\ t = carcass THEN "DELETED"
                   ELSE st[t]
  BY DEF Run
<1>2. CASE t = next
  BY <1>1, <1>2, LifeCases
<1>3. CASE t # next /\ reaps /\ t = carcass
  <2>1. status'[t] = "DELETED" /\ st[t] = "BLOCKED" /\ t \in finished'
    BY <1>1, <1>3
  <2>2. QED
    BY <2>1, LifeCases
<1>4. CASE t # next /\ ~(reaps /\ t = carcass)
  BY <1>1, <1>4, LifeDepends
<1>5. QED
  BY <1>2, <1>3, <1>4

\* Sleep changes the life of the thread that sleeps only.
LEMMA SleepEndsRunnable ==
  ASSUME Inv, Running, NEW carcass \in Threads \cup {NoThread},
         finished \subseteq finished',
         carcass # NoThread => /\ carcass \in finished'
                               /\ carcass = currentThread \/ status[carcass] = "BLOCKED",
         Sleep(carcass)
  PROVE  \A t \in Threads :
           LifeOf(status', finished', t) =
             IF t = currentThread THEN IF t \in finished' THEN "done" ELSE "blocked"
             ELSE LifeOf(status, finished', t)
<1> DEFINE st == [status EXCEPT ![currentThread] = "BLOCKED"]
<1>1. /\ TypeOK /\ ReadyListExact
      /\ status \in [Threads -> Statuses]
      /\ currentThread \in Threads /\ status[currentThread] = "RUNNING"
  BY DEF Inv, TypeOK, Running
<1>2. /\ st \in [Threads -> Statuses]
      /\ \A t \in Threads : st[t] = IF t = currentThread THEN "BLOCKED" ELSE status[t]
  BY <1>1 DEF Statuses
<1>3. \A t \in Threads :
        LifeOf(st, finished', t) =
          IF t = currentThread THEN IF t \in finished' THEN "done" ELSE "blocked"
          ELSE LifeOf(status, finished', t)
  <2> HIDE DEF st
  <2>1. ASSUME NEW t \in Threads, t = currentThread
        PROVE  LifeOf(st, finished', t) = IF t \in finished' THEN "done" ELSE "blocked"
    BY <1>2, <2>1, LifeCases
  <2>2. ASSUME NEW t \in Threads, t # currentThread
        PROVE  LifeOf(st, finished', t) = LifeOf(status, finished', t)
    BY <1>2, <2>2, LifeDepends
  <2>3. QED
    BY <2>1, <2>2
<1>4. CASE /\ readyList # <<>>
           /\ Run(Head(readyList).item, Tail(readyList), st, carcass)
  <2>1. /\ Head(readyList).item \in Threads
        /\ status[Head(readyList).item] = "READY"
    BY <1>1, <1>4, HeadIsReady
  <2>2. st[Head(readyList).item] = "READY"
    BY <1>1, <1>2, <2>1
  <2>3. carcass # NoThread => carcass \in finished' /\ st[carcass] = "BLOCKED"
    BY <1>2
  <2> HIDE DEF st
  <2>4. \A t \in Threads : LifeOf(status', finished', t) = LifeOf(st, finished', t)
    BY <1>2, <1>4, <2>1, <2>2, <2>3, RunKeepsLives
  <2>5. QED
    BY <1>2, <1>3, <2>4
<1>5. CASE readyList = <<>> /\ status' = st
  BY <1>5, <1>3
<1>6. QED
  BY <1>4, <1>5 DEF Sleep

\* Every step is a step of Cpu or changes nobody's life.
LEMMA StepOfCpu ==
  ASSUME Inv, [Next]_vars
  PROVE  \/ Life' = Life
         \/ \E t \in Threads :
              \/ Life[t] = "unborn" /\ Life' = [Life EXCEPT ![t] = "runnable"]
              \/ Life[t] = "runnable" /\ Life' = [Life EXCEPT ![t] = "blocked"]
              \/ Life[t] = "blocked" /\ Life' = [Life EXCEPT ![t] = "runnable"]
              \/ Life[t] = "runnable" /\ Life' = [Life EXCEPT ![t] = "done"]
<1>1. /\ TypeOK /\ ReadyListExact /\ OneRunning /\ CarcassIsDead
      /\ status \in [Threads -> Statuses]
      /\ finished \subseteq Threads
      /\ currentThread \in Threads
      /\ threadToBeDestroyed \in Threads \cup {NoThread}
  BY DEF Inv, TypeOK
<1>2. \A t \in Threads : /\ Life[t] = LifeOf(status, finished, t)
                         /\ Life'[t] = LifeOf(status', finished', t)
  BY DEF Life, LifeOf
<1>3. ASSUME NEW t \in Threads, NEW to,
             Life'[t] = to, \A u \in Threads \ {t} : Life'[u] = Life[u]
      PROVE  Life' = [Life EXCEPT ![t] = to]
  BY <1>3 DEF Life
<1>4. ASSUME \A t \in Threads : Life'[t] = Life[t]
      PROVE  Life' = Life
  BY <1>4 DEF Life
<1>5. ASSUME NEW t \in Threads, NewThread(t)
      PROVE  Life' = Life
  <2>1. /\ finished' = finished
        /\ \A u \in Threads : status'[u] = IF u = t THEN "JUST_CREATED" ELSE status[u]
        /\ status[t] = "NONE"
    BY <1>1, <1>5 DEF NewThread
  <2>2. \A u \in Threads : Life'[u] = Life[u]
    BY <1>2, <2>1, LifeCases, LifeDepends
  <2>3. QED
    BY <1>4, <2>2
<1>6. ASSUME NEW t \in Threads, NEW p \in Priorities, setPriority(t, p)
      PROVE  Life' = Life
  BY <1>6 DEF setPriority, Life
<1>7. ASSUME NEW t \in Threads, status[t] \in {"JUST_CREATED", "BLOCKED"}, t \notin finished,
             status' = [status EXCEPT ![t] = "READY"], finished' = finished
      PROVE  /\ Life[t] = "unborn" \/ Life[t] = "blocked"
             /\ Life' = [Life EXCEPT ![t] = "runnable"]
  <2>1. \A u \in Threads : status'[u] = IF u = t THEN "READY" ELSE status[u]
    BY <1>1, <1>7
  <2>2. Life[t] = "unborn" \/ Life[t] = "blocked"
    BY <1>2, <1>7, LifeCases
  <2>3. Life'[t] = "runnable"
    BY <1>2, <2>1, LifeCases
  <2>4. ASSUME NEW u \in Threads \ {t}
        PROVE  Life'[u] = Life[u]
    <3>1. /\ status'[u] = status[u]
          /\ u \in finished' <=> u \in finished
      BY <1>7, <2>1
    <3>2. QED
      BY <1>2, <3>1, LifeDepends
  <2>5. QED
    BY <1>3, <2>2, <2>3, <2>4
<1>8. ASSUME NEW t \in Threads, Fork(t)
      PROVE  /\ Life[t] = "unborn" \/ Life[t] = "blocked"
             /\ Life' = [Life EXCEPT ![t] = "runnable"]
  <2>1. t \notin finished
    BY <1>1, <1>8 DEF Fork, CarcassIsDead
  <2>2. QED
    BY <1>7, <1>8, <2>1 DEF Fork
<1>9. ASSUME NEW t \in Threads, Wakeup(t) \/ HandlerReady(t)
       PROVE  /\ Life[t] = "unborn" \/ Life[t] = "blocked"
              /\ Life' = [Life EXCEPT ![t] = "runnable"]
  BY <1>7, <1>9 DEF Wakeup, HandlerReady
<1>10. ASSUME NEW next \in Threads, NEW list, NEW st \in [Threads -> Statuses],
              status[next] = "READY", st[next] = "READY",
              \A t \in Threads : \/ st[t] = status[t]
                                 \/ st[t] = "READY" /\ status[t] = "RUNNING",
              finished' = finished,
              Run(next, list, st, threadToBeDestroyed)
       PROVE  Life' = Life
  <2>1. threadToBeDestroyed # NoThread => /\ threadToBeDestroyed \in finished'
                                          /\ st[threadToBeDestroyed] = "BLOCKED"
    BY <1>1, <1>10 DEF CarcassIsDead
  <2>2. \A t \in Threads : LifeOf(status', finished', t) = LifeOf(st, finished', t)
    BY <1>10, <2>1, RunKeepsLives
  <2>3. \A t \in Threads : LifeOf(st, finished, t) = LifeOf(status, finished, t)
    BY <1>10, LifeCases, LifeDepends
  <2>4. QED
    BY <1>2, <1>4, <1>10, <2>2, <2>3
<1>11. ASSUME Yield
       PROVE  Life' = Life
  <2> DEFINE st == [status EXCEPT ![currentThread] = "READY"]
  <2>1. /\ status[currentThread] = "RUNNING"
        /\ readyList # <<>>
        /\ Head(readyList).item \in Threads
        /\ status[Head(readyList).item] = "READY"
    BY <1>1, <1>11, HeadIsReady DEF Yield, Running
  <2>2. /\ st \in [Threads -> Statuses]
        /\ \A t \in Threads : st[t] = IF t = currentThread THEN "READY" ELSE status[t]
    BY <1>1 DEF Statuses
  <2>3. Run(Head(readyList).item, ReadyToRun(Tail(readyList), currentThread), st,
            threadToBeDestroyed)
    BY <1>11 DEF Yield
  <2>4. finished' = finished
    BY <1>11 DEF Yield
  <2> HIDE DEF st
  <2>5. QED
    BY <1>10, <2>1, <2>2, <2>3, <2>4
<1>12. ASSUME LeaveIdle
       PROVE  Life' = Life
  <2>1. /\ readyList # <<>>
        /\ Head(readyList).item \in Threads
        /\ status[Head(readyList).item] = "READY"
    BY <1>1, <1>12, HeadIsReady DEF LeaveIdle
  <2>2. QED
    BY <1>1, <1>10, <1>12, <2>1 DEF LeaveIdle
<1>13. ASSUME Block
       PROVE  /\ Life[currentThread] = "runnable"
              /\ Life' = [Life EXCEPT ![currentThread] = "blocked"]
  <2>1. /\ Running /\ Sleep(threadToBeDestroyed) /\ finished' = finished
        /\ status[currentThread] = "RUNNING" /\ currentThread \notin finished
    BY <1>1, <1>13 DEF Block, Running, CarcassIsDead
  <2>2. \A t \in Threads :
          LifeOf(status', finished', t) =
            IF t = currentThread THEN IF t \in finished' THEN "done" ELSE "blocked"
            ELSE LifeOf(status, finished', t)
    BY <1>1, <2>1, SleepEndsRunnable DEF CarcassIsDead
  <2>3. Life[currentThread] = "runnable"
    BY <1>1, <1>2, <2>1, LifeCases
  <2>4. Life'[currentThread] = "blocked"
    BY <1>1, <1>2, <2>1, <2>2, LifeCases
  <2>5. \A u \in Threads \ {currentThread} : Life'[u] = Life[u]
    BY <1>2, <2>1, <2>2
  <2>6. QED
    BY <1>1, <1>3, <2>3, <2>4, <2>5
<1>14. ASSUME Finish
       PROVE  /\ Life[currentThread] = "runnable"
              /\ Life' = [Life EXCEPT ![currentThread] = "done"]
  <2>1. /\ Running /\ Sleep(currentThread)
        /\ finished' = finished \cup {currentThread}
        /\ status[currentThread] = "RUNNING" /\ currentThread \notin finished
    BY <1>1, <1>14 DEF Finish, Running, CarcassIsDead
  <2>2. \A t \in Threads :
          LifeOf(status', finished', t) =
            IF t = currentThread THEN IF t \in finished' THEN "done" ELSE "blocked"
            ELSE LifeOf(status, finished', t)
    BY <1>1, <2>1, SleepEndsRunnable
  <2>3. Life[currentThread] = "runnable"
    BY <1>1, <1>2, <2>1, LifeCases
  <2>4. Life'[currentThread] = "done"
    BY <1>1, <1>2, <2>1, <2>2, LifeCases
  <2>5. ASSUME NEW u \in Threads \ {currentThread}
        PROVE  Life'[u] = Life[u]
    <3>1. u \in finished' <=> u \in finished
      BY <2>1
    <3>2. QED
      BY <1>2, <2>2, <3>1, LifeDepends
  <2>6. QED
    BY <1>1, <1>3, <2>3, <2>4, <2>5
<1>15. CASE UNCHANGED vars
  BY <1>15 DEF vars, Life
<1>16. CASE Next
  BY <1>1, <1>5, <1>6, <1>8, <1>9, <1>11, <1>12, <1>13, <1>14, <1>16 DEF Next
<1>17. QED
  BY <1>15, <1>16

\* The dispatcher implements the processor that Semaphore, Lock and Condition
\* assume: no thread is lost, none runs while it has to wait, none runs again
\* after it finished.
THEOREM SchedulerImplementsCpu == Spec => ImplementsCpu
<1>1. Init => CpuView!Init
  <2> SUFFICES ASSUME Init PROVE CpuView!Init
    OBVIOUS
  <2>1. \A t \in Threads : LifeOf(status, finished, t) \in {"unborn", "runnable"}
    BY DEF Init, LifeOf
  <2>2. Life \in [Threads -> {"unborn", "runnable"}]
    BY <2>1 DEF Life, LifeOf
  <2>3. QED
    BY <2>2 DEF CpuView!Init
<1>2. Inv /\ [Next]_vars => [CpuView!Next]_Life
  <2> SUFFICES ASSUME Inv, [Next]_vars PROVE CpuView!Next \/ Life' = Life
    OBVIOUS
  <2>1. ASSUME NEW t \in Threads, NEW from, NEW to,
               Life[t] = from, Life' = [Life EXCEPT ![t] = to]
        PROVE  CpuView!Become(t, from, to)
    BY <2>1 DEF CpuView!Become
  <2>2. QED
    BY <2>1, StepOfCpu DEF CpuView!Next
<1>3. QED
  BY <1>1, <1>2, SchedulerInvariant, PTL DEF Spec, ImplementsCpu, CpuView!Spec

-------------------------------------------------------------------------------
\* The lists themselves: the pointers of threads/list.cc compute the operations
\* of a sequence.  The invariant is that the heap holds a chain: a sequence of
\* distinct cells, all that are allocated, each of which points to the one
\* after it.  An insertion puts a cell between two neighbours of the chain, and
\* Remove takes the first one off.

Node == [item : Nat, key : Int, next : Nat]

\* The cell after the i-th of a chain, and the pointers to its two ends.
Successor(chain, i) == IF i < Len(chain) THEN chain[i + 1] ELSE NULL
FirstOf(chain) == IF chain = <<>> THEN NULL ELSE chain[1]
LastOf(chain) == IF chain = <<>> THEN NULL ELSE chain[Len(chain)]

\* The heap holds this chain, from f to l, and nothing else.
Linked(chain, f, l, cells) ==
  /\ cells \in [DOMAIN cells -> Node]
  /\ DOMAIN cells \subseteq Cells
  /\ chain \in Seq(DOMAIN cells)
  /\ \A c \in DOMAIN cells : \E i \in 1 .. Len(chain) : chain[i] = c
  /\ \A i, j \in 1 .. Len(chain) : i # j => chain[i] # chain[j]
  /\ \A i \in 1 .. Len(chain) : cells[chain[i]].next = Successor(chain, i)
  /\ f = FirstOf(chain)
  /\ l = LastOf(chain)

\* What the other lemmas use of a chain.
LEMMA ChainCells ==
  ASSUME NEW chain, NEW f, NEW l, NEW cells, Linked(chain, f, l, cells)
  PROVE  /\ Len(chain) \in Nat
         /\ DOMAIN chain = 1 .. Len(chain)
         /\ \A i \in 1 .. Len(chain) : /\ chain[i] \in DOMAIN cells
                                       /\ chain[i] \in Cells
                                       /\ chain[i] \in Nat \ {0}
                                       /\ cells[chain[i]] \in Node
         /\ chain # <<>> <=> Len(chain) # 0
<1>1. /\ chain \in Seq(DOMAIN cells)
      /\ DOMAIN cells \subseteq Cells
      /\ cells \in [DOMAIN cells -> Node]
  BY DEF Linked
<1>2. Len(chain) \in Nat /\ DOMAIN chain = 1 .. Len(chain)
  BY <1>1, LenProperties
<1>3. \A i \in 1 .. Len(chain) : chain[i] \in DOMAIN cells
  BY <1>1, ElementOfSeq
<1>4. chain # <<>> <=> Len(chain) # 0
  BY <1>1, EmptySeq
<1>5. QED
  BY <1>1, <1>2, <1>3, <1>4, ListAssumption

\* A chain is no longer than there are cells: the walk of Reached gets to its
\* end.
LEMMA ChainFits ==
  ASSUME NEW chain, NEW f, NEW l, NEW cells, Linked(chain, f, l, cells)
  PROVE  Cardinality(Cells) \in Nat /\ Len(chain) <= Cardinality(Cells)
<1>1. /\ Len(chain) \in Nat
      /\ chain \in [1 .. Len(chain) -> Cells]
      /\ \A i, j \in 1 .. Len(chain) : i # j => chain[i] # chain[j]
  <2>1. chain \in Seq(DOMAIN cells) /\ DOMAIN cells \subseteq Cells
    BY DEF Linked
  <2>2. chain \in Seq(Cells)
    BY <2>1, SeqMonotonic
  <2>3. QED
    BY <2>2, LenProperties DEF Linked
<1>2. chain \in Injection(1 .. Len(chain), Cells)
  BY <1>1 DEF Injection, IsInjective
<1>3. IsFiniteSet(Cells) /\ Cardinality(Cells) \in Nat
  BY ListAssumption, FS_CardinalityType
<1>4. Cardinality(1 .. Len(chain)) <= Cardinality(Cells)
  BY <1>2, <1>3, FS_Injection
<1>5. Cardinality(1 .. Len(chain)) = Len(chain)
  <2>1. Cardinality(1 .. Len(chain)) =
          IF 1 > Len(chain) THEN 0 ELSE Len(chain) - 1 + 1
    BY <1>1, FS_Interval
  <2>2. QED
    BY <2>1, <1>1
<1>6. QED
  BY <1>3, <1>4, <1>5

\* Following the next pointers from the first cell visits the chain.
LEMMA ReachedIs ==
  ASSUME NEW chain, NEW f, NEW l, NEW cells, Linked(chain, f, l, cells)
  PROVE  Reached(f, cells) = chain
<1> DEFINE N == Cardinality(Cells)
           Step(g, n) == IF n = 1 THEN f
                         ELSE IF g[n - 1] \notin DOMAIN cells THEN NULL
                         ELSE cells[g[n - 1]].next
           walk == CHOOSE g : g = [n \in 1 .. N |-> Step(g, n)]
           ideal == [n \in 1 .. N |-> IF n <= Len(chain) THEN chain[n] ELSE NULL]
<1>1. /\ Len(chain) \in Nat
      /\ DOMAIN chain = 1 .. Len(chain)
      /\ \A i \in 1 .. Len(chain) : /\ chain[i] \in DOMAIN cells
                                    /\ chain[i] # NULL
                                    /\ cells[chain[i]].next = Successor(chain, i)
      /\ N \in Nat /\ Len(chain) <= N
      /\ NULL \notin DOMAIN cells
      /\ f = IF Len(chain) = 0 THEN NULL ELSE chain[1]
  <2>1. DOMAIN cells \subseteq Cells /\ f = FirstOf(chain)
    BY DEF Linked
  <2>2. \A i \in 1 .. Len(chain) : cells[chain[i]].next = Successor(chain, i)
    BY DEF Linked
  <2>3. QED
    BY <2>1, <2>2, ChainCells, ChainFits, ListAssumption DEF NULL, FirstOf
<1>2. ideal = [n \in 1 .. N |-> Step(ideal, n)]
  <2>1. ASSUME NEW n \in 1 .. N
        PROVE  ideal[n] = Step(ideal, n)
    <3>1. CASE n = 1
      BY <3>1, <1>1
    <3>2. CASE n # 1 /\ n - 1 <= Len(chain)
      <4>1. ideal[n - 1] = chain[n - 1] /\ n - 1 \in 1 .. Len(chain)
        BY <3>2, <1>1
      <4>2. cells[chain[n - 1]].next = IF n <= Len(chain) THEN chain[n] ELSE NULL
        BY <4>1, <1>1 DEF Successor
      <4>3. QED
        BY <4>1, <4>2, <3>2, <1>1
    <3>3. CASE n # 1 /\ n - 1 > Len(chain)
      <4>1. ideal[n - 1] = NULL /\ ideal[n] = NULL
        BY <3>3, <1>1
      <4>2. QED
        BY <4>1, <3>3, <1>1
    <3>4. QED
      BY <3>1, <3>2, <3>3, <1>1
  <2>2. QED
    BY <2>1
<1>3. walk = [n \in 1 .. N |-> Step(walk, n)]
  BY <1>2
<1>4. Reached(f, cells) = Restrict(walk, {n \in DOMAIN walk : walk[n] # NULL})
  BY DEF Reached
<1> HIDE DEF walk
<1>5. ASSUME NEW n \in 1 .. N
      PROVE  walk[n] = ideal[n]
  <2> DEFINE Wrong == {m \in 1 .. N : walk[m] # ideal[m]}
  <2>1. SUFFICES Wrong = {}
    OBVIOUS
  <2>2. SUFFICES ASSUME Wrong # {}
                 PROVE  FALSE
    OBVIOUS
  <2>3. PICK m \in Wrong : \A i \in Wrong : m <= i
    <3>1. Wrong \in SUBSET Nat
      BY <1>1
    <3> HIDE DEF Wrong
    <3>2. QED
      BY <2>2, <3>1, LeastNatural
  <2>4. walk[m] = Step(walk, m) /\ ideal[m] = Step(ideal, m) /\ m \in 1 .. N
    BY <1>2, <1>3, <2>3
  <2>5. m # 1 => walk[m - 1] = ideal[m - 1]
    BY <1>1, <2>3, <2>4
  <2>6. QED
    BY <2>3, <2>4, <2>5
<1>6. walk = ideal
  BY <1>3, <1>5
<1>7. {n \in DOMAIN walk : walk[n] # NULL} = 1 .. Len(chain)
  BY <1>1, <1>6
<1>8. Restrict(walk, 1 .. Len(chain)) = chain
  <2>1. Restrict(walk, 1 .. Len(chain)) = [i \in 1 .. Len(chain) |-> chain[i]]
    BY <1>1, <1>6 DEF Restrict
  <2>2. chain = [i \in 1 .. Len(chain) |-> chain[i]]
    BY <1>1, LenProperties DEF Linked
  <2>3. QED
    BY <2>1, <2>2
<1>9. QED
  BY <1>4, <1>7, <1>8

-------------------------------------------------------------------------------
\* A sequence with e put in as its p-th member.
Placed(seq, p, e) ==
  [i \in 1 .. Len(seq) + 1 |-> IF i < p THEN seq[i]
                               ELSE IF i = p THEN e
                               ELSE seq[i - 1]]

LEMMA PlacedShape ==
  ASSUME NEW seq, Len(seq) \in Nat, NEW p, NEW e
  PROVE  /\ Len(Placed(seq, p, e)) = Len(seq) + 1
         /\ \A i \in 1 .. Len(seq) + 1 :
              Placed(seq, p, e)[i] = IF i < p THEN seq[i]
                                     ELSE IF i = p THEN e
                                     ELSE seq[i - 1]
  BY DEF Placed

LEMMA PlacedIsSeq ==
  ASSUME NEW S, NEW seq \in Seq(S), NEW p \in 1 .. Len(seq) + 1, NEW e \in S
  PROVE  Placed(seq, p, e) \in Seq(S)
<1>1. /\ Len(seq) \in Nat
      /\ \A i \in 1 .. Len(seq) : seq[i] \in S
  BY LenProperties, ElementOfSeq
<1>2. ASSUME NEW i \in 1 .. Len(seq) + 1
      PROVE  (IF i < p THEN seq[i] ELSE IF i = p THEN e ELSE seq[i - 1]) \in S
  <2>1. CASE i < p
    BY <1>1, <2>1
  <2>2. CASE i >= p
    BY <1>1, <2>2
  <2>3. QED
    BY <1>1, <2>1, <2>2
<1>3. Placed(seq, p, e) \in [1 .. Len(seq) + 1 -> S]
  BY <1>2, Zenon DEF Placed
<1>4. QED
  <2>1. Len(seq) + 1 \in Nat
    BY <1>1
  <2>2. QED
    BY <1>3, <2>1, SeqDef

\* The heap after cell c, with this element, has been put between the cells at
\* p - 1 and p of the chain.
Spliced(chain, p, c, element, cells) ==
  [x \in DOMAIN cells \cup {c} |->
     IF x = c
     THEN [item |-> element.item, key |-> element.key,
           next |-> IF p <= Len(chain) THEN chain[p] ELSE NULL]
     ELSE IF p > 1 /\ x = chain[p - 1] THEN [cells[x] EXCEPT !.next = c]
     ELSE cells[x]]

\* A free cell that is put in at p makes the chain one longer there, whether it
\* goes to the front, to the end or between two cells.
LEMMA InsertLinks ==
  ASSUME NEW chain, NEW f, NEW l, NEW cells, Linked(chain, f, l, cells),
         NEW p \in 1 .. Len(chain) + 1, NEW c \in Cells \ DOMAIN cells,
         NEW element \in Elements(Nat)
  PROVE  Linked(Placed(chain, p, c),
                IF p = 1 THEN c ELSE f,
                IF p = Len(chain) + 1 THEN c ELSE l,
                Spliced(chain, p, c, element, cells))
<1> DEFINE longer == Placed(chain, p, c)
           heap2 == Spliced(chain, p, c, element, cells)
           n == Len(chain)
<1>1. /\ n \in Nat
      /\ \A i \in 1 .. n : /\ chain[i] \in DOMAIN cells
                           /\ chain[i] # c
                           /\ cells[chain[i]].next = Successor(chain, i)
      /\ p \in Nat /\ p >= 1 /\ p <= n + 1
      /\ c \in Nat
      /\ chain # <<>> <=> n # 0
  <2>1. /\ n \in Nat
        /\ \A i \in 1 .. n : chain[i] \in DOMAIN cells
        /\ chain # <<>> <=> n # 0
    BY ChainCells
  <2>2. \A i \in 1 .. n : cells[chain[i]].next = Successor(chain, i)
    BY DEF Linked
  <2>3. c \in Nat
    BY ListAssumption
  <2>4. QED
    BY <2>1, <2>2, <2>3
<1>2. /\ longer \in Seq(DOMAIN cells \cup {c})
      /\ Len(longer) = n + 1
      /\ \A i \in 1 .. n + 1 : longer[i] = IF i < p THEN chain[i]
                                           ELSE IF i = p THEN c
                                           ELSE chain[i - 1]
  <2> HIDE DEF longer, heap2
  <2>1. chain \in Seq(DOMAIN cells) /\ DOMAIN cells \subseteq DOMAIN cells \cup {c}
    BY DEF Linked
  <2>2. chain \in Seq(DOMAIN cells \cup {c}) /\ c \in DOMAIN cells \cup {c}
    BY <2>1, SeqMonotonic
  <2>3. Placed(chain, p, c) \in Seq(DOMAIN cells \cup {c})
    BY <2>2, PlacedIsSeq
  <2>4. Len(chain) \in Nat
    BY <1>1
  <2>5. /\ Len(Placed(chain, p, c)) = Len(chain) + 1
        /\ \A i \in 1 .. Len(chain) + 1 :
             Placed(chain, p, c)[i] = IF i < p THEN chain[i]
                                      ELSE IF i = p THEN c
                                      ELSE chain[i - 1]
    BY <2>4, PlacedShape
  <2>6. QED
    BY <2>3, <2>5, Zenon DEF longer
<1>3. /\ DOMAIN heap2 = DOMAIN cells \cup {c}
      /\ heap2[c] = [item |-> element.item, key |-> element.key,
                     next |-> IF p <= n THEN chain[p] ELSE NULL]
      /\ \A x \in DOMAIN cells :
           heap2[x] = IF p > 1 /\ x = chain[p - 1]
                      THEN [cells[x] EXCEPT !.next = c] ELSE cells[x]
  BY DEF Spliced
<1>4. heap2 \in [DOMAIN heap2 -> Node] /\ DOMAIN heap2 \subseteq Cells
  <2>1. heap2[c] \in Node
    <3>1. element.item \in Nat /\ element.key \in Int
      BY DEF Elements
    <3>2. (IF p <= n THEN chain[p] ELSE NULL) \in Nat
      BY <1>1, ChainCells DEF NULL
    <3>3. QED
      BY <1>3, <3>1, <3>2 DEF Node
  <2>2. ASSUME NEW x \in DOMAIN cells
        PROVE  heap2[x] \in Node
    <3>1. cells[x] \in Node
      BY DEF Linked
    <3>2. [cells[x] EXCEPT !.next = c] \in Node
      BY <3>1, <1>1 DEF Node
    <3>3. QED
      BY <1>3, <3>1, <3>2
  <2>3. heap2 = [x \in DOMAIN heap2 |-> heap2[x]]
    BY <1>3 DEF Spliced
  <2>4. QED
    BY <1>3, <2>1, <2>2, <2>3 DEF Linked
<1> HIDE DEF longer, heap2
<1>5. ASSUME NEW x \in DOMAIN heap2
      PROVE  \E i \in 1 .. n + 1 : longer[i] = x
  <2>1. CASE x = c
    BY <2>1, <1>1, <1>2
  <2>2. CASE x # c
    <3>1. PICK i \in 1 .. n : chain[i] = x
      BY <1>3, <2>2 DEF Linked
    <3>2. CASE i < p
      <4>1. longer[i] = x /\ i \in 1 .. n + 1
        BY <1>1, <1>2, <3>1, <3>2
      <4>2. QED
        BY <4>1
    <3>3. CASE i >= p
      <4>1. longer[i + 1] = x /\ i + 1 \in 1 .. n + 1
        BY <1>1, <1>2, <3>1, <3>3
      <4>2. QED
        BY <4>1
    <3>4. QED
      BY <1>1, <3>2, <3>3
  <2>3. QED
    BY <2>1, <2>2
<1>6. ASSUME NEW i \in 1 .. n + 1, NEW j \in 1 .. n + 1, i # j
      PROVE  longer[i] # longer[j]
  <2>1. \A k, m \in 1 .. n : k # m => chain[k] # chain[m]
    BY DEF Linked
  <2>2. \A k \in 1 .. n + 1 : k # p => longer[k] # c
    BY <1>1, <1>2
  <2>3. CASE i = p \/ j = p
    <3>1. longer[p] = c
      BY <1>1, <1>2
    <3>2. QED
      BY <1>6, <2>3, <2>2, <3>1
  <2>4. CASE i # p /\ j # p
    <3> DEFINE k == IF i < p THEN i ELSE i - 1
               m == IF j < p THEN j ELSE j - 1
    <3>1. k \in 1 .. n /\ m \in 1 .. n /\ k # m
      BY <1>1, <1>6, <2>4
    <3>2. longer[i] = chain[k] /\ longer[j] = chain[m]
      BY <1>2, <2>4
    <3>3. QED
      BY <2>1, <3>1, <3>2
  <2>5. QED
    BY <2>3, <2>4
<1>7. ASSUME NEW i \in 1 .. n + 1
      PROVE  heap2[longer[i]].next = Successor(longer, i)
  <2>1. Successor(longer, i) = IF i < n + 1 THEN longer[i + 1] ELSE NULL
    BY <1>2 DEF Successor
  <2>2. CASE i = p
    <3>1. heap2[longer[i]].next = IF p <= n THEN chain[p] ELSE NULL
      BY <1>2, <1>3, <2>2
    <3>2. p <= n => longer[p + 1] = chain[p]
      BY <1>1, <1>2
    <3>3. QED
      BY <2>1, <2>2, <3>1, <3>2, <1>1
  <2>3. CASE i = p - 1
    <3>1. longer[i] = chain[p - 1] /\ longer[i] \in DOMAIN cells /\ p > 1
      BY <1>1, <1>2, <2>3
    <3>2. cells[longer[i]] \in Node
      BY <3>1 DEF Linked
    <3>3. heap2[longer[i]].next = c
      BY <1>3, <3>1, <3>2 DEF Node
    <3>4. longer[i + 1] = c
      BY <1>1, <1>2, <2>3
    <3>5. QED
      BY <2>1, <2>3, <3>3, <3>4, <1>1
  <2>4. CASE i # p /\ i # p - 1
    <3> DEFINE k == IF i < p THEN i ELSE i - 1
    <3>1. /\ k \in 1 .. n
          /\ longer[i] = chain[k]
          /\ i < n + 1 <=> k < n
          /\ k # p - 1
      BY <1>1, <1>2, <2>4
    <3>2. heap2[chain[k]] = cells[chain[k]]
      <4>1. p > 1 => p - 1 \in 1 .. n
        BY <1>1
      <4>2. p > 1 => chain[k] # chain[p - 1]
        BY <3>1, <4>1 DEF Linked
      <4>3. QED
        BY <1>1, <1>3, <3>1, <4>2
    <3>3. cells[chain[k]].next = IF k < n THEN chain[k + 1] ELSE NULL
      BY <1>1, <3>1 DEF Successor
    <3>4. k < n => longer[i + 1] = chain[k + 1]
      BY <1>1, <1>2, <3>1, <2>4
    <3>5. QED
      BY <2>1, <3>1, <3>2, <3>3, <3>4
  <2>5. QED
    BY <2>2, <2>3, <2>4
<1>8. (IF p = 1 THEN c ELSE f) = FirstOf(longer)
  <2>1. longer # <<>> /\ longer[1] = IF p = 1 THEN c ELSE chain[1]
    BY <1>1, <1>2, EmptySeq
  <2>2. p # 1 => chain # <<>>
    BY <1>1
  <2>3. QED
    BY <2>1, <2>2 DEF FirstOf, Linked
<1>9. (IF p = n + 1 THEN c ELSE l) = LastOf(longer)
  <2>1. /\ longer # <<>>
        /\ longer[n + 1] = IF p = n + 1 THEN c ELSE chain[n]
    BY <1>1, <1>2, EmptySeq
  <2>2. p # n + 1 => chain # <<>>
    BY <1>1
  <2>3. QED
    BY <1>2, <2>1, <2>2 DEF LastOf, Linked
<1>10. QED
  BY <1>2, <1>3, <1>4, <1>5, <1>6, <1>7, <1>8, <1>9 DEF Linked, longer, heap2

\* The elements a chain holds, in its order.
LEMMA HeldShape ==
  ASSUME NEW chain, NEW f, NEW l, NEW cells, Linked(chain, f, l, cells)
  PROVE  /\ Held(chain, cells) \in Seq(Elements(Nat))
         /\ Len(Held(chain, cells)) = Len(chain)
         /\ \A i \in 1 .. Len(chain) :
              /\ Held(chain, cells)[i] = Element(cells[chain[i]].item, cells[chain[i]].key)
              /\ Held(chain, cells)[i].key = cells[chain[i]].key
              /\ cells[chain[i]].item \in Nat
              /\ cells[chain[i]].key \in Int
<1>1. /\ Len(chain) \in Nat
      /\ DOMAIN chain = 1 .. Len(chain)
      /\ \A i \in 1 .. Len(chain) : cells[chain[i]] \in Node
  BY ChainCells
<1>2. \A i \in 1 .. Len(chain) : /\ cells[chain[i]].item \in Nat
                                 /\ cells[chain[i]].key \in Int
  BY <1>1 DEF Node
<1>3. Held(chain, cells) \in [1 .. Len(chain) -> Elements(Nat)]
  BY <1>1, <1>2 DEF Held, Elements
<1>4. /\ Held(chain, cells) \in Seq(Elements(Nat))
      /\ DOMAIN Held(chain, cells) = 1 .. Len(chain)
  BY <1>1, <1>3, SeqDef
<1>5. Len(Held(chain, cells)) = Len(chain)
  <2>1. /\ DOMAIN Held(chain, cells) = 1 .. Len(Held(chain, cells))
        /\ Len(Held(chain, cells)) \in Nat
    BY <1>4, LenProperties
  <2>2. QED
    BY <1>1, <1>4, <2>1
<1>6. QED
  BY <1>1, <1>2, <1>4, <1>5 DEF Held, Element

\* The sequence it stands for gains the element at p.
LEMMA InsertHeld ==
  ASSUME NEW chain, NEW f, NEW l, NEW cells, Linked(chain, f, l, cells),
         NEW p \in 1 .. Len(chain) + 1, NEW c \in Cells \ DOMAIN cells,
         NEW element \in Elements(Nat)
  PROVE  Held(Placed(chain, p, c), Spliced(chain, p, c, element, cells))
           = Placed(Held(chain, cells), p, element)
<1> DEFINE longer == Placed(chain, p, c)
           heap2 == Spliced(chain, p, c, element, cells)
           held == Held(chain, cells)
           held2 == Held(longer, heap2)
           n == Len(chain)
<1>1. Linked(longer, IF p = 1 THEN c ELSE f, IF p = n + 1 THEN c ELSE l, heap2)
  BY InsertLinks
<1>2. n \in Nat /\ \A i \in 1 .. n : chain[i] \in DOMAIN cells /\ chain[i] # c
  BY ChainCells
<1>3. /\ Len(longer) = n + 1
      /\ \A i \in 1 .. n + 1 : longer[i] = IF i < p THEN chain[i]
                                           ELSE IF i = p THEN c
                                           ELSE chain[i - 1]
  <2> HIDE DEF longer, heap2
  <2>1. Len(chain) \in Nat
    BY <1>2
  <2>2. /\ Len(Placed(chain, p, c)) = Len(chain) + 1
        /\ \A i \in 1 .. Len(chain) + 1 :
             Placed(chain, p, c)[i] = IF i < p THEN chain[i]
                                      ELSE IF i = p THEN c
                                      ELSE chain[i - 1]
    BY <2>1, PlacedShape
  <2>3. QED
    BY <2>2, Zenon DEF longer
<1>4. /\ held \in Seq(Elements(Nat))
      /\ Len(held) = n
      /\ \A i \in 1 .. n : held[i] = Element(cells[chain[i]].item, cells[chain[i]].key)
  BY HeldShape
<1>5. /\ held2 \in Seq(Elements(Nat))
      /\ Len(held2) = n + 1
      /\ \A i \in 1 .. n + 1 : held2[i] = Element(heap2[longer[i]].item, heap2[longer[i]].key)
  <2> HIDE DEF longer, heap2
  <2>1. /\ held2 \in Seq(Elements(Nat))
        /\ Len(held2) = Len(longer)
        /\ \A i \in 1 .. Len(longer) :
             held2[i] = Element(heap2[longer[i]].item, heap2[longer[i]].key)
    BY <1>1, HeldShape
  <2>2. QED
    BY <1>3, <2>1
<1>6. /\ heap2[c].item = element.item
      /\ heap2[c].key = element.key
      /\ \A x \in DOMAIN cells : x # c => /\ heap2[x].item = cells[x].item
                                          /\ heap2[x].key = cells[x].key
  <2>1. \A x \in DOMAIN cells : cells[x] \in Node
    BY DEF Linked
  <2>2. QED
    BY <2>1 DEF Spliced, Node
<1>7. /\ Placed(held, p, element) \in Seq(Elements(Nat))
      /\ Len(Placed(held, p, element)) = n + 1
      /\ \A i \in 1 .. n + 1 :
           Placed(held, p, element)[i] = IF i < p THEN held[i]
                                         ELSE IF i = p THEN element
                                         ELSE held[i - 1]
  <2> HIDE DEF held
  <2>1. p \in 1 .. Len(held) + 1
    BY <1>4
  <2>2. Placed(held, p, element) \in Seq(Elements(Nat))
    BY <1>4, <2>1, PlacedIsSeq
  <2>3. Len(held) \in Nat
    BY <1>2, <1>4
  <2>4. /\ Len(Placed(held, p, element)) = Len(held) + 1
        /\ \A i \in 1 .. Len(held) + 1 :
             Placed(held, p, element)[i] = IF i < p THEN held[i]
                                           ELSE IF i = p THEN element
                                           ELSE held[i - 1]
    BY <2>3, PlacedShape
  <2>5. QED
    BY <1>4, <2>2, <2>4
<1>8. ASSUME NEW i \in 1 .. n + 1
      PROVE  held2[i] = Placed(held, p, element)[i]
  <2> HIDE DEF held, held2, heap2, longer
  <2>1. CASE i = p
    <3>1. held2[i] = Element(element.item, element.key)
      BY <1>2, <1>3, <1>5, <1>6, <2>1
    <3>2. Element(element.item, element.key) = element
      BY DEF Element, Elements
    <3>3. QED
      BY <1>7, <2>1, <3>1, <3>2
  <2>2. CASE i # p
    <3> DEFINE k == IF i < p THEN i ELSE i - 1
    <3>1. k \in 1 .. n /\ longer[i] = chain[k]
      BY <1>2, <1>3, <2>2
    <3>2. held2[i] = Element(cells[chain[k]].item, cells[chain[k]].key)
      BY <1>2, <1>5, <1>6, <3>1
    <3>3. Placed(held, p, element)[i] = held[k]
      BY <1>2, <1>7, <2>2
    <3>4. QED
      BY <1>4, <3>1, <3>2, <3>3
  <2>3. QED
    BY <2>1, <2>2
<1>9. QED
  <2> HIDE DEF held, held2
  <2>1. held2 = Placed(held, p, element)
    BY <1>5, <1>7, <1>8, SeqEqual
  <2>2. QED
    BY <2>1 DEF held, held2

\* Remove takes the first cell off: the rest is the chain that remains, and the
\* sequence it stands for loses its head.
LEMMA RemoveLinks ==
  ASSUME NEW chain, Linked(chain, first, last, heap),
         chain # <<>>
  PROVE  /\ first \in DOMAIN heap
         /\ first = last => heap[first].next = NULL
         /\ LastOf(Tail(chain)) = IF first = last THEN NULL ELSE last
         /\ Linked(Tail(chain), heap[first].next, LastOf(Tail(chain)),
                   Restrict(heap, DOMAIN heap \ {first}))
         /\ Held(Tail(chain), Restrict(heap, DOMAIN heap \ {first}))
              = Tail(Held(chain, heap))
         /\ Held(chain, heap) # <<>>
         /\ Head(Held(chain, heap)).item = heap[first].item
<1> DEFINE rest == Tail(chain)
           left == Restrict(heap, DOMAIN heap \ {first})
           n == Len(chain)
<1>1. /\ n \in Nat /\ n >= 1
      /\ chain \in Seq(DOMAIN heap)
      /\ \A i \in 1 .. n : chain[i] \in DOMAIN heap /\ chain[i] # NULL
      /\ \A i, j \in 1 .. n : i # j => chain[i] # chain[j]
      /\ \A i \in 1 .. n : heap[chain[i]].next = Successor(chain, i)
      /\ first = chain[1] /\ last = chain[n]
  <2>1. /\ n \in Nat /\ n # 0
        /\ \A i \in 1 .. n : chain[i] \in DOMAIN heap /\ chain[i] # NULL
    BY ChainCells DEF NULL
  <2>2. /\ chain \in Seq(DOMAIN heap)
        /\ \A i, j \in 1 .. n : i # j => chain[i] # chain[j]
        /\ \A i \in 1 .. n : heap[chain[i]].next = Successor(chain, i)
        /\ first = chain[1] /\ last = chain[n]
    BY DEF Linked, FirstOf, LastOf
  <2>3. QED
    BY <2>1, <2>2
<1>2. /\ rest \in Seq(DOMAIN heap)
      /\ Len(rest) = n - 1
      /\ \A i \in 1 .. n - 1 : rest[i] = chain[i + 1]
      /\ rest = <<>> <=> n = 1
  <2>1. /\ rest \in Seq(DOMAIN heap)
        /\ Len(rest) = n - 1
        /\ \A i \in 1 .. Len(rest) : rest[i] = chain[i + 1]
    BY <1>1, HeadTailProperties
  <2>2. rest = <<>> <=> Len(rest) = 0
    BY <2>1, EmptySeq
  <2>3. QED
    BY <1>1, <2>1, <2>2
<1>3. /\ first \in DOMAIN heap
      /\ first = last <=> n = 1
  <2>1. 1 \in 1 .. n /\ n \in 1 .. n
    BY <1>1
  <2>2. QED
    BY <1>1, <2>1
<1>4. /\ DOMAIN left = DOMAIN heap \ {first}
      /\ \A x \in DOMAIN left : left[x] = heap[x]
      /\ left = [x \in DOMAIN left |-> left[x]]
  BY DEF Restrict
<1> HIDE DEF rest, left
<1>5. \A i \in 1 .. n - 1 : rest[i] \in DOMAIN left /\ left[rest[i]] = heap[rest[i]]
  BY <1>1, <1>2, <1>4
<1>6. /\ Linked(rest, heap[first].next, LastOf(rest), left)
      /\ first = last => heap[first].next = NULL
      /\ LastOf(rest) = IF first = last THEN NULL ELSE last
  <2>1. left \in [DOMAIN left -> Node] /\ DOMAIN left \subseteq Cells
    BY <1>4 DEF Linked
  <2>2. rest \in Seq(DOMAIN left)
    <3>1. rest \in [1 .. n - 1 -> DOMAIN left]
      <4>1. rest \in [1 .. n - 1 -> DOMAIN heap]
        BY <1>2, LenProperties
      <4>2. QED
        BY <4>1, <1>5
    <3>2. n - 1 \in Nat
      BY <1>1
    <3>3. QED
      BY <3>1, <3>2, SeqDef
  <2>3. ASSUME NEW x \in DOMAIN left
        PROVE  \E i \in 1 .. Len(rest) : rest[i] = x
    <3>1. PICK i \in 1 .. n : chain[i] = x
      BY <1>4 DEF Linked
    <3>2. i # 1
      BY <1>1, <1>4, <3>1
    <3>3. i - 1 \in 1 .. n - 1 /\ rest[i - 1] = x
      BY <1>1, <1>2, <3>1, <3>2
    <3>4. QED
      BY <1>2, <3>3
  <2>4. ASSUME NEW i \in 1 .. Len(rest), NEW j \in 1 .. Len(rest), i # j
        PROVE  rest[i] # rest[j]
    <3>1. i + 1 \in 1 .. n /\ j + 1 \in 1 .. n /\ i + 1 # j + 1
      BY <1>1, <1>2, <2>4
    <3>2. QED
      BY <1>1, <1>2, <3>1
  <2>5. ASSUME NEW i \in 1 .. Len(rest)
        PROVE  left[rest[i]].next = Successor(rest, i)
    <3>1. i + 1 \in 1 .. n /\ rest[i] = chain[i + 1] /\ i \in 1 .. n - 1
      BY <1>1, <1>2
    <3>2. left[rest[i]].next = Successor(chain, i + 1)
      BY <1>1, <1>5, <3>1
    <3>3. Successor(chain, i + 1) = IF i + 1 < n THEN chain[i + 1 + 1] ELSE NULL
      BY DEF Successor
    <3>4. i + 1 < n => chain[i + 1 + 1] = rest[i + 1]
      BY <1>1, <1>2, <3>1
    <3>5. i + 1 < n <=> i < Len(rest)
      BY <1>1, <1>2, <3>1
    <3>6. QED
      BY <3>2, <3>3, <3>4, <3>5 DEF Successor
  <2>6. heap[first].next = FirstOf(rest)
    <3>1. heap[first].next = IF 1 < n THEN chain[2] ELSE NULL
      BY <1>1 DEF Successor
    <3>2. QED
      BY <1>1, <1>2, <3>1 DEF FirstOf
  <2>7. (IF first = last THEN NULL ELSE last) = LastOf(rest)
    <3> HIDE DEF n
    <3>1. n \in Nat /\ n >= 1
      BY <1>1
    <3>2. n # 1 => n - 1 \in 1 .. n - 1 /\ n - 1 + 1 = n
      BY <3>1
    <3>3. n # 1 => rest[n - 1] = last
      BY <1>1, <1>2, <3>2
    <3>4. QED
      BY <1>2, <1>3, <3>3 DEF LastOf
  <2>8. first = last => heap[first].next = NULL
    BY <1>2, <1>3, <2>6 DEF FirstOf
  <2>9. Linked(rest, heap[first].next, LastOf(rest), left)
    BY <2>1, <2>2, <2>3, <2>4, <2>5, <2>6 DEF Linked
  <2>10. QED
    BY <2>7, <2>8, <2>9
<1> DEFINE held == Held(chain, heap)
<1>7. /\ held \in Seq(Elements(Nat))
      /\ Len(held) = n
      /\ \A i \in 1 .. n : held[i] = Element(heap[chain[i]].item, heap[chain[i]].key)
  BY HeldShape
<1>8. /\ Held(rest, left) \in Seq(Elements(Nat))
      /\ Len(Held(rest, left)) = n - 1
      /\ \A i \in 1 .. n - 1 :
           Held(rest, left)[i] = Element(left[rest[i]].item, left[rest[i]].key)
  BY <1>2, <1>6, HeldShape
<1> HIDE DEF held
<1>9. /\ held # <<>>
      /\ Head(held) = held[1]
      /\ Tail(held) \in Seq(Elements(Nat))
      /\ Len(Tail(held)) = n - 1
      /\ \A i \in 1 .. n - 1 : Tail(held)[i] = held[i + 1]
  <2>1. held # <<>> /\ Head(held) = held[1]
    BY <1>1, <1>7, EmptySeq
  <2>2. /\ Tail(held) \in Seq(Elements(Nat))
        /\ Len(Tail(held)) = Len(held) - 1
        /\ \A i \in 1 .. Len(Tail(held)) : Tail(held)[i] = held[i + 1]
    BY <1>7, <2>1, HeadTailProperties
  <2>3. QED
    BY <1>7, <2>1, <2>2
<1>10. Held(rest, left) = Tail(held)
  <2>1. ASSUME NEW i \in 1 .. n - 1
        PROVE  Held(rest, left)[i] = Tail(held)[i]
    <3>1. i + 1 \in 1 .. n
      BY <1>1
    <3>2. Tail(held)[i] = Element(heap[chain[i + 1]].item, heap[chain[i + 1]].key)
      BY <1>7, <1>9, <3>1
    <3>3. left[rest[i]] = heap[chain[i + 1]]
      BY <1>2, <1>5
    <3>4. QED
      BY <1>8, <3>2, <3>3
  <2>2. QED
    BY <1>8, <1>9, <2>1, SeqEqual
<1>11. Head(held).item = heap[first].item
  <2>1. 1 \in 1 .. n
    BY <1>1
  <2>2. Head(held) = Element(heap[first].item, heap[first].key)
    BY <1>1, <1>7, <1>9, <2>1
  <2>3. QED
    BY <2>2 DEF Element
<1>12. QED
  BY <1>2, <1>3, <1>6, <1>9, <1>10, <1>11 DEF held, rest, left

-------------------------------------------------------------------------------
\* The insertions of a sequence put the element in at the end, at the front and
\* at its place.
LEMMA InsertionsPlace ==
  ASSUME NEW list \in Seq(Elements(Nat)), NEW item \in Nat, NEW key \in Int
  PROVE  /\ AppendItem(list, item) = Placed(list, Len(list) + 1, Element(item, 0))
         /\ PrependItem(list, item) = Placed(list, 1, Element(item, 0))
         /\ SortedInsert(list, item, key) = Placed(list, Place(list, key), Element(item, key))
<1> DEFINE n == Len(list)
<1>1. n \in Nat /\ \A i \in 1 .. n : list[i] \in Elements(Nat)
  BY ElementTypes
<1>2. Element(item, 0) \in Elements(Nat) /\ Element(item, key) \in Elements(Nat)
  BY DEF Element, Elements
<1>3. ASSUME NEW p \in 1 .. n + 1, NEW e \in Elements(Nat),
             NEW longer \in Seq(Elements(Nat)), Len(longer) = n + 1,
             \A i \in 1 .. n + 1 : longer[i] = IF i < p THEN list[i]
                                               ELSE IF i = p THEN e
                                               ELSE list[i - 1]
      PROVE  longer = Placed(list, p, e)
  <2>1. Placed(list, p, e) \in Seq(Elements(Nat))
    BY PlacedIsSeq
  <2>2. /\ Len(Placed(list, p, e)) = Len(list) + 1
        /\ \A i \in 1 .. Len(list) + 1 :
             Placed(list, p, e)[i] = IF i < p THEN list[i]
                                     ELSE IF i = p THEN e
                                     ELSE list[i - 1]
    BY <1>1, PlacedShape
  <2>3. Len(longer) = Len(Placed(list, p, e))
    BY <1>3, <2>2
  <2>4. \A i \in 1 .. Len(longer) : longer[i] = Placed(list, p, e)[i]
    BY <1>3, <2>2
  <2>5. QED
    BY <2>1, <2>3, <2>4, SeqEqual
<1>4. AppendItem(list, item) = Placed(list, n + 1, Element(item, 0))
  <2> DEFINE longer == Append(list, Element(item, 0))
  <2>1. /\ longer \in Seq(Elements(Nat))
        /\ Len(longer) = n + 1
        /\ \A i \in 1 .. n : longer[i] = list[i]
        /\ longer[n + 1] = Element(item, 0)
    BY <1>2, AppendProperties
  <2> HIDE DEF longer
  <2>2. \A i \in 1 .. n + 1 : longer[i] = IF i < n + 1 THEN list[i]
                                          ELSE IF i = n + 1 THEN Element(item, 0)
                                          ELSE list[i - 1]
    BY <1>1, <2>1
  <2>3. n + 1 \in 1 .. n + 1
    BY <1>1
  <2>4. longer = Placed(list, n + 1, Element(item, 0))
    BY <1>2, <1>3, <2>1, <2>2, <2>3
  <2>5. QED
    BY <2>4 DEF AppendItem, longer
<1>5. PrependItem(list, item) = Placed(list, 1, Element(item, 0))
  <2> DEFINE mid == <<Element(item, 0)>>
             longer == mid \o list
  <2>1. mid \in Seq(Elements(Nat)) /\ Len(mid) = 1 /\ mid[1] = Element(item, 0)
    BY <1>2
  <2> HIDE DEF mid
  <2>2. /\ longer \in Seq(Elements(Nat))
        /\ Len(longer) = Len(mid) + Len(list)
        /\ \A i \in 1 .. Len(mid) + Len(list) :
             longer[i] = IF i <= Len(mid) THEN mid[i] ELSE list[i - Len(mid)]
    BY <2>1, ConcatProperties
  <2> HIDE DEF longer
  <2>3. Len(longer) = n + 1
    BY <1>1, <2>1, <2>2
  <2>4. \A i \in 1 .. n + 1 : longer[i] = IF i < 1 THEN list[i]
                                          ELSE IF i = 1 THEN Element(item, 0)
                                          ELSE list[i - 1]
    BY <1>1, <2>1, <2>2
  <2>5. 1 \in 1 .. n + 1
    BY <1>1
  <2>6. longer = Placed(list, 1, Element(item, 0))
    BY <1>2, <1>3, <2>2, <2>3, <2>4, <2>5
  <2>7. QED
    BY <2>6 DEF PrependItem, longer, mid
<1>6. SortedInsert(list, item, key) = Placed(list, Place(list, key), Element(item, key))
  <2> DEFINE p == Place(list, key)
             longer == SortedInsert(list, item, key)
  <2>1. p \in 1 .. n + 1
    BY PlaceProperties
  <2>2. /\ longer \in Seq(Elements(Nat))
        /\ Len(longer) = n + 1
        /\ \A i \in 1 .. n + 1 : longer[i] = IF i < p THEN list[i]
                                             ELSE IF i = p THEN Element(item, key)
                                             ELSE list[i - 1]
    BY InsertShape
  <2> HIDE DEF longer, p
  <2>3. longer = Placed(list, p, Element(item, key))
    BY <1>2, <1>3, <2>1, <2>2
  <2>4. QED
    BY <2>3 DEF longer, p
<1>7. QED
  BY <1>4, <1>5, <1>6

\* Where the loop of SortedInsert stops: at the cell before the place, or at
\* NULL when the place is the end.
LEMMA InsertionPointIs ==
  ASSUME NEW chain, Linked(chain, first, last, heap), NEW key \in Int,
         Place(Held(chain, heap), key) > 1
  PROVE  InsertionPoint(key) = IF Place(Held(chain, heap), key) <= Len(chain)
                               THEN chain[Place(Held(chain, heap), key) - 1]
                               ELSE NULL
<1> DEFINE held == Held(chain, heap)
           p == Place(held, key)
           n == Len(chain)
           ok(i) == heap[chain[i]].next # NULL /\ key < heap[heap[chain[i]].next].key
           at == {i \in 1 .. n : ok(i)}
<1>1. /\ n \in Nat
      /\ DOMAIN chain = 1 .. n
      /\ \A i \in 1 .. n : chain[i] # NULL
      /\ \A i \in 1 .. n : heap[chain[i]].next = Successor(chain, i)
  <2>1. /\ n \in Nat
        /\ DOMAIN chain = 1 .. n
        /\ \A i \in 1 .. n : chain[i] # NULL
    BY ChainCells DEF NULL
  <2>2. \A i \in 1 .. n : heap[chain[i]].next = Successor(chain, i)
    BY DEF Linked
  <2>3. QED
    BY <2>1, <2>2
<1>2. /\ held \in Seq(Elements(Nat))
      /\ Len(held) = n
      /\ \A i \in 1 .. n : held[i].key = heap[chain[i]].key /\ heap[chain[i]].key \in Int
  BY HeldShape
<1>3. /\ p \in 1 .. n + 1
      /\ \A i \in 1 .. p - 1 : held[i].key <= key
      /\ p <= n => key < held[p].key
  <2> HIDE DEF held
  <2>1. /\ p \in 1 .. Len(held) + 1
        /\ \A i \in 1 .. p - 1 : held[i].key <= key
        /\ p <= Len(held) => key < held[p].key
    BY <1>2, PlaceProperties
  <2>2. QED
    BY <1>2, <2>1
<1>4. \A i \in 1 .. n : ok(i) <=> i < n /\ key < held[i + 1].key
  <2>1. ASSUME NEW i \in 1 .. n
        PROVE  ok(i) <=> i < n /\ key < held[i + 1].key
    <3>1. CASE i < n
      <4>1. i + 1 \in 1 .. n
        BY <1>1, <3>1
      <4>2. heap[chain[i]].next = chain[i + 1]
        BY <1>1, <3>1 DEF Successor
      <4>3. QED
        BY <1>1, <1>2, <3>1, <4>1, <4>2
    <3>2. CASE ~(i < n)
      BY <1>1, <3>2 DEF Successor
    <3>3. QED
      BY <3>1, <3>2
  <2>2. QED
    BY <2>1
<1>5. InsertionPoint(key) = IF at = {} THEN NULL
                            ELSE chain[CHOOSE i \in at : \A j \in at : i <= j]
  <2>1. Chain = chain
    BY ReachedIs DEF Chain
  <2>2. QED
    BY <1>1, <2>1 DEF InsertionPoint
<1> HIDE DEF held, p
<1>6. ASSUME NEW i \in at
      PROVE  p <= n /\ p - 1 <= i /\ i \in Nat
  <2>1. i \in 1 .. n /\ i < n /\ key < held[i + 1].key
    BY <1>4
  <2>2. ~(i + 1 \in 1 .. p - 1)
    <3>1. held[i + 1].key \in Int
      BY <1>1, <1>2, <2>1
    <3>2. QED
      BY <1>3, <2>1, <3>1
  <2>3. QED
    BY <1>1, <1>3, <2>1, <2>2
<1>7. CASE p <= n
  <2>1. p - 1 \in at
    <3>1. p - 1 \in 1 .. n /\ p - 1 < n /\ p - 1 + 1 = p
      BY <1>1, <1>3, <1>7 DEF p, held
    <3>2. QED
      BY <1>3, <1>4, <1>7, <3>1
  <2>2. (CHOOSE i \in at : \A j \in at : i <= j) = p - 1
    <3>1. p - 1 \in Int
      BY <1>1, <1>3
    <3>2. \A j \in at : p - 1 <= j /\ j \in Int
      BY <1>6
    <3> HIDE DEF at
    <3>3. \A i \in at : (\A j \in at : i <= j) => i = p - 1
      BY <2>1, <3>1, <3>2
    <3>4. \E i \in at : \A j \in at : i <= j
      BY <2>1, <3>2
    <3>5. QED
      BY <3>3, <3>4
  <2>3. QED
    BY <1>5, <1>7, <2>1, <2>2 DEF p, held
<1>8. CASE ~(p <= n)
  <2>1. at = {}
    BY <1>6, <1>8
  <2>2. QED
    BY <1>5, <1>8, <2>1 DEF p, held
<1>9. QED
  BY <1>7, <1>8

-------------------------------------------------------------------------------
\* Each operation, as a step of the chain.
LEMMA AppendLinks ==
  ASSUME NEW chain, Linked(chain, first, last, heap), arrivals \in Nat,
         NEW c \in Cells \ DOMAIN heap, AppendOp(c)
  PROVE  \E longer : /\ Linked(longer, first', last', heap')
                     /\ Held(longer, heap') = AppendItem(Held(chain, heap), arrivals')
<1> DEFINE n == Len(chain)
           element == Element(arrivals', 0)
           held == Held(chain, heap)
<1>1. /\ n \in Nat
      /\ first = NULL <=> n = 0
      /\ \A i \in 1 .. n : chain[i] \in DOMAIN heap
      /\ n # 0 => last = chain[n] /\ heap[last].next = NULL
      /\ heap \in [DOMAIN heap -> Node]
  <2>1. /\ n \in Nat
        /\ chain # <<>> <=> n # 0
        /\ \A i \in 1 .. n : chain[i] \in DOMAIN heap /\ chain[i] # NULL
    BY ChainCells DEF NULL
  <2>2. /\ first = FirstOf(chain) /\ last = LastOf(chain)
        /\ \A i \in 1 .. n : heap[chain[i]].next = Successor(chain, i)
        /\ heap \in [DOMAIN heap -> Node]
    BY DEF Linked
  <2>3. n # 0 => heap[chain[n]].next = NULL
    BY <2>1, <2>2 DEF Successor
  <2>4. QED
    BY <2>1, <2>2, <2>3 DEF FirstOf, LastOf
<1>2. arrivals' \in Nat /\ element \in Elements(Nat)
  BY DEF AppendOp, Arrive, Element, Elements
<1>3. /\ first' = IF n + 1 = 1 THEN c ELSE first
      /\ last' = c
  BY <1>1 DEF AppendOp, IsEmpty
<1>4. heap' = Spliced(chain, n + 1, c, element, heap)
  <2>1. CASE n = 0
    <3>1. heap' = New(c, ListElement(arrivals', 0), heap)
      BY <1>1, <2>1 DEF AppendOp, IsEmpty
    <3>2. QED
      BY <1>1, <2>1, <3>1 DEF New, ListElement, Spliced, Element
  <2>2. CASE n # 0
    <3>1. heap' = New(c, ListElement(arrivals', 0), [heap EXCEPT ![last].next = c])
      BY <1>1, <2>2 DEF AppendOp, IsEmpty
    <3>2. QED
      BY <1>1, <2>2, <3>1 DEF New, ListElement, Spliced, Element
  <2>3. QED
    BY <2>1, <2>2
<1>5. n + 1 \in 1 .. n + 1
  BY <1>1
<1>6. Linked(Placed(chain, n + 1, c), first', last', heap')
  <2>1. Linked(Placed(chain, n + 1, c), IF n + 1 = 1 THEN c ELSE first,
               IF n + 1 = n + 1 THEN c ELSE last, Spliced(chain, n + 1, c, element, heap))
    BY <1>2, <1>5, InsertLinks
  <2>2. QED
    BY <1>3, <1>4, <2>1
<1>7. Held(Placed(chain, n + 1, c), heap') = Placed(held, n + 1, element)
  BY <1>2, <1>4, <1>5, InsertHeld
<1>8. Placed(held, n + 1, element) = AppendItem(held, arrivals')
  <2>1. held \in Seq(Elements(Nat)) /\ Len(held) = n
    BY HeldShape
  <2> HIDE DEF held
  <2>2. AppendItem(held, arrivals') = Placed(held, Len(held) + 1, element)
    BY <1>2, <2>1, InsertionsPlace
  <2>3. QED
    BY <2>1, <2>2
<1>9. QED
  BY <1>6, <1>7, <1>8

LEMMA PrependLinks ==
  ASSUME NEW chain, Linked(chain, first, last, heap), arrivals \in Nat,
         NEW c \in Cells \ DOMAIN heap, PrependOp(c)
  PROVE  \E longer : /\ Linked(longer, first', last', heap')
                     /\ Held(longer, heap') = PrependItem(Held(chain, heap), arrivals')
<1> DEFINE n == Len(chain)
           element == Element(arrivals', 0)
           held == Held(chain, heap)
<1>1. /\ n \in Nat
      /\ first = IF n = 0 THEN NULL ELSE chain[1]
      /\ first = NULL <=> n = 0
  <2>1. /\ n \in Nat
        /\ chain # <<>> <=> n # 0
        /\ \A i \in 1 .. n : chain[i] # NULL
    BY ChainCells DEF NULL
  <2>2. QED
    BY <2>1 DEF Linked, FirstOf
<1>2. arrivals' \in Nat /\ element \in Elements(Nat)
  BY DEF PrependOp, Arrive, Element, Elements
<1>3. /\ first' = c
      /\ last' = IF 1 = n + 1 THEN c ELSE last
  BY <1>1 DEF PrependOp, IsEmpty
<1>4. heap' = Spliced(chain, 1, c, element, heap)
  <2>1. CASE n = 0
    <3>1. heap' = New(c, ListElement(arrivals', 0), heap)
      BY <1>1, <2>1 DEF PrependOp, IsEmpty
    <3>2. QED
      BY <1>1, <2>1, <3>1 DEF New, ListElement, Spliced, Element
  <2>2. CASE n # 0
    <3>1. heap' = New(c, [ListElement(arrivals', 0) EXCEPT !.next = first], heap)
      BY <1>1, <2>2 DEF PrependOp, IsEmpty
    <3>2. QED
      BY <1>1, <2>2, <3>1 DEF New, ListElement, Spliced, Element
  <2>3. QED
    BY <2>1, <2>2
<1>5. 1 \in 1 .. n + 1
  BY <1>1
<1>6. Linked(Placed(chain, 1, c), first', last', heap')
  <2>1. Linked(Placed(chain, 1, c), IF 1 = 1 THEN c ELSE first,
               IF 1 = n + 1 THEN c ELSE last, Spliced(chain, 1, c, element, heap))
    BY <1>2, <1>5, InsertLinks
  <2>2. QED
    BY <1>3, <1>4, <2>1
<1>7. Held(Placed(chain, 1, c), heap') = Placed(held, 1, element)
  BY <1>2, <1>4, <1>5, InsertHeld
<1>8. Placed(held, 1, element) = PrependItem(held, arrivals')
  <2>1. held \in Seq(Elements(Nat))
    BY HeldShape
  <2> HIDE DEF held
  <2>2. QED
    BY <1>2, <2>1, InsertionsPlace
<1>9. QED
  BY <1>6, <1>7, <1>8

\* The three ways SortedInsert places the cell: in front of the first one, after
\* the one its loop stops at, and after the last one.
LEMMA SortedInsertLinks ==
  ASSUME NEW chain, Linked(chain, first, last, heap), arrivals \in Nat,
         NEW c \in Cells \ DOMAIN heap, NEW key \in Int, SortedInsertOp(c, key)
  PROVE  \E longer : /\ Linked(longer, first', last', heap')
                     /\ Held(longer, heap')
                          = SortedInsert(Held(chain, heap), arrivals', key)
<1> DEFINE n == Len(chain)
           element == Element(arrivals', key)
           held == Held(chain, heap)
           p == Place(held, key)
<1>1. /\ n \in Nat
      /\ first = IF n = 0 THEN NULL ELSE chain[1]
      /\ first = NULL <=> n = 0
      /\ \A i \in 1 .. n : chain[i] \in DOMAIN heap /\ chain[i] # NULL
      /\ \A i \in 1 .. n : heap[chain[i]].next = Successor(chain, i)
      /\ n # 0 => last = chain[n] /\ heap[last].next = NULL
      /\ heap \in [DOMAIN heap -> Node]
  <2>1. /\ n \in Nat
        /\ chain # <<>> <=> n # 0
        /\ \A i \in 1 .. n : chain[i] \in DOMAIN heap /\ chain[i] # NULL
    BY ChainCells DEF NULL
  <2>2. /\ first = FirstOf(chain) /\ last = LastOf(chain)
        /\ \A i \in 1 .. n : heap[chain[i]].next = Successor(chain, i)
        /\ heap \in [DOMAIN heap -> Node]
    BY DEF Linked
  <2>3. n # 0 => heap[chain[n]].next = NULL
    BY <2>1, <2>2 DEF Successor
  <2>4. QED
    BY <2>1, <2>2, <2>3 DEF FirstOf, LastOf
<1>2. arrivals' \in Nat /\ element \in Elements(Nat)
  BY DEF SortedInsertOp, Arrive, Element, Elements
<1>3. /\ held \in Seq(Elements(Nat))
      /\ Len(held) = n
      /\ \A i \in 1 .. n : held[i].key = heap[chain[i]].key /\ heap[chain[i]].key \in Int
  BY HeldShape
<1>4. /\ p \in 1 .. n + 1
      /\ \A i \in 1 .. p - 1 : held[i].key <= key
      /\ p <= n => key < held[p].key
  <2> HIDE DEF held
  <2>1. /\ p \in 1 .. Len(held) + 1
        /\ \A i \in 1 .. p - 1 : held[i].key <= key
        /\ p <= Len(held) => key < held[p].key
    BY <1>3, PlaceProperties
  <2>2. QED
    BY <1>3, <2>1
<1>5. n # 0 => (p = 1 <=> key < heap[first].key)
  <2>1. n # 0 => 1 \in 1 .. n /\ held[1].key = heap[first].key /\ heap[first].key \in Int
    BY <1>1, <1>3
  <2>2. n # 0 /\ p # 1 => 1 \in 1 .. p - 1
    BY <1>1, <1>4
  <2>3. QED
    BY <1>1, <1>4, <2>1, <2>2
<1>6. n # 0 /\ p # 1 => InsertionPoint(key) = IF p <= n THEN chain[p - 1] ELSE NULL
  <2>1. p # 1 => p > 1
    BY <1>1, <1>4
  <2>2. QED
    BY <2>1, InsertionPointIs
<1>7. /\ first' = IF p = 1 THEN c ELSE first
      /\ last' = IF p = n + 1 THEN c ELSE last
      /\ heap' = Spliced(chain, p, c, element, heap)
  <2> HIDE DEF p, held
  <2>1. CASE n = 0
    <3>1. first' = c /\ last' = c /\ heap' = New(c, ListElement(arrivals', key), heap)
      BY <1>1, <2>1 DEF SortedInsertOp, IsEmpty
    <3>2. p = 1 /\ p = n + 1
      BY <1>4, <2>1
    <3>3. New(c, ListElement(arrivals', key), heap) = Spliced(chain, p, c, element, heap)
      BY <2>1, <3>2 DEF New, ListElement, Spliced, Element
    <3>4. QED
      BY <3>1, <3>2, <3>3
  <2>2. CASE n # 0 /\ p = 1
    <3>1. /\ first' = c /\ last' = last
          /\ heap' = New(c, [ListElement(arrivals', key) EXCEPT !.next = first], heap)
      BY <1>1, <1>5, <2>2 DEF SortedInsertOp, IsEmpty
    <3>2. New(c, [ListElement(arrivals', key) EXCEPT !.next = first], heap)
            = Spliced(chain, p, c, element, heap)
      BY <1>1, <2>2 DEF New, ListElement, Spliced, Element
    <3>3. QED
      BY <1>1, <2>2, <3>1, <3>2
  <2>3. CASE n # 0 /\ p # 1 /\ p <= n
    <3> DEFINE ptr == InsertionPoint(key)
    <3>1. /\ ptr = chain[p - 1] /\ ptr # NULL /\ ptr \in DOMAIN heap
          /\ p - 1 \in 1 .. n /\ p > 1
          /\ heap[ptr].next = chain[p]
      <4>1. p - 1 \in 1 .. n /\ p - 1 < n /\ p - 1 + 1 = p /\ p > 1
        BY <1>1, <1>4, <2>3
      <4>2. QED
        BY <1>1, <1>6, <2>3, <4>1 DEF Successor
    <3> HIDE DEF ptr
    <3>2. /\ first' = first /\ last' = last
          /\ heap' = New(c, [ListElement(arrivals', key) EXCEPT !.next = heap[ptr].next],
                         [heap EXCEPT ![ptr].next = c])
      BY <1>1, <1>5, <2>3, <3>1 DEF SortedInsertOp, IsEmpty, ptr
    <3>3. New(c, [ListElement(arrivals', key) EXCEPT !.next = heap[ptr].next],
              [heap EXCEPT ![ptr].next = c])
            = Spliced(chain, p, c, element, heap)
      BY <1>1, <2>3, <3>1 DEF New, ListElement, Spliced, Element
    <3>4. p # n + 1
      BY <1>1, <2>3, <3>1
    <3>5. QED
      BY <2>3, <3>2, <3>3, <3>4
  <2>4. CASE n # 0 /\ p # 1 /\ ~(p <= n)
    <3>1. p = n + 1 /\ p > 1 /\ p - 1 = n
      BY <1>1, <1>4, <2>4
    <3>2. /\ first' = first /\ last' = c
          /\ heap' = New(c, ListElement(arrivals', key), [heap EXCEPT ![last].next = c])
      BY <1>1, <1>5, <1>6, <2>4 DEF SortedInsertOp, IsEmpty
    <3>3. New(c, ListElement(arrivals', key), [heap EXCEPT ![last].next = c])
            = Spliced(chain, p, c, element, heap)
      BY <1>1, <2>4, <3>1 DEF New, ListElement, Spliced, Element
    <3>4. QED
      BY <2>4, <3>1, <3>2, <3>3
  <2>5. QED
    BY <2>1, <2>2, <2>3, <2>4
<1>8. Linked(Placed(chain, p, c), first', last', heap')
  <2> HIDE DEF p
  <2>1. Linked(Placed(chain, p, c), IF p = 1 THEN c ELSE first,
               IF p = n + 1 THEN c ELSE last, Spliced(chain, p, c, element, heap))
    BY <1>2, <1>4, InsertLinks
  <2>2. QED
    BY <1>7, <2>1
<1>9. Held(Placed(chain, p, c), heap') = Placed(held, p, element)
  <2> HIDE DEF p
  <2>1. QED
    BY <1>2, <1>4, <1>7, InsertHeld
<1>10. Placed(held, p, element) = SortedInsert(held, arrivals', key)
  <2> HIDE DEF held
  <2>1. QED
    BY <1>2, <1>3, InsertionsPlace
<1>11. QED
  BY <1>8, <1>9, <1>10

LEMMA SortedRemoveLinks ==
  ASSUME NEW chain, Linked(chain, first, last, heap), SortedRemove
  PROVE  \E rest : /\ Linked(rest, first', last', heap')
                   /\ LET held == Held(chain, heap)
                      IN  /\ removed' = IF held = <<>> THEN NULL ELSE Head(held).item
                          /\ Held(rest, heap') = IF held = <<>> THEN held ELSE Tail(held)
<1> DEFINE held == Held(chain, heap)
<1>1. first = NULL <=> chain = <<>>
  <2>1. chain # <<>> => 1 \in 1 .. Len(chain)
    BY ChainCells
  <2>2. chain # <<>> => chain[1] # NULL
    BY <2>1, ChainCells DEF NULL
  <2>3. QED
    BY <2>2 DEF Linked, FirstOf
<1>2. CASE chain = <<>>
  <2>1. held = <<>>
    <3>1. held \in Seq(Elements(Nat)) /\ Len(held) = Len(chain)
      BY HeldShape
    <3>2. Len(chain) = 0
      BY <1>2, ChainCells
    <3> HIDE DEF held
    <3>3. QED
      BY <3>1, <3>2, EmptySeq
  <2>2. first' = first /\ last' = last /\ heap' = heap /\ removed' = NULL
    BY <1>1, <1>2 DEF SortedRemove, IsEmpty
  <2>3. Linked(chain, first', last', heap') /\ Held(chain, heap') = held
    BY <2>2
  <2>4. QED
    BY <2>1, <2>2, <2>3
<1>3. CASE chain # <<>>
  <2>1. Linked(Tail(chain), heap[first].next, LastOf(Tail(chain)),
               Restrict(heap, DOMAIN heap \ {first}))
    BY <1>3, RemoveLinks
  <2>2. /\ Held(Tail(chain), Restrict(heap, DOMAIN heap \ {first})) = Tail(held)
        /\ held # <<>>
        /\ Head(held).item = heap[first].item
        /\ first = last => heap[first].next = NULL
        /\ LastOf(Tail(chain)) = IF first = last THEN NULL ELSE last
    BY <1>3, RemoveLinks
  <2>3. /\ removed' = heap[first].item
        /\ heap' = Restrict(heap, DOMAIN heap \ {first})
        /\ first' = heap[first].next
        /\ last' = LastOf(Tail(chain))
    BY <1>1, <1>3, <2>2 DEF SortedRemove, IsEmpty
  <2>4. Linked(Tail(chain), first', last', heap') /\ Held(Tail(chain), heap') = Tail(held)
    BY <2>1, <2>2, <2>3
  <2>5. QED
    BY <2>2, <2>3, <2>4
<1>4. QED
  BY <1>2, <1>3

-------------------------------------------------------------------------------
\* The inductive invariant.
LinkedInv ==
  /\ arrivals \in Nat
  /\ \E chain : Linked(chain, first, last, heap)

\* Module Queue takes its operators from another instance of SortedList.
LEMMA SameOperators ==
  ASSUME NEW list, NEW item, NEW key
  PROVE  /\ Abstract!AppendItem(list, item) = AppendItem(list, item)
         /\ Abstract!PrependItem(list, item) = PrependItem(list, item)
         /\ Abstract!SortedInsert(list, item, key) = SortedInsert(list, item, key)
<1>1. Abstract!Place(list, key) = Place(list, key)
  BY DEF Abstract!Place, Place
<1>2. \A k : Abstract!Element(item, k) = Element(item, k)
  BY DEF Abstract!Element, Element
<1>3. Abstract!AppendItem(list, item) = AppendItem(list, item)
  BY <1>2 DEF Abstract!AppendItem, AppendItem
<1>4. Abstract!PrependItem(list, item) = PrependItem(list, item)
  BY <1>2 DEF Abstract!PrependItem, PrependItem
<1>5. Abstract!SortedInsert(list, item, key) = SortedInsert(list, item, key)
  BY <1>1, <1>2 DEF Abstract!SortedInsert, SortedInsert, Abstract!InsertAt, InsertAt
<1>6. QED
  BY <1>3, <1>4, <1>5

\* The mapping: a chain's cells are the contents.
LEMMA ContentsIs ==
  ASSUME NEW chain, Linked(chain, first, last, heap)
  PROVE  Contents = Held(chain, heap)
  BY ReachedIs DEF Contents, Chain

LEMMA ContentsNext ==
  ASSUME NEW chain, Linked(chain, first', last', heap')
  PROVE  Contents' = Held(chain, heap')
  BY ReachedIs DEF Contents, Chain

LEMMA InitLinks ==
  ASSUME ListInit
  PROVE  LinkedInv /\ Contents = <<>>
<1>1. DOMAIN heap = {} /\ heap = <<>>
  BY DEF ListInit
<1>2. Linked(<<>>, first, last, heap)
  <2>1. <<>> \in Seq(DOMAIN heap) /\ Len(<<>>) = 0
    BY EmptySeq
  <2>2. heap \in [DOMAIN heap -> Node]
    BY <1>1
  <2>3. first = FirstOf(<<>>) /\ last = LastOf(<<>>)
    BY DEF ListInit, FirstOf, LastOf
  <2>4. 1 .. Len(<<>>) = {}
    BY <2>1
  <2>5. QED
    BY <1>1, <2>1, <2>2, <2>3, <2>4 DEF Linked
<1>3. Contents = <<>>
  <2>1. Contents = Held(<<>>, heap)
    BY <1>2, ContentsIs
  <2>2. Held(<<>>, heap) \in Seq(Elements(Nat)) /\ Len(Held(<<>>, heap)) = Len(<<>>)
    BY <1>2, HeldShape
  <2>3. Held(<<>>, heap) = <<>>
    BY <2>2, EmptySeq
  <2>4. QED
    BY <2>1, <2>3
<1>4. arrivals \in Nat
  BY DEF ListInit
<1>5. QED
  BY <1>2, <1>3, <1>4 DEF LinkedInv

\* An operation of the linked list keeps a chain and is the operation of Queue.
LEMMA StepLinks ==
  ASSUME LinkedInv, ListNext
  PROVE  LinkedInv' /\ Abstract!Next
<1>1. PICK chain : Linked(chain, first, last, heap)
  BY DEF LinkedInv
<1>2. Contents = Held(chain, heap)
  BY <1>1, ContentsIs
<1>3. arrivals \in Nat
  BY DEF LinkedInv
<1>4. ASSUME NEW c \in Cells \ DOMAIN heap, AppendOp(c)
      PROVE  LinkedInv' /\ Abstract!Next
  <2>1. PICK longer : /\ Linked(longer, first', last', heap')
                      /\ Held(longer, heap') = AppendItem(Held(chain, heap), arrivals')
    BY <1>1, <1>3, <1>4, AppendLinks
  <2>2. arrivals' \in Nat /\ Abstract!Arrive
    BY <1>3, <1>4 DEF AppendOp, Arrive, Abstract!Arrive
  <2>3. Contents' = Held(longer, heap')
    BY <2>1, ContentsNext
  <2>4. Contents' = Abstract!AppendItem(Contents, arrivals')
    BY <1>2, <2>1, <2>3, SameOperators
  <2>5. Abstract!AppendOp
    BY <2>2, <2>4 DEF Abstract!AppendOp
  <2>6. QED
    BY <2>1, <2>2, <2>5 DEF LinkedInv, Abstract!Next
<1>5. ASSUME NEW c \in Cells \ DOMAIN heap, PrependOp(c)
      PROVE  LinkedInv' /\ Abstract!Next
  <2>1. PICK longer : /\ Linked(longer, first', last', heap')
                      /\ Held(longer, heap') = PrependItem(Held(chain, heap), arrivals')
    BY <1>1, <1>3, <1>5, PrependLinks
  <2>2. arrivals' \in Nat /\ Abstract!Arrive
    BY <1>3, <1>5 DEF PrependOp, Arrive, Abstract!Arrive
  <2>3. Contents' = Held(longer, heap')
    BY <2>1, ContentsNext
  <2>4. Contents' = Abstract!PrependItem(Contents, arrivals')
    BY <1>2, <2>1, <2>3, SameOperators
  <2>5. Abstract!PrependOp
    BY <2>2, <2>4 DEF Abstract!PrependOp
  <2>6. QED
    BY <2>1, <2>2, <2>5 DEF LinkedInv, Abstract!Next
<1>6. ASSUME NEW c \in Cells \ DOMAIN heap, NEW key \in Keys, SortedInsertOp(c, key)
      PROVE  LinkedInv' /\ Abstract!Next
  <2>1. PICK longer : /\ Linked(longer, first', last', heap')
                      /\ Held(longer, heap')
                           = SortedInsert(Held(chain, heap), arrivals', key)
    <3>1. key \in Int
      BY ListAssumption
    <3>2. QED
      BY <1>1, <1>3, <1>6, <3>1, SortedInsertLinks
  <2>2. arrivals' \in Nat /\ Abstract!Arrive
    BY <1>3, <1>6 DEF SortedInsertOp, Arrive, Abstract!Arrive
  <2>3. Contents' = Held(longer, heap')
    BY <2>1, ContentsNext
  <2>4. Contents' = Abstract!SortedInsert(Contents, arrivals', key)
    BY <1>2, <2>1, <2>3, SameOperators
  <2>5. Abstract!SortedInsertOp(key)
    BY <2>2, <2>4 DEF Abstract!SortedInsertOp
  <2>6. QED
    BY <2>1, <2>2, <2>5 DEF LinkedInv, Abstract!Next
<1>7. ASSUME SortedRemove
      PROVE  LinkedInv' /\ Abstract!Next
  <2> DEFINE held == Held(chain, heap)
  <2>1. PICK rest :
          /\ Linked(rest, first', last', heap')
          /\ removed' = IF held = <<>> THEN NULL ELSE Head(held).item
          /\ Held(rest, heap') = IF held = <<>> THEN held ELSE Tail(held)
    BY <1>1, <1>7, SortedRemoveLinks
  <2>2. arrivals' = arrivals
    BY <1>7 DEF SortedRemove
  <2>3. Contents' = Held(rest, heap')
    BY <2>1, ContentsNext
  <2>4. Abstract!RemoveOp
    BY <1>2, <2>1, <2>2, <2>3 DEF Abstract!RemoveOp, NULL, Abstract!NULL
  <2>5. QED
    BY <1>3, <2>1, <2>2, <2>4 DEF LinkedInv, Abstract!Next
<1>8. QED
  BY <1>4, <1>5, <1>6, <1>7 DEF ListNext

LEMMA LinkedInvariant == ListSpec => []LinkedInv
<1>1. ListInit => LinkedInv
  BY InitLinks
<1>2. LinkedInv /\ [ListNext]_listVars => LinkedInv'
  <2> SUFFICES ASSUME LinkedInv, [ListNext]_listVars PROVE LinkedInv'
    OBVIOUS
  <2>1. CASE ListNext
    BY <2>1, StepLinks
  <2>2. CASE UNCHANGED listVars
    BY <2>2 DEF listVars, LinkedInv
  <2>3. QED
    BY <2>1, <2>2
<1>3. QED
  BY <1>1, <1>2, PTL DEF ListSpec

\* No sequence of Append, Prepend, SortedInsert and Remove leaks a cell, leaves
\* one on the list that is free, makes a cycle, or lets last point anywhere but
\* at the end (list.cc).
THEOREM ListStaysLinked == ListSpec => []WellLinked
<1>1. LinkedInv => WellLinked
  <2> SUFFICES ASSUME LinkedInv PROVE WellLinked
    OBVIOUS
  <2>1. PICK chain : Linked(chain, first, last, heap)
    BY DEF LinkedInv
  <2>2. Chain = chain
    BY <2>1, ReachedIs DEF Chain
  <2>3. /\ Len(chain) \in Nat
        /\ DOMAIN chain = 1 .. Len(chain)
        /\ \A i \in 1 .. Len(chain) : chain[i] \in DOMAIN heap
        /\ chain # <<>> <=> Len(chain) # 0
    BY <2>1, ChainCells
  <2>4. {chain[i] : i \in DOMAIN chain} = DOMAIN heap
    <3>1. \A c \in DOMAIN heap : \E i \in 1 .. Len(chain) : chain[i] = c
      BY <2>1 DEF Linked
    <3>2. QED
      BY <2>3, <3>1
  <2>5. \A i, j \in DOMAIN chain : i # j => chain[i] # chain[j]
    BY <2>1, <2>3 DEF Linked
  <2>6. chain = <<>> => first = NULL /\ last = NULL
    BY <2>1 DEF Linked, FirstOf, LastOf
  <2>7. chain # <<>> => last = chain[Len(chain)] /\ heap[last].next = NULL
    <3>1. \A i \in 1 .. Len(chain) : heap[chain[i]].next = Successor(chain, i)
      BY <2>1 DEF Linked
    <3>2. chain # <<>> => last = chain[Len(chain)]
      BY <2>1 DEF Linked, LastOf
    <3>3. QED
      BY <2>3, <3>1, <3>2 DEF Successor
  <2>8. QED
    BY <2>2, <2>4, <2>5, <2>6, <2>7 DEF WellLinked
<1>2. QED
  BY <1>1, LinkedInvariant, PTL

\* The pointer operations of list.cc compute the sequence operations the other
\* modules use for lists: a thread that is put on a wait list or on the ready
\* list is taken off in the order Queue says.
THEOREM ListImplementsQueue == ListSpec => ImplementsQueue
<1>1. ListInit => Abstract!Init
  BY InitLinks DEF ListInit, Abstract!Init, NULL, Abstract!NULL
<1>2. LinkedInv /\ [ListNext]_listVars => [Abstract!Next]_(Abstract!vars)
  <2> SUFFICES ASSUME LinkedInv, [ListNext]_listVars PROVE [Abstract!Next]_(Abstract!vars)
    OBVIOUS
  <2>1. CASE ListNext
    BY <2>1, StepLinks
  <2>2. CASE UNCHANGED listVars
    BY <2>2 DEF listVars, Abstract!vars, Contents, Chain
  <2>3. QED
    BY <2>1, <2>2
<1>3. QED
  BY <1>1, <1>2, LinkedInvariant, PTL DEF ListSpec, ImplementsQueue, Abstract!Spec
===============================================================================
