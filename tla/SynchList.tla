------------------------------- MODULE SynchList ------------------------------
(***************************************************************************)
(* The synchronized lists of threads/synchlist.cc: a list, a lock and a    *)
(* condition each.  The lock and the condition are those of Monitor.       *)
(*                                                                         *)
(* A step of a thread runs from one call of a synchronization primitive to *)
(* the next: in between it cannot lose the processor.  Module PostOffice   *)
(* has the threads that make these calls.                                  *)
(***************************************************************************)
EXTENDS Monitor, FiniteSets

CONSTANTS Threads,
          Lists

ASSUME SynchListAssumption ==
  /\ IsFiniteSet(Threads)
  /\ NoThread \notin Threads
  /\ Priority \in [Threads -> Int]

VARIABLES list,     \* the items
          pc,       \* "out"; "in": has the lock; "waiting": in Wait; "leaving": to Release
          todo,     \* the calls each thread still has to make
          got,      \* the items each thread has removed
          removed   \* the items removed from each list, in order
listVars == <<owner, waitList, list, got, removed>>

NULL == [none |-> TRUE]

SynchListInit == /\ list = [l \in Lists |-> <<>>]
                 /\ got = [t \in Threads |-> <<>>]
                 /\ removed = [l \in Lists |-> <<>>]

AppendTo(l, item) == [op |-> "Append", list |-> l, item |-> item]
RemoveFrom(l) == [op |-> "Remove", list |-> l]
MapcarOn(l) == [op |-> "Mapcar", list |-> l]

\* Thread t is about to make, or in, a call on list l.
Calling(t, op, l) == /\ todo[t] # <<>>
                     /\ Head(todo[t]).op = op
                     /\ Head(todo[t]).list = l

Goto(t, place) == pc' = [pc EXCEPT ![t] = place]

Return(t) == todo' = [todo EXCEPT ![t] = Tail(@)]

-------------------------------------------------------------------------------
\* Append, Remove and Mapcar begin with lock->Acquire.
Enter(t, l) == /\ pc[t] = "out"
               /\ \E op \in {"Append", "Remove", "Mapcar"} : Calling(t, op, l)
               /\ Acquire(t, l)
               /\ Goto(t, "in")
               /\ UNCHANGED <<list, todo, got, removed>>

\* Slip: only an append to an empty list signals.
AppendSignalsFirst(t, l) ==
  /\ pc[t] = "in" /\ Calling(t, "Append", l)
  /\ list' = [list EXCEPT ![l] = Append(@, Head(todo[t]).item)]
  /\ IF list[l] = <<>> THEN Signal(t, l, l) ELSE UNCHANGED <<owner, waitList>>
  /\ Goto(t, "leaving")
  /\ UNCHANGED <<todo, got, removed>>

AppendItemAndSignal(t, l) ==
  /\ pc[t] = "in" /\ Calling(t, "Append", l)
  /\ list' = [list EXCEPT ![l] = Append(@, Head(todo[t]).item)]
  /\ Signal(t, l, l)
  /\ Goto(t, "leaving")
  /\ UNCHANGED <<todo, got, removed>>

Leave(t, l) == /\ \/ pc[t] = "leaving" /\ Calling(t, "Append", l)
                  \/ pc[t] = "in" /\ Calling(t, "Mapcar", l)
               /\ Release(t, l)
               /\ Goto(t, "out")
               /\ Return(t)
               /\ UNCHANGED <<list, got, removed>>

WaitForItem(t, l) ==
  /\ pc[t] = "in" /\ Calling(t, "Remove", l)
  /\ list[l] = <<>>
  /\ Wait(t, l, l)
  /\ Goto(t, "waiting")
  /\ UNCHANGED <<list, todo, got, removed>>

\* Slip: an if in the place of the while; the list may be empty after Wait.
WaitReturnsOnce(t, l) ==
  /\ pc[t] = "waiting" /\ Calling(t, "Remove", l)
  /\ ReturnFromWait(t, l, l)
  /\ IF list[l] = <<>>
     THEN /\ Goto(t, "out")
          /\ Return(t)
          /\ got' = [got EXCEPT ![t] = Append(@, NULL)]
     ELSE Goto(t, "in") /\ UNCHANGED <<todo, got>>
  /\ UNCHANGED <<list, removed>>

\* Wait returns, and the loop tests the list again.
WaitReturns(t, l) ==
  /\ pc[t] = "waiting" /\ Calling(t, "Remove", l)
  /\ ReturnFromWait(t, l, l)
  /\ Goto(t, "in")
  /\ UNCHANGED <<list, todo, got, removed>>

\* list->Remove, the assertion, lock->Release.
RemoveItem(t, l) ==
  /\ pc[t] = "in" /\ Calling(t, "Remove", l)
  /\ list[l] # <<>>
  /\ got' = [got EXCEPT ![t] = Append(@, Head(list[l]))]
  /\ removed' = [removed EXCEPT ![l] = Append(@, Head(list[l]))]
  /\ list' = [list EXCEPT ![l] = Tail(@)]
  /\ Release(t, l)
  /\ Goto(t, "out")
  /\ Return(t)

ListStep(t, l) == \/ Enter(t, l) \/ AppendItemAndSignal(t, l) \/ Leave(t, l)
                  \/ WaitForItem(t, l) \/ WaitReturns(t, l) \/ RemoveItem(t, l)
-------------------------------------------------------------------------------
\* The threads about to look at the list: those that were signalled, and the
\* one in Remove that has the lock.
Takers(l) == {t \in Threads : /\ Calling(t, "Remove", l)
                              /\ \/ pc[t] = "waiting" /\ t \notin Items(waitList[l])
                                 \/ pc[t] = "in"}

\* While threads wait, each item on the list has a thread coming for it:
\* Append's one Signal is enough even when other threads take items in front
\* of the waiters.  Remove never returns without an item.
ItemsHaveTakers ==
  /\ \A l \in Lists : waitList[l] # <<>> => Len(list[l]) <= Cardinality(Takers(l))
  /\ \A t \in Threads : NULL \notin Range(got[t])

\* At rest a thread waits in Remove only on an empty list.
ListRested(t) ==
  \A l \in Lists : Calling(t, "Remove", l) => pc[t] = "waiting" /\ list[l] = <<>>
===============================================================================
