-------------------------- MODULE AbstractSemaphore ---------------------------
(***************************************************************************)
(* What threads/synch.h promises of a semaphore: P() waits until value > 0 *)
(* and decrements it, V() increments it, and both are atomic.              *)
(***************************************************************************)
EXTENDS Integers, Sequences

CONSTANTS Threads, InitialValue, Programs

VARIABLES value,  \* never negative
          todo    \* the calls each thread still has to make
vars == <<value, todo>>

Init == value = InitialValue /\ todo \in [Threads -> Programs]

Call(t, op) == /\ todo[t] # <<>>
               /\ Head(todo[t]) = op
               /\ todo' = [todo EXCEPT ![t] = Tail(@)]

P(t) == Call(t, "P") /\ value > 0 /\ value' = value - 1

V(t) == Call(t, "V") /\ value' = value + 1

Next == \E t \in Threads : P(t) \/ V(t)

Spec == Init /\ [][Next]_vars
===============================================================================
