---------------------------- MODULE PrivateMemory -----------------------------
(***************************************************************************)
(* What virtual memory promises user programs: each has a memory of its    *)
(* own, which changes only when the program stores into it.  Paging does   *)
(* not show.  Of a byte that nothing set when the program started no more  *)
(* is promised than that it stays as it is once the program has stored     *)
(* into its page.                                                          *)
(***************************************************************************)
EXTENDS Sequences

CONSTANTS Processes, Pages, Offsets, Values,
          Unspecified,  \* stands for a byte that nothing has set
          Start,        \* the memories a program may start with
          Programs

VARIABLES memory,  \* of each program the promise is made to, its pages
          todo     \* the operations each program still has to do
vars == <<memory, todo>>

Without(T) == [u \in DOMAIN memory \ T |-> memory[u]]

Init == /\ \E t \in Processes, new \in Start : memory = [u \in {t} |-> new]
        /\ todo \in Programs

Begin(t) == /\ t \notin DOMAIN memory
            /\ \E new \in Start :
                 memory' = [u \in DOMAIN memory \cup {t} |->
                              IF u = t THEN new ELSE memory[u]]
            /\ UNCHANGED todo

Does(t, ops) == /\ todo[t] # <<>>
                /\ Head(todo[t]).op \in ops
                /\ todo' = [todo EXCEPT ![t] = Tail(@)]

\* What a page has after a byte of it was stored.
Stored(old, offset, value) ==
  {new \in [Offsets -> Values] :
     /\ new[offset] = value
     /\ \A c \in Offsets \ {offset} : old[c] # Unspecified => new[c] = old[c]}

\* (Nothing is promised to a program that has left.)
Store(t) ==
  LET op == Head(todo[t])
  IN /\ Does(t, {"store"})
     /\ IF t \in DOMAIN memory
        THEN \E new \in Stored(memory[t][op.page], op.offset, op.value) :
               memory' = [memory EXCEPT ![t][op.page] = new]
        ELSE UNCHANGED memory

Other(t) == Does(t, {"load", "exec"}) /\ UNCHANGED memory

Exit(t) == Does(t, {"exit"}) /\ memory' = Without({t})

\* Programs end by an exception, or are no longer promised anything.
Leave(T) == memory' = Without(T) /\ UNCHANGED todo

Next == \/ \E t \in Processes : Begin(t) \/ Store(t) \/ Other(t) \/ Exit(t)
        \/ \E T \in SUBSET Processes : Leave(T)

Spec == Init /\ [][Next]_vars
===============================================================================
