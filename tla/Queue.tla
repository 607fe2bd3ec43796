-------------------------------- MODULE Queue ---------------------------------
(***************************************************************************)
(* What threads/list.h promises: a list is a sequence of items; Append     *)
(* puts an item at its end, Prepend at its front, SortedInsert before the  *)
(* first larger key, and Remove takes the front item off.                  *)
(*                                                                         *)
(* Items are arrival numbers 1, 2, ...: the lists only copy pointers to    *)
(* them.  MaxArrivals bounds how many are ever inserted.                   *)
(***************************************************************************)
EXTENDS SortedList

CONSTANTS Keys,         \* the keys SortedInsert is called with
          MaxArrivals   \* bound: insertions of one behaviour

NULL == 0

VARIABLES list,      \* the sequence of elements
          arrivals,  \* how many items were ever inserted
          removed    \* what the last Remove returned
vars == <<list, arrivals, removed>>

Init == /\ list = <<>>
        /\ arrivals = 0
        /\ removed = NULL

Arrive == /\ arrivals < MaxArrivals
          /\ arrivals' = arrivals + 1
          /\ UNCHANGED removed

AppendOp == Arrive /\ list' = AppendItem(list, arrivals')

PrependOp == Arrive /\ list' = PrependItem(list, arrivals')

SortedInsertOp(key) == Arrive /\ list' = SortedInsert(list, arrivals', key)

RemoveOp == /\ removed' = IF list = <<>> THEN NULL ELSE Head(list).item
            /\ list' = IF list = <<>> THEN list ELSE Tail(list)
            /\ UNCHANGED arrivals

Next == \/ AppendOp
        \/ PrependOp
        \/ \E key \in Keys : SortedInsertOp(key)
        \/ RemoveOp

Spec == Init /\ [][Next]_vars
===============================================================================
