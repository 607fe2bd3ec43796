------------------------------ MODULE SortedList ------------------------------
(***************************************************************************)
(* The lists of threads/list.cc as values.  A list is a sequence of        *)
(* elements, each the item it carries and the key it was inserted with.    *)
(* The key is copied when the element is made, so a thread whose priority  *)
(* changes while it is queued keeps the place its old priority gave it.    *)
(*                                                                         *)
(* Module List shows that the linked list of the code, with its first,     *)
(* last and next pointers, computes these operators.                       *)
(***************************************************************************)
EXTENDS Integers, Sequences, SequencesExt

Element(item, key) == [item |-> item, key |-> key]

\* The items on a list.
Items(list) == {list[i].item : i \in DOMAIN list}

\* The elements a list of these items can be made of.
Elements(S) == [item : S, key : Int]

\* Increasing keys: what SortedInsert is meant to maintain.
Sorted(list) ==
  \A i, j \in DOMAIN list : i < j => list[i].key <= list[j].key

\* No item is on the list twice.
Distinct(list) ==
  \A i, j \in DOMAIN list : i # j => list[i].item # list[j].item

\* Where SortedInsert puts a new element: before the first element with a
\* larger key, at the end when there is none.
Place(list, key) ==
  IF \E i \in DOMAIN list : key < list[i].key
  THEN CHOOSE i \in DOMAIN list :
         /\ key < list[i].key
         /\ \A j \in 1 .. i - 1 : list[j].key <= key
  ELSE Len(list) + 1

SortedInsert(list, item, key) ==
  InsertAt(list, Place(list, key), Element(item, key))

AppendItem(list, item) == Append(list, Element(item, 0))

PrependItem(list, item) == <<Element(item, 0)>> \o list
===============================================================================
