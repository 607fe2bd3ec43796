--------------------------------- MODULE List ---------------------------------
(***************************************************************************)
(* The singly linked list of threads/list.cc: cells on the heap, a first   *)
(* and a last pointer.  Every wait list, the ready list and the pending    *)
(* interrupts of Nachos are objects of this class.  The module shows that  *)
(* it implements Queue, whose operators the other modules use for lists.   *)
(***************************************************************************)
EXTENDS Integers, Sequences, FiniteSets, Functions

CONSTANTS Cells,        \* heap cells a ListElement can be allocated in
          Keys,         \* the keys SortedInsert is called with
          MaxArrivals   \* bound: insertions of one behaviour

ASSUME ListAssumption == /\ Cells \subseteq Nat \ {0}
                         /\ IsFiniteSet(Cells)
                         /\ Keys \subseteq Int
                         /\ MaxArrivals \in Nat

NULL == 0

VARIABLES first, last,  \* pointers to cells, or NULL
          heap,         \* the ListElement in each allocated cell
          arrivals,     \* how many items were ever inserted
          removed       \* what the last Remove returned
listVars == <<first, last, heap, arrivals, removed>>

-------------------------------------------------------------------------------
\* The cells reached from ptr, in order.  walk follows the next pointers for
\* as many steps as there are cells, so it ends on a cycle too.
Reached(ptr, cells) ==
  LET walk[n \in 1 .. Cardinality(Cells)] ==
        IF n = 1 THEN ptr
        ELSE IF walk[n - 1] \notin DOMAIN cells THEN NULL
        ELSE cells[walk[n - 1]].next
  IN  Restrict(walk, {n \in DOMAIN walk : walk[n] # NULL})

Chain == Reached(first, heap)

ListElement(item, sortKey) == [item |-> item, key |-> sortKey, next |-> NULL]

\* The heap with one more element.
New(c, element, cells) ==
  [x \in DOMAIN cells \cup {c} |-> IF x = c THEN element ELSE cells[x]]

ListInit == /\ first = NULL
            /\ last = NULL
            /\ heap = <<>>
            /\ arrivals = 0
            /\ removed = NULL

IsEmpty == first = NULL

Arrive == /\ arrivals < MaxArrivals
          /\ arrivals' = arrivals + 1
          /\ UNCHANGED removed

AppendOp(c) ==
  /\ Arrive
  /\ last' = c
  /\ \/ /\ IsEmpty
        /\ first' = c
        /\ heap' = New(c, ListElement(arrivals', 0), heap)
     \/ /\ ~IsEmpty
        /\ heap' = New(c, ListElement(arrivals', 0), [heap EXCEPT ![last].next = c])
        /\ UNCHANGED first

PrependOp(c) ==
  /\ Arrive
  /\ first' = c
  /\ \/ /\ IsEmpty
        /\ last' = c
        /\ heap' = New(c, ListElement(arrivals', 0), heap)
     \/ /\ ~IsEmpty
        /\ heap' = New(c, [ListElement(arrivals', 0) EXCEPT !.next = first], heap)
        /\ UNCHANGED last

\* Slip: an equal key goes in front of the ones there.
InsertionPointUnstable(sortKey) ==
  LET ok(p) == heap[p].next # NULL /\ sortKey <= heap[heap[p].next].key
      at == {i \in DOMAIN Chain : ok(Chain[i])}
  IN  IF at = {} THEN NULL ELSE Chain[CHOOSE i \in at : \A j \in at : i <= j]

\* The loop's ptr: the first cell of the chain whose successor has a larger
\* key; NULL when the loop runs off the end of the list.
InsertionPoint(sortKey) ==
  LET ok(p) == heap[p].next # NULL /\ sortKey < heap[heap[p].next].key
      at == {i \in DOMAIN Chain : ok(Chain[i])}
  IN  IF at = {} THEN NULL ELSE Chain[CHOOSE i \in at : \A j \in at : i <= j]

SortedInsertOp(c, sortKey) ==
  LET element == ListElement(arrivals', sortKey)
      ptr == InsertionPoint(sortKey)
  IN
  /\ Arrive
  /\ \/ /\ IsEmpty
        /\ first' = c /\ last' = c
        /\ heap' = New(c, element, heap)
     \/ /\ ~IsEmpty /\ sortKey < heap[first].key
        /\ first' = c
        /\ heap' = New(c, [element EXCEPT !.next = first], heap)
        /\ UNCHANGED last
     \/ /\ ~IsEmpty /\ ~(sortKey < heap[first].key) /\ ptr # NULL
        /\ heap' = New(c, [element EXCEPT !.next = heap[ptr].next],
                       [heap EXCEPT ![ptr].next = c])
        /\ UNCHANGED <<first, last>>
     \/ /\ ~IsEmpty /\ ~(sortKey < heap[first].key) /\ ptr = NULL
        /\ last' = c
        /\ heap' = New(c, element, [heap EXCEPT ![last].next = c])
        /\ UNCHANGED first

\* Slip: the single-element test leaves last behind.
SortedRemoveKeepsLast ==
  /\ UNCHANGED arrivals
  /\ \/ /\ IsEmpty
        /\ removed' = NULL
        /\ UNCHANGED <<first, last, heap>>
     \/ /\ ~IsEmpty
        /\ removed' = heap[first].item
        /\ first' = heap[first].next
        /\ heap' = Restrict(heap, DOMAIN heap \ {first})
        /\ UNCHANGED last

SortedRemove ==
  /\ UNCHANGED arrivals
  /\ \/ /\ IsEmpty
        /\ removed' = NULL
        /\ UNCHANGED <<first, last, heap>>
     \/ /\ ~IsEmpty
        /\ removed' = heap[first].item
        /\ heap' = Restrict(heap, DOMAIN heap \ {first})
        /\ \/ first = last /\ first' = NULL /\ last' = NULL
           \/ first # last /\ first' = heap[first].next /\ UNCHANGED last

ListNext == \/ \E c \in Cells \ DOMAIN heap :
                 \/ AppendOp(c)
                 \/ PrependOp(c)
                 \/ \E key \in Keys : SortedInsertOp(c, key)
            \/ SortedRemove

ListSpec == ListInit /\ [][ListNext]_listVars
-------------------------------------------------------------------------------
\* Shape: first and last are the ends of the chain, the chain visits each
\* allocated cell once, and its last cell has no successor.  A cell that is
\* allocated off the chain is a leak, a free cell on it a dangling pointer.
WellLinked ==
  /\ \A i, j \in DOMAIN Chain : i # j => Chain[i] # Chain[j]
  /\ {Chain[i] : i \in DOMAIN Chain} = DOMAIN heap
  /\ Chain = <<>> => first = NULL /\ last = NULL
  /\ Chain # <<>> => /\ last = Chain[Len(Chain)]
                     /\ heap[last].next = NULL

\* The sequence of elements that the cells of a chain hold.
Held(chain, cells) ==
  [i \in DOMAIN chain |-> [item |-> cells[chain[i]].item, key |-> cells[chain[i]].key]]

Contents == Held(Chain, heap)

\* The pointer operations compute the sequence operations.
Abstract == INSTANCE Queue WITH list <- Contents

\* Every step of the linked list is the step of the sequence it stands for; in
\* particular SortedInsert keeps the order of arrival among equal keys.
ImplementsQueue == Abstract!Spec
===============================================================================
