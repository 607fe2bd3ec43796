-------------------------- MODULE VirtualMemoryProof ---------------------------
(***************************************************************************)
(* Proofs about demand paging, for all processes, programs and sizes.      *)
(***************************************************************************)
EXTENDS VirtualMemory, TLAPS, WellFoundedInduction

\* An Exec between its calls has a thread of its own to start.
ChildMade ==
  \A t \in Threads :
    pc[t] \in {"execTable", "execStore"} =>
      /\ child[t] \in Threads
      /\ pc[child[t]] = "made"
      /\ \A u \in Threads :
           pc[u] \in {"execTable", "execStore"} /\ child[u] = child[t] => u = t

\* Every process that was started has its backing store open.
FileOpen == \A t \in Threads : pc[t] \notin {"unborn", "made"} => file[t] \in Threads

\* Only pages in memory, in a frame, are dirty.
DirtyHasFrame ==
  \A t \in Threads, p \in Pages :
    pageTable[t][p].dirty => Resident(t, p) /\ pageTable[t][p].physicalPage # NoFrame

\* The page the handler is loading is not in memory, the victim no longer is,
\* and the page ~AddrSpace frees next is.
Handled ==
  \A t \in Threads :
    /\ pc[t] \in {"alloc", "evict", "free", "realloc", "load"} =>
         page[t] \in Pages /\ ~Resident(t, page[t])
    /\ pc[t] = "free" => ~Resident(t, victim[t])
    /\ pc[t] = "exitFree" => page[t] \in Pages /\ Resident(t, page[t])

Local == TypeOK /\ ChildMade /\ FileOpen /\ DirtyHasFrame /\ Handled

Inv == Local /\ FramesExclusive /\ NoFrameLost
-------------------------------------------------------------------------------
(* Choices of the least.                                                   *)

LEMMA LeastExists ==
  ASSUME NEW S \in SUBSET Nat, S # {}
  PROVE  \E x \in S : \A y \in S : x <= y
<1> DEFINE R == OpToRel(<, Nat)
<1>1. IsWellFoundedOn(R, Nat)
  BY NatLessThanWellFounded
<1>2. PICK x \in S : \A y \in S : ~(<<y, x>> \in R)
  BY <1>1, WFMin
<1>3. \A y \in S : ~(y < x)
  BY <1>2 DEF OpToRel
<1>4. QED
  BY <1>3

LEMMA FirstFreeIsFree ==
  ASSUME Free # {}
  PROVE  FirstFree \in Frames /\ FirstFree \notin bitMap
<1>1. Free \in SUBSET Nat
  BY VirtualMemoryAssumption DEF Free, Frames
<1>2. \E f \in Free : \A g \in Free : f <= g
  BY <1>1, LeastExists
<1>3. FirstFree \in Free
  BY <1>2 DEF FirstFree
<1>4. QED
  BY <1>3 DEF Free

LEMMA FirstSlotIsFree ==
  ASSUME ProcessTypes, FreeSlots # {}
  PROVE  FirstSlot \in 0 .. TableSize - 1
<1>1. FreeSlots \in SUBSET (0 .. TableSize - 1)
  BY DEF FreeSlots, ProcessTypes
<1>2. FreeSlots \in SUBSET Nat
  BY <1>1, VirtualMemoryAssumption
<1>3. \E i \in FreeSlots : \A j \in FreeSlots : i <= j
  BY <1>2, LeastExists
<1>4. FirstSlot \in FreeSlots
  BY <1>3 DEF FirstSlot
<1>5. QED
  BY <1>1, <1>4

\* The loop of ~AddrSpace finds the next page in memory and passes none over.
LEMMA NextResidentIsNext ==
  ASSUME NEW t \in Threads, NEW i \in Nat
  PROVE  LET n == NextResident(t, i)
         IN  /\ n \in 0 .. NumPages
             /\ n # NumPages => n \in Pages /\ n >= i /\ Resident(t, n)
             /\ \A p \in Pages : p >= i /\ Resident(t, p) => p >= n
<1> DEFINE left == {p \in Pages : p >= i /\ Resident(t, p)} \cup {NumPages}
<1>1. left \in SUBSET Nat /\ left # {}
  BY VirtualMemoryAssumption DEF Pages
<1>2. \E p \in left : \A q \in left : p <= q
  BY <1>1, LeastExists
<1>3. /\ NextResident(t, i) \in left
      /\ \A q \in left : NextResident(t, i) <= q
  BY <1>2 DEF NextResident
<1>4. Pages \subseteq Nat /\ NumPages \in Nat
  BY VirtualMemoryAssumption DEF Pages
<1>5. QED
  BY <1>3, <1>4 DEF Pages
-------------------------------------------------------------------------------
(* How the steps of one thread leave the rest.                             *)

LEMMA UnchangedTypes ==
  /\ ProcessTypes /\ UNCHANGED processes => ProcessTypes'
  /\ PagingTypes /\ UNCHANGED paging => PagingTypes'
  /\ StoreTypes /\ UNCHANGED stores => StoreTypes'
<1>1. ProcessTypes /\ UNCHANGED processes => ProcessTypes'
  BY DEF ProcessTypes, processes
<1>2. PagingTypes /\ UNCHANGED paging => PagingTypes'
  BY DEF PagingTypes, paging
<1>3. StoreTypes /\ UNCHANGED stores => StoreTypes'
  BY DEF StoreTypes, stores
<1>4. QED
  BY <1>1, <1>2, <1>3

LEMMA LockPlaces ==
  DOMAIN LockOf = {"execTable", "exitTest", "exitTable", "alloc", "free", "realloc", "exitFree"}
BY DEF LockOf

\* A thread that is in no lock goes on.
LEMMA GotoTypes ==
  ASSUME ControlTypes, NEW t \in Threads, NEW next \in Places,
         pc[t] \notin DOMAIN LockOf,
         pc' = [pc EXCEPT ![t] = next],
         todo' \in [Threads -> Seq(Operations)],
         UNCHANGED <<state, held, inside>>
  PROVE  ControlTypes'
<1>1. pc' \in [Threads -> Places]
  BY DEF ControlTypes
<1>2. inside' \in SUBSET {u \in Threads : pc'[u] \in DOMAIN LockOf}
  BY DEF ControlTypes
<1>3. QED
  BY <1>1, <1>2 DEF ControlTypes

\* A thread returns from a call of the table or of the memory manager.
LEMMA LeaveTypes ==
  ASSUME ControlTypes, NEW t \in Threads, NEW place \in DOMAIN LockOf, NEW next \in Places,
         Leave(t, place, next),
         state' \in {state, "halted"},
         UNCHANGED todo
  PROVE  ControlTypes' /\ pc[t] = place /\ pc' = [pc EXCEPT ![t] = next]
<1>1. pc[t] = place /\ pc' = [pc EXCEPT ![t] = next]
  BY DEF Leave, At, Goto
<1>2. pc' \in [Threads -> Places]
  BY <1>1 DEF ControlTypes
<1>3. inside' \in SUBSET {u \in Threads : pc'[u] \in DOMAIN LockOf}
  BY <1>1 DEF ControlTypes, Leave
<1>4. held' \in [{"table", "memory"} -> {"", "main", "new thread"}]
  BY DEF ControlTypes, Leave
<1>5. state' \in {"on", "halted", "aborted", "spinning"}
  BY DEF ControlTypes
<1>6. QED
  BY <1>1, <1>2, <1>3, <1>4, <1>5 DEF ControlTypes

\* A thread other than the parents of Exec and their children goes on.
LEMMA GotoKeepsChildren ==
  ASSUME ControlTypes, ChildMade, FileOpen, NEW t \in Threads, NEW next,
         pc[t] \notin {"unborn", "made", "execTable", "execStore"},
         next \notin {"unborn", "made", "execTable", "execStore"},
         pc' = [pc EXCEPT ![t] = next],
         UNCHANGED <<child, file>>
  PROVE  ChildMade' /\ FileOpen'
<1>1. \A u \in Threads : pc'[u] = IF u = t THEN next ELSE pc[u]
  BY DEF ControlTypes
<1>2. ChildMade'
  BY <1>1 DEF ChildMade
<1>3. FileOpen'
  BY <1>1 DEF FileOpen
<1>4. QED
  BY <1>2, <1>3

\* What the steps of thread t have to establish of its own pages.
LEMMA HandledKept ==
  ASSUME ControlTypes, DirtyHasFrame, Handled, NEW t \in Threads, NEW next,
         pc' = [pc EXCEPT ![t] = next],
         \A u \in Threads \ {t} :
           page'[u] = page[u] /\ victim'[u] = victim[u] /\ pageTable'[u] = pageTable[u],
         next \in {"alloc", "evict", "free", "realloc", "load"} =>
           page'[t] \in Pages /\ ~pageTable'[t][page'[t]].valid,
         next = "free" => ~pageTable'[t][victim'[t]].valid,
         next = "exitFree" => page'[t] \in Pages /\ pageTable'[t][page'[t]].valid,
         \A p \in Pages : pageTable'[t][p].dirty =>
           pageTable'[t][p].valid /\ pageTable'[t][p].physicalPage # NoFrame
  PROVE  DirtyHasFrame' /\ Handled'
<1>1. \A u \in Threads : pc'[u] = IF u = t THEN next ELSE pc[u]
  BY DEF ControlTypes
<1>2. DirtyHasFrame'
  BY <1>1 DEF DirtyHasFrame, Resident
<1>3. Handled'
  BY <1>1 DEF Handled, Resident
<1>4. QED
  BY <1>2, <1>3

LEMMA EntryTypes ==
  ASSUME PagingTypes, NEW t \in Threads, NEW p \in Pages
  PROVE  /\ pageTable[t][p] \in Entries
         /\ pageTable[t][p].physicalPage \in Frames \cup {NoFrame}
         /\ pageTable[t][p].valid \in BOOLEAN
         /\ pageTable[t][p].dirty \in BOOLEAN
<1>1. pageTable[t][p] \in Entries
  BY DEF PagingTypes
<1>2. QED
  BY <1>1 DEF Entries

-------------------------------------------------------------------------------
(* The types and the local invariants.                                     *)

LEMMA InitLocal ==
  ASSUME Init
  PROVE  Local
<1>1. ControlTypes
  <2>1. todo \in [Threads -> Seq(Operations)]
    BY VirtualMemoryAssumption DEF Init
  <2>2. pc \in [Threads -> Places]
    BY DEF Init, Places
  <2>3. QED
    BY <2>1, <2>2 DEF Init, ControlTypes
<1>2. ProcessTypes
  <2>1. allocated \in [0 .. TableSize - 1 -> Threads \cup {NoThread}]
    BY VirtualMemoryAssumption DEF Init
  <2>2. 0 \in -1 .. TableSize - 1 /\ -1 \in -1 .. TableSize - 1
    BY VirtualMemoryAssumption
  <2>3. spaceid \in [Threads -> -1 .. TableSize - 1]
    BY <2>2 DEF Init
  <2>4. child \in [Threads -> Threads \cup {NoThread}]
    BY DEF Init
  <2>5. QED
    BY <2>1, <2>3, <2>4 DEF ProcessTypes
<1>3. PagingTypes
  <2>1. Emptied \in [Pages -> Entries]
    BY DEF Emptied, Entries
  <2>2. 0 \in Pages
    BY VirtualMemoryAssumption DEF Pages
  <2>3. mainMemory \in [Frames -> Contents]
    BY VirtualMemoryAssumption DEF Init, Contents
  <2>4. 0 \in 0 .. NumPages
    BY VirtualMemoryAssumption
  <2>5. QED
    BY <2>1, <2>2, <2>3, <2>4 DEF Init, PagingTypes
<1>4. StoreTypes
  <2>1. ASSUME NEW b \in StaleArrays
        PROVE  b \in [Pages -> BOOLEAN]
    BY VirtualMemoryAssumption
  <2>2. inStore \in [Threads -> [Pages -> BOOLEAN]]
    <3>1. PICK b \in StaleArrays :
            inStore = [t \in Threads |-> IF t = First THEN b ELSE [p \in Pages |-> FALSE]]
      BY DEF Init
    <3>2. b \in [Pages -> BOOLEAN]
      BY <2>1
    <3>3. QED
      BY <3>1, <3>2
  <2>3. QED
    BY <2>2, VirtualMemoryAssumption DEF Init, StoreTypes
<1>5. ChildMade /\ FileOpen
  BY DEF Init, ChildMade, FileOpen
<1>6. DirtyHasFrame /\ Handled
  <2>1. \A t \in Threads, p \in Pages : ~pageTable[t][p].dirty
    BY DEF Init, Emptied
  <2>2. QED
    BY <2>1 DEF Init, DirtyHasFrame, Handled
<1>7. QED
  BY <1>1, <1>2, <1>3, <1>4, <1>5, <1>6 DEF Local, TypeOK

\* The next operation of a program.
LEMMA DoesTypes ==
  ASSUME ControlTypes, NEW t \in Threads, todo[t] # <<>>
  PROVE  /\ Head(todo[t]).page \in Pages
         /\ Head(todo[t]).offset \in Offsets
         /\ Head(todo[t]).value \in Values
         /\ [todo EXCEPT ![t] = Tail(@)] \in [Threads -> Seq(Operations)]
<1>1. todo \in [Threads -> Seq(Operations)]
  BY DEF ControlTypes
<1>2. Head(todo[t]) \in Operations /\ Tail(todo[t]) \in Seq(Operations)
  BY <1>1
<1>3. QED
  BY <1>1, <1>2 DEF Operations

\* Steps of user code that do not leave it.
LEMMA AccessLocal ==
  ASSUME Local, NEW t \in Threads, ReadMem(t) \/ WriteMem(t)
  PROVE  Local'
<1> DEFINE p == Head(todo[t]).page
<1>1. /\ ControlTypes /\ ProcessTypes /\ PagingTypes /\ StoreTypes
      /\ ChildMade /\ FileOpen /\ DirtyHasFrame /\ Handled
  BY DEF Local, TypeOK
<1>2. /\ todo[t] # <<>>
      /\ todo' = [todo EXCEPT ![t] = Tail(@)]
      /\ Resident(t, p)
      /\ pageTable[t][p].physicalPage # NoFrame
      /\ UNCHANGED <<state, pc, held, inside>>
      /\ UNCHANGED processes /\ UNCHANGED stores
  BY DEF ReadMem, WriteMem, Does
<1>3. /\ p \in Pages /\ Head(todo[t]).offset \in Offsets /\ Head(todo[t]).value \in Values
      /\ todo' \in [Threads -> Seq(Operations)]
  BY <1>1, <1>2, DoesTypes
<1>4. ControlTypes' /\ ProcessTypes' /\ StoreTypes'
  BY <1>1, <1>2, <1>3, UnchangedTypes DEF ControlTypes
<1>5. ChildMade' /\ FileOpen'
  BY <1>1, <1>2 DEF ChildMade, FileOpen, processes, stores
<1>6. PagingTypes' /\ DirtyHasFrame' /\ Handled'
  <2>1. CASE ReadMem(t)
    <3>1. UNCHANGED paging
      BY <2>1 DEF ReadMem
    <3>2. QED
      BY <1>1, <1>2, <3>1, UnchangedTypes DEF paging, DirtyHasFrame, Handled, Resident
  <2>2. CASE WriteMem(t)
    <3> DEFINE f == pageTable[t][p].physicalPage
               e == [pageTable[t][p] EXCEPT !.dirty = TRUE]
    <3>1. f \in Frames /\ pageTable[t][p] \in Entries
      BY <1>1, <1>2, <1>3, EntryTypes
    <3>2. /\ e \in Entries
          /\ e.valid = pageTable[t][p].valid
          /\ e.physicalPage = f
      BY <3>1 DEF Entries
    <3>3. pageTable' = [pageTable EXCEPT ![t][p] = e]
      BY <2>2 DEF WriteMem
    <3> HIDE DEF e
    <3>4. /\ pageTable' \in [Threads -> [Pages -> Entries]]
          /\ pageTable'[t][p] = e
          /\ \A q \in Pages \ {p} : pageTable'[t][q] = pageTable[t][q]
          /\ \A u \in Threads \ {t} : pageTable'[u] = pageTable[u]
      <4>1. pageTable \in [Threads -> [Pages -> Entries]]
        BY <1>1 DEF PagingTypes
      <4>2. QED
        BY <1>3, <3>2, <3>3, <4>1, SMTT(30)
    <3>5. mainMemory' \in [Frames -> Contents] /\ UNCHANGED <<page, victim, bitMap>>
      BY <1>1, <1>3, <2>2, <3>1 DEF WriteMem, PagingTypes, Contents
    <3>6. PagingTypes'
      BY <1>1, <3>4, <3>5 DEF PagingTypes
    <3>7. \A u \in Threads, q \in Pages : pageTable'[u][q].valid = pageTable[u][q].valid
      BY <3>2, <3>4
    <3>8. DirtyHasFrame'
      <4>1. ASSUME NEW u \in Threads, NEW q \in Pages, ~(u = t /\ q = p)
            PROVE  pageTable'[u][q] = pageTable[u][q]
        BY <3>4, <4>1
      <4>2. pageTable'[t][p].valid /\ pageTable'[t][p].physicalPage # NoFrame
        BY <1>2, <3>2, <3>4 DEF Resident
      <4>3. SUFFICES ASSUME NEW u \in Threads, NEW q \in Pages, pageTable'[u][q].dirty
                     PROVE  pageTable'[u][q].valid /\ pageTable'[u][q].physicalPage # NoFrame
        BY DEF DirtyHasFrame, Resident
      <4>4. CASE u = t /\ q = p
        BY <4>2, <4>4
      <4>5. CASE ~(u = t /\ q = p)
        BY <1>1, <4>1, <4>3, <4>5 DEF DirtyHasFrame, Resident
      <4>6. QED
        BY <4>4, <4>5
    <3>9. Handled'
      <4>1. pc' = pc /\ page' = page /\ victim' = victim
        BY <1>2, <3>5, <2>2 DEF WriteMem
      <4>2. QED
        BY <1>1, <3>7, <4>1, SMTT(30) DEF Handled, Resident, PagingTypes
    <3>10. QED
      BY <3>6, <3>8, <3>9
  <2>3. QED
    BY <2>1, <2>2
<1>7. QED
  BY <1>4, <1>5, <1>6 DEF Local, TypeOK
\* Steps from user code into the kernel.
LEMMA TrapLocal ==
  ASSUME Local, NEW t \in Threads, Fault(t) \/ BusError(t) \/ Exit(t)
  PROVE  Local'
<1>1. /\ ControlTypes /\ ProcessTypes /\ PagingTypes /\ StoreTypes
      /\ ChildMade /\ FileOpen /\ DirtyHasFrame /\ Handled
  BY DEF Local, TypeOK
<1>2. /\ pc[t] = "user" /\ todo[t] # <<>>
      /\ UNCHANGED processes /\ UNCHANGED stores
      /\ UNCHANGED <<state, held, inside, victim, pageTable, bitMap, mainMemory>>
      /\ todo' \in {todo, [todo EXCEPT ![t] = Tail(@)]}
  BY DEF Fault, BusError, Exit, Does, At, paging
<1>3. /\ Head(todo[t]).page \in Pages
      /\ todo' \in [Threads -> Seq(Operations)]
      /\ Pages \subseteq 0 .. NumPages
  <2>1. Pages \subseteq 0 .. NumPages
    BY VirtualMemoryAssumption DEF Pages
  <2>2. QED
    BY <1>1, <1>2, <2>1, DoesTypes DEF ControlTypes
<1>4. PICK next \in {"alloc", "exitTest"} :
        /\ pc' = [pc EXCEPT ![t] = next]
        /\ next = "alloc" => /\ page' = [page EXCEPT ![t] = Head(todo[t]).page]
                            /\ ~Resident(t, Head(todo[t]).page)
        /\ next = "exitTest" => UNCHANGED page
  BY DEF Fault, BusError, Exit, Goto, paging
<1>5. next \in Places
  BY LockPlaces DEF Places
<1>6. ControlTypes'
  BY <1>1, <1>2, <1>3, <1>4, <1>5, GotoTypes, LockPlaces
<1>7. page' \in [Threads -> 0 .. NumPages]
  BY <1>1, <1>3, <1>4 DEF PagingTypes
<1>8. PagingTypes' /\ ProcessTypes' /\ StoreTypes'
  BY <1>1, <1>2, <1>7, UnchangedTypes DEF PagingTypes
<1>9. ChildMade' /\ FileOpen'
  <2>1. UNCHANGED <<child, file>>
    BY <1>2 DEF processes, stores
  <2>2. QED
    BY <1>1, <1>2, <1>4, <2>1, GotoKeepsChildren
<1>10. DirtyHasFrame' /\ Handled'
  <2>1. /\ \A u \in Threads \ {t} : page'[u] = page[u]
        /\ next = "alloc" => page'[t] = Head(todo[t]).page
    BY <1>1, <1>4 DEF PagingTypes
  <2>2. next = "alloc" => page'[t] \in Pages /\ ~pageTable'[t][page'[t]].valid
    BY <1>2, <1>3, <1>4, <2>1 DEF Resident
  <2>3. \A p \in Pages : pageTable'[t][p].dirty =>
          pageTable'[t][p].valid /\ pageTable'[t][p].physicalPage # NoFrame
    BY <1>1, <1>2 DEF DirtyHasFrame, Resident
  <2>4. QED
    BY <1>1, <1>2, <1>4, <2>1, <2>2, <2>3, HandledKept
<1>11. QED
  BY <1>6, <1>8, <1>9, <1>10 DEF Local, TypeOK

\* Steps that only take a lock or stop the machine.
LEMMA LockLocal ==
  ASSUME Local, NEW t \in Threads,
         Enter(t) \/ LeaveFails(t) \/ ClearFails(t) \/ EvictSpins(t)
  PROVE  Local'
<1>1. /\ ControlTypes /\ ProcessTypes /\ PagingTypes /\ StoreTypes
      /\ ChildMade /\ FileOpen /\ DirtyHasFrame /\ Handled
  BY DEF Local, TypeOK
<1>2. /\ UNCHANGED <<todo, pc>> /\ UNCHANGED processes /\ UNCHANGED paging /\ UNCHANGED stores
      /\ state' \in {state, "aborted", "spinning"}
  BY DEF Enter, LeaveFails, ClearFails, EvictSpins
<1>3. /\ held' \in [{"table", "memory"} -> {"", "main", "new thread"}]
      /\ inside' \in SUBSET {u \in Threads : pc[u] \in DOMAIN LockOf}
  BY <1>1 DEF Enter, LeaveFails, ClearFails, EvictSpins, ControlTypes, Name
<1>4. ControlTypes'
  BY <1>1, <1>2, <1>3 DEF ControlTypes
<1>5. ProcessTypes' /\ PagingTypes' /\ StoreTypes'
  BY <1>1, <1>2, UnchangedTypes
<1>6. ChildMade' /\ FileOpen' /\ DirtyHasFrame' /\ Handled'
  BY <1>1, <1>2 DEF ChildMade, FileOpen, DirtyHasFrame, Handled, Resident, processes, paging,
                    stores
<1>7. QED
  BY <1>4, <1>5, <1>6 DEF Local, TypeOK

\* AllocPage gives the faulted page a frame nobody has, or none.
LEMMA AllocLocal ==
  ASSUME Local, NEW t \in Threads, FirstAlloc(t) \/ SecondAlloc(t)
  PROVE  Local'
<1>1. /\ ControlTypes /\ ProcessTypes /\ PagingTypes /\ StoreTypes
      /\ ChildMade /\ FileOpen /\ DirtyHasFrame /\ Handled
  BY DEF Local, TypeOK
<1>2. PICK place \in {"alloc", "realloc"}, next \in {"evict", "load"} : Leave(t, place, next)
  BY DEF FirstAlloc, SecondAlloc
<1>3. AllocPage(t)
  BY DEF FirstAlloc, SecondAlloc
<1>4. /\ UNCHANGED <<state, todo, page, victim, mainMemory>>
      /\ UNCHANGED processes /\ UNCHANGED stores
  BY <1>3 DEF AllocPage
<1>5. place \in DOMAIN LockOf /\ next \in Places
  BY LockPlaces DEF Places
<1>6. ControlTypes' /\ pc[t] = place /\ pc' = [pc EXCEPT ![t] = next]
  BY <1>1, <1>2, <1>4, <1>5, LeaveTypes
<1>7. page[t] \in Pages /\ ~pageTable[t][page[t]].valid
  BY <1>1, <1>6 DEF Handled, Resident
<1>8. PICK f \in Frames \cup {NoFrame} :
        /\ pageTable' = [pageTable EXCEPT ![t][page[t]].physicalPage = f]
        /\ bitMap' \in {bitMap, bitMap \cup {f}}
        /\ f = NoFrame => UNCHANGED bitMap
  <2>1. CASE Free = {}
    BY <1>3, <2>1 DEF AllocPage
  <2>2. CASE Free # {}
    <3>1. FirstFree \in Frames /\ FirstFree # NoFrame
      BY <2>2, FirstFreeIsFree DEF Frames, NoFrame
    <3>2. QED
      BY <1>3, <2>2, <3>1 DEF AllocPage
  <2>3. QED
    BY <2>1, <2>2
<1> DEFINE e == [pageTable[t][page[t]] EXCEPT !.physicalPage = f]
<1>9. pageTable[t][page[t]] \in Entries
  BY <1>1, <1>7, EntryTypes
<1>10. e \in Entries /\ e.valid = pageTable[t][page[t]].valid
                     /\ e.dirty = pageTable[t][page[t]].dirty
  BY <1>8, <1>9 DEF Entries
<1>11. pageTable' = [pageTable EXCEPT ![t][page[t]] = e]
  BY <1>8
<1> HIDE DEF e
<1>12. /\ pageTable' \in [Threads -> [Pages -> Entries]]
       /\ pageTable'[t][page[t]] = e
       /\ \A q \in Pages \ {page[t]} : pageTable'[t][q] = pageTable[t][q]
       /\ \A u \in Threads \ {t} : pageTable'[u] = pageTable[u]
  <2>1. pageTable \in [Threads -> [Pages -> Entries]]
    BY <1>1 DEF PagingTypes
  <2>2. QED
    BY <1>7, <1>10, <1>11, <2>1, SMTT(30)
<1>13. bitMap' \in SUBSET Frames
  BY <1>1, <1>8 DEF PagingTypes
<1>14. PagingTypes' /\ ProcessTypes' /\ StoreTypes'
  BY <1>1, <1>4, <1>12, <1>13, UnchangedTypes DEF PagingTypes
<1>15. ChildMade' /\ FileOpen'
  <2>1. UNCHANGED <<child, file>>
    BY <1>4 DEF processes, stores
  <2>2. QED
    BY <1>1, <1>6, <2>1, GotoKeepsChildren
<1>16. DirtyHasFrame' /\ Handled'
  <2>1. ~e.valid /\ ~e.dirty
    BY <1>1, <1>7, <1>10 DEF DirtyHasFrame, Resident
  <2>2. \A p \in Pages : pageTable'[t][p].dirty =>
          pageTable'[t][p].valid /\ pageTable'[t][p].physicalPage # NoFrame
    BY <1>1, <1>12, <2>1 DEF DirtyHasFrame, Resident
  <2>3. QED
    BY <1>1, <1>4, <1>6, <1>7, <1>12, <2>1, <2>2, HandledKept
<1>17. QED
  BY <1>6, <1>14, <1>15, <1>16 DEF Local, TypeOK
\* The victim leaves memory clean.
LEMMA EvictLocal ==
  ASSUME Local, NEW t \in Threads, Evict(t)
  PROVE  Local'
<1>1. /\ ControlTypes /\ ProcessTypes /\ PagingTypes /\ StoreTypes
      /\ ChildMade /\ FileOpen /\ DirtyHasFrame /\ Handled
  BY DEF Local, TypeOK
<1>2. PICK v \in Pages :
        /\ Resident(t, v)
        /\ IF pageTable[t][v].dirty
           THEN /\ disk' = [disk EXCEPT ![file[t]][v] = mainMemory[pageTable[t][v].physicalPage]]
                /\ inStore' = [inStore EXCEPT ![t][v] = TRUE]
           ELSE UNCHANGED <<disk, inStore>>
        /\ victim' = [victim EXCEPT ![t] = v]
        /\ pageTable' = [pageTable EXCEPT ![t][v].valid = FALSE, ![t][v].dirty = FALSE]
  BY DEF Evict
<1>3. /\ pc[t] = "evict" /\ pc' = [pc EXCEPT ![t] = "free"]
      /\ UNCHANGED <<state, todo, held, inside, page, bitMap, mainMemory, file, directory>>
      /\ UNCHANGED processes
  BY DEF Evict, At, Goto
<1>4. todo' \in [Threads -> Seq(Operations)]
  BY <1>1, <1>3 DEF ControlTypes
<1>5. "free" \in Places /\ "evict" \notin DOMAIN LockOf
  BY LockPlaces DEF Places
<1>6. ControlTypes'
  BY <1>1, <1>3, <1>4, <1>5, GotoTypes
<1>7. page[t] \in Pages /\ ~pageTable[t][page[t]].valid
  BY <1>1, <1>3 DEF Handled, Resident
<1> DEFINE e == [pageTable[t][v] EXCEPT !.valid = FALSE, !.dirty = FALSE]
<1>8. pageTable[t][v] \in Entries
  BY <1>1, EntryTypes
<1>9. e \in Entries /\ ~e.valid /\ ~e.dirty
  BY <1>8 DEF Entries
<1>10. pageTable' = [pageTable EXCEPT ![t][v] = e]
  BY <1>1, <1>2, <1>8 DEF PagingTypes, Entries
<1> HIDE DEF e
<1>11. /\ pageTable' \in [Threads -> [Pages -> Entries]]
       /\ pageTable'[t][v] = e
       /\ \A q \in Pages \ {v} : pageTable'[t][q] = pageTable[t][q]
       /\ \A u \in Threads \ {t} : pageTable'[u] = pageTable[u]
  <2>1. pageTable \in [Threads -> [Pages -> Entries]]
    BY <1>1 DEF PagingTypes
  <2>2. QED
    BY <1>9, <1>10, <2>1, SMTT(30)
<1>12. victim' \in [Threads -> Pages] /\ victim'[t] = v
       /\ \A u \in Threads \ {t} : victim'[u] = victim[u]
  BY <1>1, <1>2 DEF PagingTypes
<1>13. PagingTypes' /\ ProcessTypes'
  BY <1>1, <1>3, <1>11, <1>12, UnchangedTypes DEF PagingTypes
<1>14. StoreTypes'
  <2>1. CASE pageTable[t][v].dirty
    <3>1. pageTable[t][v].physicalPage \in Frames
      BY <1>1, <2>1, EntryTypes DEF DirtyHasFrame
    <3>2. mainMemory[pageTable[t][v].physicalPage] \in Contents \cup {Hole}
      BY <1>1, <3>1 DEF PagingTypes
    <3>3. disk' \in [Threads -> [Pages -> Contents \cup {Hole}]]
      <4>1. file[t] \in Threads /\ disk \in [Threads -> [Pages -> Contents \cup {Hole}]]
        BY <1>1, <1>3 DEF FileOpen, StoreTypes
      <4>2. \A x \in Contents \cup {Hole} :
              [disk EXCEPT ![file[t]][v] = x] \in [Threads -> [Pages -> Contents \cup {Hole}]]
        BY <4>1
      <4>3. QED
        BY <1>2, <2>1, <3>2, <4>2
    <3>4. inStore' \in [Threads -> [Pages -> BOOLEAN]]
      <4>1. inStore \in [Threads -> [Pages -> BOOLEAN]]
        BY <1>1 DEF StoreTypes
      <4>2. [inStore EXCEPT ![t][v] = TRUE] \in [Threads -> [Pages -> BOOLEAN]]
        BY <4>1
      <4>3. QED
        BY <1>2, <2>1, <4>2
    <3>5. QED
      BY <1>1, <1>3, <3>3, <3>4 DEF StoreTypes
  <2>2. CASE ~pageTable[t][v].dirty
    BY <1>1, <1>2, <1>3, <2>2 DEF StoreTypes
  <2>3. QED
    BY <2>1, <2>2
<1>15. ChildMade' /\ FileOpen'
  <2>1. UNCHANGED <<child, file>>
    BY <1>3 DEF processes
  <2>2. QED
    BY <1>1, <1>3, <2>1, GotoKeepsChildren
<1>16. DirtyHasFrame' /\ Handled'
  <2>1. ~pageTable'[t][page'[t]].valid
    BY <1>3, <1>7, <1>9, <1>11
  <2>2. \A p \in Pages : pageTable'[t][p].dirty =>
          pageTable'[t][p].valid /\ pageTable'[t][p].physicalPage # NoFrame
    BY <1>1, <1>9, <1>11 DEF DirtyHasFrame, Resident
  <2>3. QED
    BY <1>1, <1>3, <1>7, <1>9, <1>11, <1>12, <2>1, <2>2, HandledKept
<1>17. QED
  BY <1>6, <1>13, <1>14, <1>15, <1>16 DEF Local, TypeOK

\* A frame is given back.
LEMMA FreeLocal ==
  ASSUME Local, NEW t \in Threads, FreeVictim(t) \/ ExitFree(t)
  PROVE  Local'
<1>1. /\ ControlTypes /\ ProcessTypes /\ PagingTypes /\ StoreTypes
      /\ ChildMade /\ FileOpen /\ DirtyHasFrame /\ Handled
  BY DEF Local, TypeOK
<1>2. /\ UNCHANGED <<state, todo, victim, pageTable, mainMemory>>
      /\ UNCHANGED processes /\ UNCHANGED stores
      /\ bitMap' \subseteq bitMap
  BY DEF FreeVictim, ExitFree
<1>3. PICK place \in {"free", "exitFree"}, next \in {"realloc", "exitFree", "exitDone"} :
        /\ Leave(t, place, next)
        /\ place = "free" => next = "realloc" /\ UNCHANGED page
        /\ place = "exitFree" =>
             /\ next = Freeing(NextResident(t, page[t] + 1))
             /\ page' = [page EXCEPT ![t] = NextResident(t, page[t] + 1)]
  BY DEF FreeVictim, ExitFree, Freeing
<1>4. place \in DOMAIN LockOf /\ next \in Places
  BY LockPlaces DEF Places
<1>5. ControlTypes' /\ pc[t] = place /\ pc' = [pc EXCEPT ![t] = next]
  BY <1>1, <1>2, <1>3, <1>4, LeaveTypes
<1>6. place = "exitFree" =>
        LET n == NextResident(t, page[t] + 1)
        IN  n \in 0 .. NumPages /\ (n # NumPages => n \in Pages /\ Resident(t, n))
  <2>1. place = "exitFree" => page[t] + 1 \in Nat
    BY <1>1, <1>5 DEF Handled, Pages
  <2>2. QED
    BY <2>1, NextResidentIsNext
<1>7. page' \in [Threads -> 0 .. NumPages] /\ \A u \in Threads \ {t} : page'[u] = page[u]
  BY <1>1, <1>3, <1>6 DEF PagingTypes
<1>8. PagingTypes' /\ ProcessTypes' /\ StoreTypes'
  BY <1>1, <1>2, <1>7, UnchangedTypes DEF PagingTypes
<1>9. ChildMade' /\ FileOpen'
  <2>1. UNCHANGED <<child, file>>
    BY <1>2 DEF processes, stores
  <2>2. QED
    BY <1>1, <1>5, <2>1, GotoKeepsChildren
<1>10. DirtyHasFrame' /\ Handled'
  <2>1. next = "realloc" => page'[t] \in Pages /\ ~pageTable'[t][page'[t]].valid
    BY <1>1, <1>2, <1>3, <1>5 DEF Handled, Resident, Freeing
  <2>2. next = "exitFree" => page'[t] \in Pages /\ pageTable'[t][page'[t]].valid
    BY <1>1, <1>2, <1>3, <1>6 DEF Resident, Freeing, PagingTypes
  <2>3. \A p \in Pages : pageTable'[t][p].dirty =>
          pageTable'[t][p].valid /\ pageTable'[t][p].physicalPage # NoFrame
    BY <1>1, <1>2 DEF DirtyHasFrame, Resident
  <2>4. QED
    BY <1>1, <1>2, <1>5, <1>7, <2>1, <2>2, <2>3, HandledKept
<1>11. QED
  BY <1>5, <1>8, <1>9, <1>10 DEF Local, TypeOK
-------------------------------------------------------------------------------
(* What comes into a frame.                                                *)

LEMMA LoadedFits ==
  ASSUME NEW p \in Pages
  PROVE  \A c \in Offsets : c \in DOMAIN Loaded[p] => Loaded[p][c] \in Values
<1>1. Zero \in Values /\ \A i \in 1 .. Len(Executable) : Executable[i] \in Values
  BY VirtualMemoryAssumption
<1>2. CASE \A s \in Segments : p \notin PagesOf(s)
  <2>1. Loaded[p] = [c \in Offsets |-> Zero]
    BY <1>2, Zenon DEF Loaded
  <2>2. QED
    BY <1>1, <2>1
<1>3. CASE ~\A s \in Segments : p \notin PagesOf(s)
  <2> DEFINE Segment(c) == IF c \in Given("initData", p) THEN "initData" ELSE "code"
  <2>1. Loaded[p] = [c \in Given("code", p) \cup Given("initData", p) |->
                       Executable[1 + Position(Segment(c), p, c)]]
    BY <1>3, Zenon DEF Loaded
  <2>2. SUFFICES ASSUME NEW c \in DOMAIN Loaded[p]
                 PROVE  Loaded[p][c] \in Values
    OBVIOUS
  <2>3. c \in Given(Segment(c), p)
    BY <2>1, <2>2
  <2>4. Position(Segment(c), p, c) \in 0 .. Len(Executable) - 1
    BY <2>3 DEF Given
  <2>5. Loaded[p][c] = Executable[1 + Position(Segment(c), p, c)]
    BY <2>1, <2>2
  <2> HIDE DEF Segment
  <2>6. Len(Executable) \in Nat
    BY VirtualMemoryAssumption
  <2>7. 1 + Position(Segment(c), p, c) \in 1 .. Len(Executable)
    BY <2>4, <2>6
  <2>8. QED
    BY <1>1, <2>5, <2>7
<1>4. QED
  BY <1>2, <1>3

LEMMA BytesFit ==
  ASSUME StoreTypes, NEW t \in Threads, NEW p \in Pages, file[t] \in Threads,
         NEW bytes, bytes = IF inStore[t][p] THEN Reloaded(file[t], p) ELSE Loaded[p]
  PROVE  \A c \in Offsets : c \in DOMAIN bytes => bytes[c] \in Values
<1>1. CASE ~inStore[t][p]
  BY <1>1, LoadedFits
<1>2. CASE inStore[t][p]
  <2>1. disk[file[t]][p] \in Contents \cup {Hole} /\ bytes = Reloaded(file[t], p)
    BY <1>2 DEF StoreTypes
  <2>2. CASE disk[file[t]][p] # Hole
    BY <2>1, <2>2 DEF Reloaded, Contents
  <2>3. CASE disk[file[t]][p] = Hole
    <3>1. bytes = [c \in Offsets |-> Zero] \/ bytes = Nothing
      BY <2>1, <2>3, Zenon DEF Reloaded
    <3>2. QED
      BY <3>1, VirtualMemoryAssumption DEF Nothing
  <2>4. QED
    BY <2>2, <2>3
<1>3. QED
  BY <1>1, <1>2

LEMMA OverTypes ==
  ASSUME NEW bytes, NEW old \in Contents,
         \A c \in Offsets : c \in DOMAIN bytes => bytes[c] \in Values
  PROVE  Over(bytes, old) \in Contents
BY DEF Over, Contents

\* The page comes into memory clean.
LEMMA PageInLocal ==
  ASSUME Local, NEW t \in Threads, PageIn(t)
  PROVE  Local'
<1> DEFINE p == page[t]
           f == pageTable[t][p].physicalPage
<1>1. /\ ControlTypes /\ ProcessTypes /\ PagingTypes /\ StoreTypes
      /\ ChildMade /\ FileOpen /\ DirtyHasFrame /\ Handled
  BY DEF Local, TypeOK
<1>2. /\ pc[t] = "load" /\ pc' = [pc EXCEPT ![t] = "user"]
      /\ pageTable' = [pageTable EXCEPT ![t][p].valid = TRUE]
      /\ page' = [page EXCEPT ![t] = 0]
      /\ victim' = [victim EXCEPT ![t] = 0]
      /\ UNCHANGED <<state, todo, held, inside, bitMap>>
      /\ UNCHANGED processes /\ UNCHANGED stores
  BY DEF PageIn, At, Goto
<1>3. p \in Pages /\ ~pageTable[t][p].valid /\ file[t] \in Threads
  BY <1>1, <1>2 DEF Handled, Resident, FileOpen
<1>4. todo' \in [Threads -> Seq(Operations)]
  BY <1>1, <1>2 DEF ControlTypes
<1>5. "user" \in Places /\ "load" \notin DOMAIN LockOf
  BY LockPlaces DEF Places
<1>6. ControlTypes'
  BY <1>1, <1>2, <1>4, <1>5, GotoTypes
<1> DEFINE e == [pageTable[t][p] EXCEPT !.valid = TRUE]
<1>7. pageTable[t][p] \in Entries /\ f \in Frames \cup {NoFrame}
  BY <1>1, <1>3, EntryTypes
<1>8. ~pageTable[t][p].dirty
  BY <1>1, <1>3 DEF DirtyHasFrame, Resident
<1>9. e \in Entries /\ e.valid /\ ~e.dirty
  BY <1>7, <1>8 DEF Entries
<1>10. pageTable' = [pageTable EXCEPT ![t][p] = e]
  BY <1>2
<1> HIDE DEF e
<1>11. /\ pageTable' \in [Threads -> [Pages -> Entries]]
       /\ pageTable'[t][p] = e
       /\ \A q \in Pages \ {p} : pageTable'[t][q] = pageTable[t][q]
       /\ \A u \in Threads \ {t} : pageTable'[u] = pageTable[u]
  <2>1. pageTable \in [Threads -> [Pages -> Entries]]
    BY <1>1 DEF PagingTypes
  <2>2. QED
    BY <1>3, <1>9, <1>10, <2>1, SMTT(30)
<1>12. mainMemory' \in [Frames -> Contents]
  <2>1. CASE f = NoFrame
    BY <1>1, <2>1 DEF PageIn, PagingTypes
  <2>2. CASE f # NoFrame
    <3>1. f \in Frames /\ mainMemory[f] \in Contents
      BY <1>1, <1>7, <2>2 DEF PagingTypes
    <3>2. PICK x \in Contents : mainMemory' = [mainMemory EXCEPT ![f] = x]
      BY <1>1, <1>3, <2>2, <3>1, BytesFit, OverTypes DEF PageIn
    <3>3. QED
      BY <1>1, <3>2 DEF PagingTypes
  <2>3. QED
    BY <2>1, <2>2
<1>13. /\ page' \in [Threads -> 0 .. NumPages]
       /\ victim' \in [Threads -> Pages]
       /\ \A u \in Threads \ {t} : page'[u] = page[u] /\ victim'[u] = victim[u]
  <2>1. 0 \in 0 .. NumPages /\ 0 \in Pages
    BY VirtualMemoryAssumption DEF Pages
  <2>2. QED
    BY <1>1, <1>2, <2>1 DEF PagingTypes
<1>14. PagingTypes' /\ ProcessTypes' /\ StoreTypes'
  BY <1>1, <1>2, <1>11, <1>12, <1>13, UnchangedTypes DEF PagingTypes
<1>15. ChildMade' /\ FileOpen'
  <2>1. UNCHANGED <<child, file>>
    BY <1>2 DEF processes, stores
  <2>2. QED
    BY <1>1, <1>2, <2>1, GotoKeepsChildren
<1>16. DirtyHasFrame' /\ Handled'
  <2>1. \A q \in Pages : pageTable'[t][q].dirty =>
          pageTable'[t][q].valid /\ pageTable'[t][q].physicalPage # NoFrame
    BY <1>1, <1>9, <1>11 DEF DirtyHasFrame, Resident
  <2>2. QED
    BY <1>1, <1>2, <1>11, <1>13, <2>1, HandledKept
<1>17. QED
  BY <1>6, <1>14, <1>15, <1>16 DEF Local, TypeOK

\* Exec takes a thread that nobody else has.
LEMMA ExecLocal ==
  ASSUME Local, NEW t \in Threads, Exec(t)
  PROVE  Local'
<1>1. /\ ControlTypes /\ ProcessTypes /\ PagingTypes /\ StoreTypes
      /\ ChildMade /\ FileOpen /\ DirtyHasFrame /\ Handled
  BY DEF Local, TypeOK
<1> DEFINE c == CHOOSE c \in Threads : pc[c] = "unborn"
<1>2. /\ \E u \in Threads : pc[u] = "unborn"
      /\ child' = [child EXCEPT ![t] = c]
      /\ pc' = [pc EXCEPT ![t] = "execTable", ![c] = "made"]
      /\ pc[t] = "user" /\ todo[t] # <<>>
      /\ todo' = [todo EXCEPT ![t] = Tail(@)]
      /\ UNCHANGED <<state, held, inside, spaceid, allocated>>
      /\ UNCHANGED paging /\ UNCHANGED stores
  BY DEF Exec, Does, At
<1>3. c \in Threads /\ pc[c] = "unborn"
  BY <1>2
<1> HIDE DEF c
<1>4. /\ child' \in [Threads -> Threads \cup {NoThread}]
      /\ child'[t] = c /\ \A u \in Threads \ {t} : child'[u] = child[u]
  BY <1>1, <1>2, <1>3 DEF ProcessTypes
<1>5. /\ pc'[t] = "execTable" /\ pc'[c] = "made"
      /\ \A u \in Threads \ {t, c} : pc'[u] = pc[u]
      /\ pc' \in [Threads -> Places]
  BY <1>1, <1>2, <1>3, LockPlaces DEF ControlTypes, Places
<1>6. ControlTypes'
  <2>1. todo' \in [Threads -> Seq(Operations)]
    BY <1>1, <1>2, DoesTypes
  <2>2. inside' \in SUBSET {u \in Threads : pc'[u] \in DOMAIN LockOf}
    BY <1>1, <1>2, <1>3, <1>5, LockPlaces DEF ControlTypes
  <2>3. QED
    BY <1>1, <1>2, <1>5, <2>1, <2>2 DEF ControlTypes
<1>7. ProcessTypes' /\ PagingTypes' /\ StoreTypes'
  BY <1>1, <1>2, <1>4, UnchangedTypes DEF ProcessTypes
<1>8. ChildMade'
  BY <1>1, <1>2, <1>3, <1>4, <1>5 DEF ChildMade
<1>9. FileOpen'
  BY <1>1, <1>2, <1>3, <1>5 DEF FileOpen, stores
<1>10. DirtyHasFrame' /\ Handled'
  BY <1>1, <1>2, <1>3, <1>5 DEF DirtyHasFrame, Handled, Resident, paging
<1>11. QED
  BY <1>6, <1>7, <1>8, <1>9, <1>10 DEF Local, TypeOK

\* The table gives an id.
LEMMA ExecTableLocal ==
  ASSUME Local, NEW t \in Threads, ExecTable(t)
  PROVE  Local'
<1>1. /\ ControlTypes /\ ProcessTypes /\ PagingTypes /\ StoreTypes
      /\ ChildMade /\ FileOpen /\ DirtyHasFrame /\ Handled
  BY DEF Local, TypeOK
<1>2. /\ Leave(t, "execTable", "execStore")
      /\ UNCHANGED <<state, todo, child>> /\ UNCHANGED paging /\ UNCHANGED stores
  BY DEF ExecTable
<1>3. "execTable" \in DOMAIN LockOf /\ "execStore" \in Places
  BY LockPlaces DEF Places
<1>4. ControlTypes' /\ pc[t] = "execTable" /\ pc' = [pc EXCEPT ![t] = "execStore"]
  BY <1>1, <1>2, <1>3, LeaveTypes
<1>5. \A u \in Threads : pc'[u] = IF u = t THEN "execStore" ELSE pc[u]
  BY <1>1, <1>4 DEF ControlTypes
<1>6. child[t] \in Threads
  BY <1>1, <1>4 DEF ChildMade
<1>7. ProcessTypes'
  <2>1. CASE FreeSlots = {}
    <3>1. -1 \in -1 .. TableSize - 1
      BY VirtualMemoryAssumption
    <3>2. QED
      BY <1>1, <1>2, <2>1, <3>1 DEF ExecTable, ProcessTypes
  <2>2. CASE FreeSlots # {}
    <3>1. FirstSlot \in 0 .. TableSize - 1
      BY <1>1, <2>2, FirstSlotIsFree
    <3>2. FirstSlot \in -1 .. TableSize - 1
      BY <3>1, VirtualMemoryAssumption
    <3>3. QED
      BY <1>1, <1>2, <1>6, <2>2, <3>1, <3>2 DEF ExecTable, ProcessTypes
  <2>3. QED
    BY <2>1, <2>2
<1>8. PagingTypes' /\ StoreTypes'
  BY <1>1, <1>2, UnchangedTypes
<1>9. ChildMade'
  BY <1>1, <1>2, <1>4, <1>5 DEF ChildMade
<1>10. FileOpen'
  BY <1>1, <1>2, <1>4, <1>5 DEF FileOpen, stores
<1>11. DirtyHasFrame' /\ Handled'
  BY <1>1, <1>2, <1>4, <1>5 DEF DirtyHasFrame, Handled, Resident, paging
<1>12. QED
  BY <1>4, <1>7, <1>8, <1>9, <1>10, <1>11 DEF Local, TypeOK
\* The new process gets its backing store and starts.
LEMMA ExecStoreLocal ==
  ASSUME Local, NEW t \in Threads, ExecStore(t)
  PROVE  Local'
<1> DEFINE c == child[t]
           i == spaceid[c]
           f == IF directory[i] = NoThread THEN c ELSE directory[i]
<1>1. /\ ControlTypes /\ ProcessTypes /\ PagingTypes /\ StoreTypes
      /\ ChildMade /\ FileOpen /\ DirtyHasFrame /\ Handled
  BY DEF Local, TypeOK
<1>2. /\ pc[t] = "execStore"
      /\ directory' = [directory EXCEPT ![i] = f]
      /\ disk' = [disk EXCEPT ![f] = [p \in Pages |-> Hole]]
      /\ file' = [file EXCEPT ![c] = f]
      /\ \E b \in StaleArrays : inStore' = [inStore EXCEPT ![c] = b]
      /\ pc' = [pc EXCEPT ![t] = "user", ![c] = "user"]
      /\ child' = [child EXCEPT ![t] = NoThread]
      /\ UNCHANGED <<state, todo, held, inside, spaceid, allocated>>
      /\ UNCHANGED paging
  BY DEF ExecStore, At
<1>3. /\ c \in Threads /\ pc[c] = "made"
      /\ \A u \in Threads :
           pc[u] \in {"execTable", "execStore"} /\ child[u] = c => u = t
  BY <1>1, <1>2 DEF ChildMade
<1>4. i \in -1 .. TableSize - 1
  BY <1>1, <1>3 DEF ProcessTypes
<1>5. f \in Threads
  BY <1>1, <1>3, <1>4 DEF StoreTypes
<1> HIDE DEF c, i, f
<1>6. /\ \A u \in Threads : pc'[u] = IF u \in {t, c} THEN "user" ELSE pc[u]
      /\ pc' \in [Threads -> Places]
  BY <1>1, <1>2, <1>3 DEF ControlTypes, Places
<1>7. ControlTypes'
  <2>1. inside' \in SUBSET {u \in Threads : pc'[u] \in DOMAIN LockOf}
    BY <1>1, <1>2, <1>3, <1>6, LockPlaces DEF ControlTypes
  <2>2. QED
    BY <1>1, <1>2, <1>6, <2>1 DEF ControlTypes
<1>8. /\ child' \in [Threads -> Threads \cup {NoThread}]
      /\ \A u \in Threads \ {t} : child'[u] = child[u]
  BY <1>1, <1>2 DEF ProcessTypes
<1>9. ProcessTypes' /\ PagingTypes'
  BY <1>1, <1>2, <1>8, UnchangedTypes DEF ProcessTypes
<1>10. StoreTypes'
  <2>1. PICK b \in StaleArrays : inStore' = [inStore EXCEPT ![c] = b]
    BY <1>2
  <2>2. b \in [Pages -> BOOLEAN]
    BY VirtualMemoryAssumption
  <2>3. inStore' \in [Threads -> [Pages -> BOOLEAN]]
    BY <1>1, <2>1, <2>2 DEF StoreTypes
  <2>4. disk' \in [Threads -> [Pages -> Contents \cup {Hole}]]
    BY <1>1, <1>2 DEF StoreTypes
  <2>5. file' \in [Threads -> Threads \cup {NoThread}]
    BY <1>1, <1>2, <1>5 DEF StoreTypes
  <2>6. directory' \in [-1 .. TableSize - 1 -> Threads \cup {NoThread}]
    BY <1>1, <1>2, <1>5 DEF StoreTypes
  <2>7. QED
    BY <2>3, <2>4, <2>5, <2>6 DEF StoreTypes
<1>11. ChildMade'
  <2>1. ASSUME NEW u \in Threads, pc'[u] \in {"execTable", "execStore"}
        PROVE  /\ u # t /\ pc[u] \in {"execTable", "execStore"}
               /\ child'[u] = child[u] /\ child[u] \in Threads \ {t, c}
               /\ pc'[child[u]] = "made"
    <3>1. u # t /\ pc[u] \in {"execTable", "execStore"} /\ child'[u] = child[u]
      BY <1>6, <1>8, <2>1
    <3>2. child[u] \in Threads /\ pc[child[u]] = "made" /\ child[u] # c
      BY <1>1, <1>3, <3>1 DEF ChildMade
    <3>3. child[u] # t
      BY <1>2, <3>2
    <3>4. QED
      BY <1>6, <3>1, <3>2, <3>3
  <2>2. QED
    BY <1>1, <2>1 DEF ChildMade
<1>12. FileOpen'
  <2>1. \A u \in Threads : file'[u] = IF u = c THEN f ELSE file[u]
    BY <1>1, <1>2 DEF StoreTypes
  <2>2. file[t] \in Threads
    BY <1>1, <1>2 DEF FileOpen
  <2>3. QED
    BY <1>1, <1>5, <1>6, <2>1, <2>2 DEF FileOpen
<1>13. DirtyHasFrame' /\ Handled'
  BY <1>1, <1>2, <1>6 DEF DirtyHasFrame, Handled, Resident, paging
<1>14. QED
  BY <1>7, <1>9, <1>10, <1>11, <1>12, <1>13 DEF Local, TypeOK

\* A process takes its leave of the table.
LEMMA ExitTableLocal ==
  ASSUME Local, NEW t \in Threads, ExitTest(t) \/ ExitTable(t)
  PROVE  Local'
<1>1. /\ ControlTypes /\ ProcessTypes /\ PagingTypes /\ StoreTypes
      /\ ChildMade /\ FileOpen /\ DirtyHasFrame /\ Handled
  BY DEF Local, TypeOK
<1> DEFINE n == NextResident(t, 0)
<1>2. n \in 0 .. NumPages /\ (n # NumPages => n \in Pages /\ Resident(t, n))
  BY NextResidentIsNext
<1> HIDE DEF n
<1>3. /\ UNCHANGED <<todo, spaceid, child, victim, pageTable, bitMap, mainMemory>>
      /\ UNCHANGED stores
      /\ state' \in {state, "halted"}
      /\ \/ UNCHANGED allocated
         \/ allocated' = [j \in DOMAIN allocated |->
                            IF j = spaceid[t] - 1 THEN NoThread ELSE allocated[j]]
  BY DEF ExitTest, ExitTable, processes, paging
<1>4. PICK place \in {"exitTest", "exitTable"}, next \in {"exitTable", "exitFree", "exitDone"} :
        /\ Leave(t, place, next)
        /\ place = "exitTest" => next = "exitTable" /\ UNCHANGED page
        /\ place = "exitTable" => next = Freeing(n) /\ page' = [page EXCEPT ![t] = n]
  BY DEF ExitTest, ExitTable, Freeing, paging, n
<1>5. place \in DOMAIN LockOf /\ next \in Places
  BY LockPlaces DEF Places
<1>6. ControlTypes' /\ pc[t] = place /\ pc' = [pc EXCEPT ![t] = next]
  BY <1>1, <1>3, <1>4, <1>5, LeaveTypes
<1>7. /\ page' \in [Threads -> 0 .. NumPages]
      /\ \A u \in Threads \ {t} : page'[u] = page[u]
      /\ place = "exitTable" => page'[t] = n
  BY <1>1, <1>2, <1>4 DEF PagingTypes
<1>8. allocated' \in [0 .. TableSize - 1 -> Threads \cup {NoThread}]
  BY <1>1, <1>3 DEF ProcessTypes
<1>9. PagingTypes' /\ ProcessTypes' /\ StoreTypes'
  BY <1>1, <1>3, <1>7, <1>8, UnchangedTypes DEF PagingTypes, ProcessTypes
<1>10. ChildMade' /\ FileOpen'
  <2>1. UNCHANGED <<child, file>>
    BY <1>3 DEF stores
  <2>2. QED
    BY <1>1, <1>6, <2>1, GotoKeepsChildren
<1>11. DirtyHasFrame' /\ Handled'
  <2>1. next = "exitFree" => page'[t] \in Pages /\ pageTable'[t][page'[t]].valid
    BY <1>2, <1>3, <1>4, <1>7 DEF Resident, Freeing
  <2>2. \A p \in Pages : pageTable'[t][p].dirty =>
          pageTable'[t][p].valid /\ pageTable'[t][p].physicalPage # NoFrame
    BY <1>1, <1>3 DEF DirtyHasFrame, Resident
  <2>3. QED
    BY <1>1, <1>3, <1>6, <1>7, <2>1, <2>2, HandledKept
<1>12. QED
  BY <1>6, <1>9, <1>10, <1>11 DEF Local, TypeOK

\* The address space and its backing store are gone.
LEMMA ExitDoneLocal ==
  ASSUME Local, NEW t \in Threads, ExitDone(t)
  PROVE  Local'
<1>1. /\ ControlTypes /\ ProcessTypes /\ PagingTypes /\ StoreTypes
      /\ ChildMade /\ FileOpen /\ DirtyHasFrame /\ Handled
  BY DEF Local, TypeOK
<1>2. /\ pc[t] = "exitDone" /\ pc' = [pc EXCEPT ![t] = "dead"]
      /\ directory' = [directory EXCEPT ![spaceid[t]] = NoThread]
      /\ pageTable' = [pageTable EXCEPT ![t] = Emptied]
      /\ inStore' = [inStore EXCEPT ![t] = [p \in Pages |-> FALSE]]
      /\ page' = [page EXCEPT ![t] = 0]
      /\ UNCHANGED <<state, todo, held, inside, victim, bitMap, mainMemory, file>>
      /\ UNCHANGED processes
  BY DEF ExitDone, At, Goto
<1>3. todo' \in [Threads -> Seq(Operations)] /\ "dead" \in Places /\ "exitDone" \notin DOMAIN LockOf
  BY <1>1, <1>2, LockPlaces DEF ControlTypes, Places
<1>4. ControlTypes'
  BY <1>1, <1>2, <1>3, GotoTypes
<1>5. /\ pageTable' \in [Threads -> [Pages -> Entries]]
      /\ \A u \in Threads \ {t} : pageTable'[u] = pageTable[u] /\ page'[u] = page[u]
      /\ \A p \in Pages : ~pageTable'[t][p].dirty
  BY <1>1, <1>2 DEF PagingTypes, Emptied, Entries
<1>6. page' \in [Threads -> 0 .. NumPages]
  BY <1>1, <1>2, VirtualMemoryAssumption DEF PagingTypes
<1>7. PagingTypes' /\ ProcessTypes'
  BY <1>1, <1>2, <1>5, <1>6, UnchangedTypes DEF PagingTypes
<1>8. StoreTypes'
  <2>1. disk' \in [Threads -> [Pages -> Contents \cup {Hole}]]
    BY <1>1 DEF ExitDone, StoreTypes
  <2>2. inStore' \in [Threads -> [Pages -> BOOLEAN]]
    BY <1>1, <1>2 DEF StoreTypes
  <2>3. directory' \in [-1 .. TableSize - 1 -> Threads \cup {NoThread}]
    BY <1>1, <1>2 DEF StoreTypes
  <2>4. QED
    BY <1>1, <1>2, <2>1, <2>2, <2>3 DEF StoreTypes
<1>9. ChildMade' /\ FileOpen'
  <2>1. UNCHANGED <<child, file>>
    BY <1>2 DEF processes
  <2>2. QED
    BY <1>1, <1>2, <2>1, GotoKeepsChildren
<1>10. DirtyHasFrame' /\ Handled'
  BY <1>1, <1>2, <1>5, HandledKept
<1>11. QED
  BY <1>4, <1>7, <1>8, <1>9, <1>10 DEF Local, TypeOK
LEMMA StepKeepsLocal ==
  ASSUME Local, [Next]_vars
  PROVE  Local'
<1>1. CASE UNCHANGED vars
  <2>1. /\ UNCHANGED <<state, pc, todo, held, inside>>
        /\ UNCHANGED processes /\ UNCHANGED paging /\ UNCHANGED stores
    BY <1>1 DEF vars
  <2>2. TypeOK'
    BY <2>1, UnchangedTypes DEF Local, TypeOK, ControlTypes
  <2>3. ChildMade' /\ FileOpen' /\ DirtyHasFrame' /\ Handled'
    BY <2>1 DEF Local, ChildMade, FileOpen, DirtyHasFrame, Handled, Resident, processes, paging,
                stores
  <2>4. QED
    BY <2>2, <2>3 DEF Local
<1>2. CASE Next
  <2>1. PICK t \in Threads : Step(t)
    BY <1>2 DEF Next
  <2>2. QED
    BY <2>1, AccessLocal, TrapLocal, LockLocal, AllocLocal, EvictLocal, FreeLocal, PageInLocal,
       ExecLocal, ExecTableLocal, ExecStoreLocal, ExitTableLocal, ExitDoneLocal DEF Step
<1>3. QED
  BY <1>1, <1>2
-------------------------------------------------------------------------------
(* Who holds which frame.                                                  *)

LEMMA NothingHeldAnew ==
  ASSUME PagingTypes, FramesExclusive, NoFrameLost,
         UNCHANGED bitMap,
         \A t \in Threads, p \in Pages, f \in Frames :
           HoldsFrame(t, p, f)' <=> HoldsFrame(t, p, f)
  PROVE  FramesExclusive' /\ NoFrameLost'
<1>1. bitMap \subseteq Frames
  BY DEF PagingTypes
<1>2. FramesExclusive'
  BY DEF FramesExclusive
<1>3. NoFrameLost'
  BY <1>1 DEF NoFrameLost
<1>4. QED
  BY <1>2, <1>3

LEMMA OneFrameGained ==
  ASSUME PagingTypes, FramesExclusive, NoFrameLost,
         NEW t \in Threads, NEW p \in Pages, NEW f \in Frames \ bitMap,
         bitMap' = bitMap \cup {f},
         \A u \in Threads, q \in Pages, g \in Frames :
           HoldsFrame(u, q, g)' <=> HoldsFrame(u, q, g) \/ (u = t /\ q = p /\ g = f)
  PROVE  FramesExclusive' /\ NoFrameLost'
<1>1. bitMap \subseteq Frames
  BY DEF PagingTypes
<1>2. \A u \in Threads, q \in Pages : ~HoldsFrame(u, q, f)
  BY DEF FramesExclusive
<1>3. FramesExclusive'
  BY <1>2 DEF FramesExclusive
<1>4. NoFrameLost'
  BY <1>1 DEF NoFrameLost
<1>5. QED
  BY <1>3, <1>4

LEMMA OneFrameFreed ==
  ASSUME PagingTypes, FramesExclusive, NoFrameLost,
         NEW t \in Threads, NEW p \in Pages, NEW f \in Frames,
         HoldsFrame(t, p, f),
         bitMap' = bitMap \ {f},
         \A u \in Threads, q \in Pages, g \in Frames :
           HoldsFrame(u, q, g)' <=> HoldsFrame(u, q, g) /\ ~(u = t /\ q = p)
  PROVE  FramesExclusive' /\ NoFrameLost'
<1>1. bitMap \subseteq Frames
  BY DEF PagingTypes
<1>2. \A u \in Threads, q \in Pages : HoldsFrame(u, q, f) => u = t /\ q = p
  BY DEF FramesExclusive
<1>3. FramesExclusive'
  BY <1>2 DEF FramesExclusive
<1>4. ASSUME NEW g \in bitMap'
      PROVE  \E u \in Threads, q \in Pages : HoldsFrame(u, q, g)'
  <2>1. g \in bitMap /\ g \in Frames /\ g # f
    BY <1>1
  <2>2. PICK u \in Threads, q \in Pages : HoldsFrame(u, q, g)
    BY <2>1 DEF NoFrameLost
  <2>3. ~(u = t /\ q = p)
    BY <2>1, <2>2 DEF HoldsFrame
  <2>4. QED
    BY <2>1, <2>2, <2>3
<1>5. NoFrameLost'
  BY <1>4 DEF NoFrameLost
<1>6. QED
  BY <1>3, <1>5
\* The steps that touch no frame.  (Children have none that they could leave
\* or free: no step of Exec is one of the exit or of the handler.)
LEMMA OtherSteps ==
  ASSUME Local, FramesExclusive, NoFrameLost, NEW t \in Threads,
         \/ ReadMem(t) \/ WriteMem(t) \/ Fault(t) \/ BusError(t) \/ Exec(t) \/ Exit(t)
         \/ Enter(t) \/ LeaveFails(t) \/ ClearFails(t) \/ EvictSpins(t)
         \/ ExecTable(t) \/ ExecStore(t) \/ ExitTest(t)
  PROVE  FramesExclusive' /\ NoFrameLost'
<1> DEFINE Quiet == {"unborn", "made", "user", "alloc", "execTable", "execStore", "exitTest",
                     "exitTable"}
<1>1. ControlTypes /\ PagingTypes /\ ProcessTypes /\ ChildMade
  BY DEF Local, TypeOK
<1>2. UNCHANGED <<victim, bitMap>>
  BY DEF ReadMem, WriteMem, Fault, BusError, Exec, Exit, Enter, LeaveFails, ClearFails,
         EvictSpins, ExecTable, ExecStore, ExitTest, paging
<1>3. \A u \in Threads, q \in Pages :
        /\ pageTable'[u][q].valid = pageTable[u][q].valid
        /\ pageTable'[u][q].physicalPage = pageTable[u][q].physicalPage
  <2>1. CASE WriteMem(t)
    <3> DEFINE p == Head(todo[t]).page
               e == [pageTable[t][p] EXCEPT !.dirty = TRUE]
    <3>1. p \in Pages
      BY <1>1, <2>1, DoesTypes DEF WriteMem, Does
    <3>2. pageTable[t][p] \in Entries
      BY <1>1, <3>1, EntryTypes
    <3>3. e \in Entries /\ e.valid = pageTable[t][p].valid
                        /\ e.physicalPage = pageTable[t][p].physicalPage
      BY <3>2 DEF Entries
    <3>4. pageTable' = [pageTable EXCEPT ![t][p] = e]
      BY <2>1 DEF WriteMem
    <3> HIDE DEF e
    <3>5. /\ pageTable'[t][p] = e
          /\ \A q \in Pages \ {p} : pageTable'[t][q] = pageTable[t][q]
          /\ \A u \in Threads \ {t} : pageTable'[u] = pageTable[u]
      <4>1. pageTable \in [Threads -> [Pages -> Entries]]
        BY <1>1 DEF PagingTypes
      <4>2. QED
        BY <3>1, <3>3, <3>4, <4>1, SMTT(30)
    <3>6. QED
      BY <3>3, <3>5
  <2>2. CASE ~WriteMem(t)
    <3>1. UNCHANGED pageTable
      BY <2>2 DEF ReadMem, Fault, BusError, Exec, Exit, Enter, LeaveFails, ClearFails,
                  EvictSpins, ExecTable, ExecStore, ExitTest, paging
    <3>2. QED
      BY <3>1
  <2>3. QED
    BY <2>1, <2>2
<1>4. \A u \in Threads :
        /\ pc'[u] = pc[u] \/ {pc[u], pc'[u]} \subseteq Quiet
        /\ page'[u] = page[u] \/ {pc[u], pc'[u]} \subseteq Quiet
  <2>1. CASE ReadMem(t) \/ WriteMem(t) \/ Enter(t) \/ LeaveFails(t) \/ ClearFails(t)
               \/ EvictSpins(t)
    BY <2>1 DEF ReadMem, WriteMem, Enter, LeaveFails, ClearFails, EvictSpins, paging
  <2>2. CASE Fault(t) \/ BusError(t) \/ Exit(t)
    <3>1. /\ pc[t] = "user"
          /\ \E next \in {"alloc", "exitTest"} : pc' = [pc EXCEPT ![t] = next]
          /\ page' = page \/ page' = [page EXCEPT ![t] = Head(todo[t]).page]
      BY <2>2 DEF Fault, BusError, Exit, Does, At, Goto, paging
    <3>2. QED
      BY <1>1, <3>1 DEF ControlTypes, PagingTypes
  <2>3. CASE ExecTable(t) \/ ExitTest(t)
    <3>1. /\ pc[t] \in {"execTable", "exitTest"}
          /\ \E next \in {"execStore", "exitTable"} : pc' = [pc EXCEPT ![t] = next]
          /\ UNCHANGED page
      BY <2>3 DEF ExecTable, ExitTest, Leave, At, Goto, paging
    <3>2. QED
      BY <1>1, <3>1 DEF ControlTypes
  <2>4. CASE Exec(t)
    <3>1. PICK c \in Threads :
            /\ pc[c] = "unborn" /\ pc[t] = "user"
            /\ pc' = [pc EXCEPT ![t] = "execTable", ![c] = "made"]
            /\ UNCHANGED page
      BY <2>4 DEF Exec, Does, At, paging
    <3>2. QED
      BY <1>1, <3>1 DEF ControlTypes
  <2>5. CASE ExecStore(t)
    <3>1. pc[t] = "execStore"
      BY <2>5 DEF ExecStore, At
    <3>2. PICK c \in Threads :
            /\ pc[c] = "made"
            /\ pc' = [pc EXCEPT ![t] = "user", ![c] = "user"]
            /\ UNCHANGED page
      BY <1>1, <2>5, <3>1 DEF ExecStore, ChildMade, paging
    <3>3. QED
      BY <1>1, <3>1, <3>2 DEF ControlTypes
  <2>6. QED
    BY <2>1, <2>2, <2>3, <2>4, <2>5
<1>5. \A u \in Threads, q \in Pages, f \in Frames :
        HoldsFrame(u, q, f)' <=> HoldsFrame(u, q, f)
  <2>1. SUFFICES ASSUME NEW u \in Threads, NEW q \in Pages, NEW f \in Frames
                 PROVE  HoldsFrame(u, q, f)' <=> HoldsFrame(u, q, f)
    OBVIOUS
  <2>2. CASE pc'[u] = pc[u] /\ page'[u] = page[u]
    BY <1>2, <1>3, <2>2 DEF HoldsFrame, Resident
  <2>3. CASE {pc[u], pc'[u]} \subseteq Quiet
    BY <1>2, <1>3, <2>3 DEF HoldsFrame, Resident
  <2>4. QED
    BY <1>4, <2>2, <2>3
<1>6. QED
  BY <1>1, <1>2, <1>5, NothingHeldAnew

\* A thread whose fields do not change holds what it held.
LEMMA HoldsAsBefore ==
  ASSUME NEW u, NEW q, NEW f,
         pc'[u] = pc[u], page'[u] = page[u], victim'[u] = victim[u],
         pageTable'[u] = pageTable[u]
  PROVE  HoldsFrame(u, q, f)' <=> HoldsFrame(u, q, f)
BY DEF HoldsFrame, Resident
\* A frame that nobody holds goes to the faulted page.
LEMMA AllocFrames ==
  ASSUME Local, FramesExclusive, NoFrameLost, NEW t \in Threads,
         FirstAlloc(t) \/ SecondAlloc(t)
  PROVE  FramesExclusive' /\ NoFrameLost'
<1> DEFINE p == page[t]
<1>1. ControlTypes /\ PagingTypes /\ Handled
  BY DEF Local, TypeOK
<1>2. /\ pc[t] \in {"alloc", "realloc"}
      /\ \E next \in {"evict", "load"} :
           /\ pc' = [pc EXCEPT ![t] = next]
           /\ Free # {} => next = "load"
      /\ AllocPage(t)
  BY DEF FirstAlloc, SecondAlloc, Leave, At, Goto
<1>3. p \in Pages /\ ~pageTable[t][p].valid
  BY <1>1, <1>2 DEF Handled, Resident
<1>4. UNCHANGED <<page, victim>>
  BY <1>2 DEF AllocPage
<1>5. /\ pc'[t] \in {"evict", "load"}
      /\ Free # {} => pc'[t] = "load"
      /\ \A u \in Threads \ {t} : pc'[u] = pc[u]
  BY <1>1, <1>2 DEF ControlTypes
<1>6. ASSUME NEW f \in Frames \cup {NoFrame},
             pageTable' = [pageTable EXCEPT ![t][p].physicalPage = f]
      PROVE  /\ \A q \in Pages : pageTable'[t][q].valid = pageTable[t][q].valid
             /\ \A q \in Pages \ {p} : pageTable'[t][q] = pageTable[t][q]
             /\ pageTable'[t][p].physicalPage = f
             /\ \A u \in Threads \ {t} : pageTable'[u] = pageTable[u]
  <2> DEFINE e == [pageTable[t][p] EXCEPT !.physicalPage = f]
  <2>1. pageTable[t][p] \in Entries
    BY <1>1, <1>3, EntryTypes
  <2>2. e \in Entries /\ e.valid = pageTable[t][p].valid /\ e.physicalPage = f
    BY <2>1 DEF Entries
  <2>3. pageTable' = [pageTable EXCEPT ![t][p] = e]
    BY <1>6
  <2> HIDE DEF e
  <2>4. /\ pageTable'[t][p] = e
        /\ \A q \in Pages \ {p} : pageTable'[t][q] = pageTable[t][q]
        /\ \A u \in Threads \ {t} : pageTable'[u] = pageTable[u]
    <3>1. pageTable \in [Threads -> [Pages -> Entries]] /\ p \in Pages
      BY <1>1, <1>3 DEF PagingTypes
    <3>2. QED
      BY <2>3, <3>1, SMTT(30)
  <2>5. QED
    BY <2>2, <2>4
<1>7. \A u \in Threads \ {t}, q \in Pages, g \in Frames :
        HoldsFrame(u, q, g)' <=> HoldsFrame(u, q, g)
  <2>1. \A u \in Threads \ {t} : pageTable'[u] = pageTable[u]
    BY <1>1, <1>2 DEF AllocPage, PagingTypes
  <2>2. QED
    BY <1>4, <1>5, <2>1, HoldsAsBefore
<1>8. CASE Free = {}
  <2>1. /\ pageTable' = [pageTable EXCEPT ![t][p].physicalPage = NoFrame]
        /\ UNCHANGED bitMap
    BY <1>2, <1>8 DEF AllocPage
  <2>2. \A q \in Pages, g \in Frames : HoldsFrame(t, q, g)' <=> HoldsFrame(t, q, g)
    <3>1. \A g \in Frames : g # NoFrame
      BY DEF Frames, NoFrame
    <3>2. /\ \A q \in Pages : pageTable'[t][q].valid = pageTable[t][q].valid
          /\ \A q \in Pages \ {p} : pageTable'[t][q] = pageTable[t][q]
          /\ pageTable'[t][p].physicalPage = NoFrame
      BY <1>6, <2>1
    <3>3. QED
      BY <1>2, <1>3, <1>4, <1>5, <3>1, <3>2 DEF HoldsFrame, Resident
  <2>3. QED
    BY <1>1, <1>7, <2>1, <2>2, NothingHeldAnew
<1>9. CASE Free # {}
  <2>1. /\ pageTable' = [pageTable EXCEPT ![t][p].physicalPage = FirstFree]
        /\ bitMap' = bitMap \cup {FirstFree}
    BY <1>2, <1>9 DEF AllocPage
  <2>2. FirstFree \in Frames \ bitMap
    BY <1>9, FirstFreeIsFree
  <2>3. \A q \in Pages, g \in Frames :
          HoldsFrame(t, q, g)' <=> HoldsFrame(t, q, g) \/ (q = p /\ g = FirstFree)
    <3>1. /\ \A q \in Pages : pageTable'[t][q].valid = pageTable[t][q].valid
          /\ \A q \in Pages \ {p} : pageTable'[t][q] = pageTable[t][q]
          /\ pageTable'[t][p].physicalPage = FirstFree
      BY <1>6, <2>1, <2>2
    <3>2. pc'[t] = "load"
      BY <1>5, <1>9
    <3>3. QED
      BY <1>2, <1>3, <1>4, <3>1, <3>2 DEF HoldsFrame, Resident
  <2>4. \A u \in Threads, q \in Pages, g \in Frames :
          HoldsFrame(u, q, g)' <=>
            HoldsFrame(u, q, g) \/ (u = t /\ q = p /\ g = FirstFree)
    BY <1>7, <2>3
  <2>5. QED
    BY <1>1, <1>3, <2>1, <2>2, <2>4, OneFrameGained
<1>10. QED
  BY <1>8, <1>9

\* A page goes out of memory or comes in: its frame is held for it all the time.
LEMMA ValidChanged ==
  ASSUME Local, FramesExclusive, NoFrameLost, NEW t \in Threads, Evict(t) \/ PageIn(t)
  PROVE  FramesExclusive' /\ NoFrameLost'
<1>1. ControlTypes /\ PagingTypes /\ Handled
  BY DEF Local, TypeOK
<1>2. CASE Evict(t)
  <2>1. PICK v \in Pages :
          /\ Resident(t, v)
          /\ victim' = [victim EXCEPT ![t] = v]
          /\ pageTable' = [pageTable EXCEPT ![t][v].valid = FALSE, ![t][v].dirty = FALSE]
    BY <1>2 DEF Evict
  <2>2. /\ pc[t] = "evict" /\ pc' = [pc EXCEPT ![t] = "free"]
        /\ UNCHANGED <<page, bitMap>>
    BY <1>2 DEF Evict, At, Goto
  <2> DEFINE e == [pageTable[t][v] EXCEPT !.valid = FALSE, !.dirty = FALSE]
  <2>3. pageTable[t][v] \in Entries
    BY <1>1, EntryTypes
  <2>4. e \in Entries /\ ~e.valid /\ e.physicalPage = pageTable[t][v].physicalPage
    BY <2>3 DEF Entries
  <2>5. pageTable' = [pageTable EXCEPT ![t][v] = e]
    BY <1>1, <2>1, <2>3 DEF PagingTypes, Entries
  <2> HIDE DEF e
  <2>6. /\ pageTable'[t][v] = e
        /\ \A q \in Pages \ {v} : pageTable'[t][q] = pageTable[t][q]
        /\ \A u \in Threads \ {t} : pageTable'[u] = pageTable[u]
    <3>1. pageTable \in [Threads -> [Pages -> Entries]]
      BY <1>1 DEF PagingTypes
    <3>2. QED
      BY <2>4, <2>5, <3>1, SMTT(30)
  <2>7. /\ pc'[t] = "free" /\ victim'[t] = v
        /\ \A u \in Threads \ {t} : pc'[u] = pc[u] /\ victim'[u] = victim[u]
    BY <1>1, <2>1, <2>2 DEF ControlTypes, PagingTypes
  <2>8. \A u \in Threads \ {t}, q \in Pages, f \in Frames :
          HoldsFrame(u, q, f)' <=> HoldsFrame(u, q, f)
    BY <2>2, <2>6, <2>7, HoldsAsBefore
  <2>9. \A q \in Pages, f \in Frames : HoldsFrame(t, q, f)' <=> HoldsFrame(t, q, f)
    <3>1. /\ pc[t] = "evict" /\ pc'[t] = "free" /\ victim'[t] = v
          /\ pageTable[t][v].valid /\ ~pageTable'[t][v].valid
          /\ pageTable'[t][v].physicalPage = pageTable[t][v].physicalPage
      <4>1. pc[t] = "evict" /\ pc'[t] = "free" /\ victim'[t] = v
        BY <2>2, <2>7
      <4>2. pageTable[t][v].valid
        BY <2>1 DEF Resident
      <4>3. pageTable'[t][v] = e
        BY <2>6
      <4>4. QED
        BY <2>4, <4>1, <4>2, <4>3
    <3>2. ASSUME NEW f \in Frames
          PROVE  HoldsFrame(t, v, f)' <=> HoldsFrame(t, v, f)
      <4>1. HoldsFrame(t, v, f)' <=> pageTable'[t][v].physicalPage = f
        BY <3>1, ZenonT(40) DEF HoldsFrame, Resident
      <4>2. HoldsFrame(t, v, f) <=> pageTable[t][v].physicalPage = f
        BY <3>1, ZenonT(40) DEF HoldsFrame, Resident
      <4>3. QED
        BY <3>1, <4>1, <4>2
    <3>3. ASSUME NEW q \in Pages \ {v}, NEW f \in Frames
          PROVE  HoldsFrame(t, q, f)' <=> HoldsFrame(t, q, f)
      <4>1. pageTable'[t][q] = pageTable[t][q]
        BY <2>6
      <4>2. QED
        BY <2>2, <3>1, <3>3, <4>1, SMTT(30) DEF HoldsFrame, Resident
    <3>4. QED
      BY <3>2, <3>3
  <2>10. QED
    BY <1>1, <2>2, <2>8, <2>9, NothingHeldAnew
<1>3. CASE PageIn(t)
  <2> DEFINE p == page[t]
             e == [pageTable[t][p] EXCEPT !.valid = TRUE]
  <2>1. /\ pc[t] = "load" /\ pc' = [pc EXCEPT ![t] = "user"]
        /\ pageTable' = [pageTable EXCEPT ![t][p].valid = TRUE]
        /\ page' = [page EXCEPT ![t] = 0]
        /\ victim' = [victim EXCEPT ![t] = 0]
        /\ UNCHANGED bitMap
    BY <1>3 DEF PageIn, At, Goto
  <2>2. p \in Pages
    BY <1>1, <2>1 DEF Handled
  <2>3. pageTable[t][p] \in Entries
    BY <1>1, <2>2, EntryTypes
  <2>4. e \in Entries /\ e.valid /\ e.physicalPage = pageTable[t][p].physicalPage
    BY <2>3 DEF Entries
  <2>5. pageTable' = [pageTable EXCEPT ![t][p] = e]
    BY <2>1
  <2> HIDE DEF e
  <2>6. /\ pageTable'[t][p] = e
        /\ \A q \in Pages \ {p} : pageTable'[t][q] = pageTable[t][q]
        /\ \A u \in Threads \ {t} : pageTable'[u] = pageTable[u]
    <3>1. pageTable \in [Threads -> [Pages -> Entries]]
      BY <1>1 DEF PagingTypes
    <3>2. QED
      BY <2>2, <2>4, <2>5, <3>1, SMTT(30)
  <2>7. /\ pc'[t] = "user"
        /\ \A u \in Threads \ {t} :
             pc'[u] = pc[u] /\ victim'[u] = victim[u] /\ page'[u] = page[u]
    BY <1>1, <2>1 DEF ControlTypes, PagingTypes
  <2>8. \A u \in Threads \ {t}, q \in Pages, f \in Frames :
          HoldsFrame(u, q, f)' <=> HoldsFrame(u, q, f)
    BY <2>6, <2>7, HoldsAsBefore
  <2>9. \A q \in Pages, f \in Frames : HoldsFrame(t, q, f)' <=> HoldsFrame(t, q, f)
    BY <2>1, <2>4, <2>6, <2>7 DEF HoldsFrame, Resident
  <2>10. QED
    BY <1>1, <2>1, <2>8, <2>9, NothingHeldAnew
<1>4. QED
  BY <1>2, <1>3
\* The frame of the victim is given back.
LEMMA VictimFreed ==
  ASSUME Local, FramesExclusive, NoFrameLost, NEW t \in Threads, FreeVictim(t)
  PROVE  FramesExclusive' /\ NoFrameLost'
<1> DEFINE v == victim[t]
           f == pageTable[t][v].physicalPage
<1>1. ControlTypes /\ PagingTypes /\ Handled
  BY DEF Local, TypeOK
<1>2. /\ pc[t] = "free" /\ pc' = [pc EXCEPT ![t] = "realloc"]
      /\ f # NoFrame
      /\ bitMap' = bitMap \ {f}
      /\ UNCHANGED <<page, victim, pageTable>>
  BY DEF FreeVictim, Leave, At, Goto
<1>3. v \in Pages /\ ~Resident(t, v)
  BY <1>1, <1>2 DEF PagingTypes, Handled
<1>4. f \in Frames
  BY <1>1, <1>2, <1>3, EntryTypes
<1>5. pc'[t] = "realloc" /\ \A u \in Threads \ {t} : pc'[u] = pc[u]
  BY <1>1, <1>2 DEF ControlTypes
<1>6. \A u \in Threads \ {t}, q \in Pages, g \in Frames :
        HoldsFrame(u, q, g)' <=> HoldsFrame(u, q, g)
  BY <1>2, <1>5, HoldsAsBefore
<1>7. \A q \in Pages, g \in Frames :
        HoldsFrame(t, q, g)' <=> HoldsFrame(t, q, g) /\ q # v
  BY <1>2, <1>3, <1>5 DEF HoldsFrame, Resident
<1>8. \A u \in Threads, q \in Pages, g \in Frames :
        HoldsFrame(u, q, g)' <=> HoldsFrame(u, q, g) /\ ~(u = t /\ q = v)
  BY <1>6, <1>7
<1>9. HoldsFrame(t, v, f)
  BY <1>2 DEF HoldsFrame
<1>10. QED
  BY <1>1, <1>2, <1>3, <1>4, <1>8, <1>9, OneFrameFreed

\* ~AddrSpace has freed the pages below page[t] and not those from there on.
LEMMA FirstToFree ==
  ASSUME Local, FramesExclusive, NoFrameLost, NEW t \in Threads, ExitTable(t)
  PROVE  FramesExclusive' /\ NoFrameLost'
<1> DEFINE n == NextResident(t, 0)
<1>1. ControlTypes /\ PagingTypes
  BY DEF Local, TypeOK
<1>2. /\ pc[t] = "exitTable" /\ pc' = [pc EXCEPT ![t] = Freeing(n)]
      /\ page' = [page EXCEPT ![t] = n]
      /\ UNCHANGED <<victim, pageTable, bitMap>>
  BY DEF ExitTable, Leave, At, Goto
<1>3. \A q \in Pages : q \in Nat /\ q < NumPages
  BY VirtualMemoryAssumption DEF Pages
<1>4. n \in 0 .. NumPages /\ \A q \in Pages : Resident(t, q) => q >= n
  BY <1>3, NextResidentIsNext
<1> HIDE DEF n
<1>5. /\ pc'[t] = Freeing(n) /\ page'[t] = n
      /\ \A u \in Threads \ {t} : pc'[u] = pc[u] /\ page'[u] = page[u]
  BY <1>1, <1>2 DEF ControlTypes, PagingTypes
<1>6. \A u \in Threads \ {t}, q \in Pages, g \in Frames :
        HoldsFrame(u, q, g)' <=> HoldsFrame(u, q, g)
  BY <1>2, <1>5, HoldsAsBefore
<1>7. \A q \in Pages, g \in Frames : HoldsFrame(t, q, g)' <=> HoldsFrame(t, q, g)
  <2>1. CASE n = NumPages
    <3>1. \A q \in Pages : ~Resident(t, q)
      BY <1>3, <1>4, <2>1, VirtualMemoryAssumption
    <3>2. QED
      BY <1>2, <1>5, <2>1, <3>1 DEF HoldsFrame, Resident, Freeing
  <2>2. CASE n # NumPages
    BY <1>2, <1>4, <1>5, <2>2 DEF HoldsFrame, Resident, Freeing
  <2>3. QED
    BY <2>1, <2>2
<1>8. QED
  BY <1>1, <1>2, <1>6, <1>7, NothingHeldAnew

LEMMA PageFreed ==
  ASSUME Local, FramesExclusive, NoFrameLost, NEW t \in Threads, ExitFree(t)
  PROVE  FramesExclusive' /\ NoFrameLost'
<1> DEFINE p == page[t]
           f == pageTable[t][p].physicalPage
           n == NextResident(t, p + 1)
<1>1. ControlTypes /\ PagingTypes /\ Handled
  BY DEF Local, TypeOK
<1>2. /\ pc[t] = "exitFree" /\ pc' = [pc EXCEPT ![t] = Freeing(n)]
      /\ f # NoFrame
      /\ bitMap' = bitMap \ {f}
      /\ page' = [page EXCEPT ![t] = n]
      /\ UNCHANGED <<victim, pageTable>>
  BY DEF ExitFree, Leave, At, Goto
<1>3. p \in Pages /\ Resident(t, p)
  BY <1>1, <1>2 DEF Handled
<1>4. f \in Frames
  BY <1>1, <1>2, <1>3, EntryTypes
<1>5. \A q \in Pages : q \in Nat /\ q < NumPages
  BY VirtualMemoryAssumption DEF Pages
<1>6. /\ n \in 0 .. NumPages
      /\ n # NumPages => n >= p + 1
      /\ \A q \in Pages : q >= p + 1 /\ Resident(t, q) => q >= n
  BY <1>3, <1>5, NextResidentIsNext
<1> HIDE DEF n
<1>7. /\ pc'[t] = Freeing(n) /\ page'[t] = n
      /\ \A u \in Threads \ {t} : pc'[u] = pc[u] /\ page'[u] = page[u]
  BY <1>1, <1>2 DEF ControlTypes, PagingTypes
<1>8. \A u \in Threads \ {t}, q \in Pages, g \in Frames :
        HoldsFrame(u, q, g)' <=> HoldsFrame(u, q, g)
  BY <1>2, <1>7, HoldsAsBefore
<1>9. \A q \in Pages : Resident(t, q) /\ q >= p /\ q # p => q >= p + 1
  BY <1>3, <1>5
<1>10. \A q \in Pages, g \in Frames :
        HoldsFrame(t, q, g)' <=> HoldsFrame(t, q, g) /\ q # p
  <2>1. \A q \in Pages, g \in Frames :
          HoldsFrame(t, q, g) <=> Resident(t, q) /\ q >= p /\ pageTable[t][q].physicalPage = g
    BY <1>2 DEF HoldsFrame
  <2>2. CASE n = NumPages
    <3>1. \A q \in Pages, g \in Frames : ~HoldsFrame(t, q, g)'
      BY <1>7, <2>2 DEF HoldsFrame, Freeing
    <3>2. \A q \in Pages : Resident(t, q) /\ q >= p => q = p
      BY <1>5, <1>6, <1>9, <2>2, VirtualMemoryAssumption
    <3>3. QED
      BY <2>1, <3>1, <3>2
  <2>3. CASE n # NumPages
    <3>1. \A q \in Pages, g \in Frames :
            HoldsFrame(t, q, g)' <=>
              Resident(t, q) /\ q >= n /\ pageTable[t][q].physicalPage = g
      BY <1>2, <1>7, <2>3 DEF HoldsFrame, Freeing, Resident
    <3>2. \A q \in Pages : Resident(t, q) => (q >= n <=> q >= p /\ q # p)
      BY <1>3, <1>5, <1>6, <1>9, <2>3
    <3>3. QED
      BY <2>1, <3>1, <3>2
  <2>4. QED
    BY <2>2, <2>3
<1>11. \A u \in Threads, q \in Pages, g \in Frames :
        HoldsFrame(u, q, g)' <=> HoldsFrame(u, q, g) /\ ~(u = t /\ q = p)
  BY <1>8, <1>10
<1>12. HoldsFrame(t, p, f)
  BY <1>2, <1>3, <1>5 DEF HoldsFrame
<1>13. QED
  BY <1>1, <1>2, <1>3, <1>4, <1>11, <1>12, OneFrameFreed

LEMMA NothingLeftToFree ==
  ASSUME Local, FramesExclusive, NoFrameLost, NEW t \in Threads, ExitDone(t)
  PROVE  FramesExclusive' /\ NoFrameLost'
<1>1. ControlTypes /\ PagingTypes
  BY DEF Local, TypeOK
<1>2. /\ pc[t] = "exitDone" /\ pc' = [pc EXCEPT ![t] = "dead"]
      /\ pageTable' = [pageTable EXCEPT ![t] = Emptied]
      /\ page' = [page EXCEPT ![t] = 0]
      /\ UNCHANGED <<victim, bitMap>>
  BY DEF ExitDone, At, Goto
<1>3. /\ pc'[t] = "dead"
      /\ \A u \in Threads \ {t} :
           pc'[u] = pc[u] /\ page'[u] = page[u] /\ pageTable'[u] = pageTable[u]
  BY <1>1, <1>2 DEF ControlTypes, PagingTypes
<1>4. \A u \in Threads \ {t}, q \in Pages, g \in Frames :
        HoldsFrame(u, q, g)' <=> HoldsFrame(u, q, g)
  BY <1>2, <1>3, HoldsAsBefore
<1>5. \A q \in Pages, g \in Frames : HoldsFrame(t, q, g)' <=> HoldsFrame(t, q, g)
  BY <1>2, <1>3 DEF HoldsFrame
<1>6. QED
  BY <1>1, <1>2, <1>4, <1>5, NothingHeldAnew
-------------------------------------------------------------------------------
LEMMA InitInv == Init => Inv
<1>1. SUFFICES ASSUME Init PROVE Inv
  OBVIOUS
<1>2. \A t \in Threads, p \in Pages :
        /\ ~Resident(t, p)
        /\ pc[t] \in {"user", "unborn"}
  BY <1>1 DEF Init, Resident, Emptied
<1>3. \A t \in Threads, p \in Pages, f \in Frames : ~HoldsFrame(t, p, f)
  BY <1>2 DEF HoldsFrame
<1>4. FramesExclusive /\ NoFrameLost
  BY <1>1, <1>3 DEF FramesExclusive, NoFrameLost, Init
<1>5. QED
  BY <1>1, <1>4, InitLocal DEF Inv

LEMMA StepKeepsInv == Inv /\ [Next]_vars => Inv'
<1>1. SUFFICES ASSUME Inv, [Next]_vars PROVE Inv'
  OBVIOUS
<1>2. Local /\ FramesExclusive /\ NoFrameLost
  BY <1>1 DEF Inv
<1>3. Local'
  BY <1>1, <1>2, StepKeepsLocal
<1>4. CASE UNCHANGED vars
  <2>1. UNCHANGED <<pc, page, victim, pageTable, bitMap>>
    BY <1>4 DEF vars, paging
  <2>2. \A t \in Threads, p \in Pages, f \in Frames :
          HoldsFrame(t, p, f)' <=> HoldsFrame(t, p, f)
    BY <2>1, HoldsAsBefore
  <2>3. PagingTypes
    BY <1>2 DEF Local, TypeOK
  <2>4. FramesExclusive' /\ NoFrameLost'
    BY <1>2, <2>1, <2>2, <2>3, NothingHeldAnew
  <2>5. QED
    BY <1>3, <2>4 DEF Inv
<1>5. CASE Next
  <2>1. PICK t \in Threads : Step(t)
    BY <1>5 DEF Next
  <2>2. FramesExclusive' /\ NoFrameLost'
    BY <1>2, <2>1, OtherSteps, AllocFrames, ValidChanged, VictimFreed, FirstToFree, PageFreed,
       NothingLeftToFree DEF Step
  <2>3. QED
    BY <1>3, <2>2 DEF Inv
<1>6. QED
  BY <1>1, <1>4, <1>5

LEMMA InvAlways == Spec => []Inv
<1>1. QED
  BY InitInv, StepKeepsInv, PTL DEF Spec

\* The handler and the process table leave every field in its range.
THEOREM TypeCorrect == Spec => []TypeOK
<1>1. Inv => TypeOK
  BY DEF Inv, Local
<1>2. QED
  BY <1>1, InvAlways, PTL

\* MemoryManager never lets two pages have one frame, nor a free frame be in
\* use, whatever the interleaving of faults and exits and although its lock
\* keeps nobody out.
THEOREM FramesAreExclusive == Spec => []FramesExclusive
<1>1. Inv => FramesExclusive
  BY DEF Inv
<1>2. QED
  BY <1>1, InvAlways, PTL

\* No eviction, no exit and no fault that loses the race for a frame leaks one.
THEOREM NoFrameIsLost == Spec => []NoFrameLost
<1>1. Inv => NoFrameLost
  BY DEF Inv
<1>2. QED
  BY <1>1, InvAlways, PTL
-------------------------------------------------------------------------------
(* That Exit never halts the machine.                                      *)

\* The slot of the largest id is taken.
LastSlotTaken ==
  \E i \in 0 .. TableSize - 1 :
    allocated[i] # NoThread /\ \A t \in Threads : spaceid[t] <= i

LEMMA InitLastSlotTaken ==
  ASSUME Init
  PROVE  LastSlotTaken
<1>1. First \in Threads /\ First # NoThread /\ 0 \in 0 .. TableSize - 1
  BY VirtualMemoryAssumption
<1>2. allocated[0] = First
  BY <1>1 DEF Init
<1>3. \A t \in Threads : spaceid[t] \in {0, -1}
  BY DEF Init
<1>4. \A t \in Threads : spaceid[t] <= 0
  BY <1>3
<1>5. QED
  BY <1>1, <1>2, <1>4 DEF LastSlotTaken

LEMMA StepKeepsLastSlotTaken ==
  ASSUME Inv, LastSlotTaken, [Next]_vars
  PROVE  LastSlotTaken'
<1>1. /\ ProcessTypes /\ ChildMade
      /\ \A t \in Threads : spaceid[t] \in -1 .. TableSize - 1
  BY DEF Inv, Local, TypeOK, ProcessTypes
<1>2. PICK i \in 0 .. TableSize - 1 :
        allocated[i] # NoThread /\ \A t \in Threads : spaceid[t] <= i
  BY DEF LastSlotTaken
<1>3. TableSize \in Nat /\ NoThread \notin Threads
  BY VirtualMemoryAssumption
<1>4. ASSUME NEW t \in Threads, ExecTable(t)
      PROVE  LastSlotTaken'
  <2>1. pc[t] = "execTable"
    BY <1>4 DEF ExecTable, Leave, At
  <2>2. PICK c \in Threads : c = child[t]
    BY <1>1, <2>1 DEF ChildMade
  <2>3. CASE FreeSlots = {}
    <3>1. spaceid' = [spaceid EXCEPT ![c] = -1] /\ UNCHANGED allocated
      BY <1>4, <2>2, <2>3 DEF ExecTable
    <3>2. \A u \in Threads : spaceid'[u] <= i
      BY <1>1, <1>2, <3>1 DEF ProcessTypes
    <3>3. QED
      BY <1>2, <3>1, <3>2 DEF LastSlotTaken
  <2>4. CASE FreeSlots # {}
    <3>1. PICK j \in 0 .. TableSize - 1 : j = FirstSlot
      BY <1>1, <2>4, FirstSlotIsFree
    <3>2. spaceid' = [spaceid EXCEPT ![c] = j] /\ allocated' = [allocated EXCEPT ![j] = c]
      BY <1>4, <2>2, <2>4, <3>1 DEF ExecTable
    <3>3. PICK k \in 0 .. TableSize - 1 : k = (IF i <= j THEN j ELSE i)
      OBVIOUS
    <3>4. k \in {i, j} /\ i <= k /\ j <= k
      BY <3>3
    <3>5. \A u \in Threads : spaceid'[u] <= k
      BY <1>1, <1>2, <3>2, <3>4 DEF ProcessTypes
    <3>6. allocated'[k] # NoThread
      BY <1>1, <1>2, <1>3, <3>2, <3>4 DEF ProcessTypes
    <3>7. QED
      BY <3>5, <3>6 DEF LastSlotTaken
  <2>5. QED
    BY <2>3, <2>4
<1>5. ASSUME NEW t \in Threads, ExitTable(t)
      PROVE  LastSlotTaken'
  <2>1. /\ allocated' = [j \in DOMAIN allocated |->
                          IF j = spaceid[t] - 1 THEN NoThread ELSE allocated[j]]
        /\ UNCHANGED spaceid
    BY <1>5 DEF ExitTable
  <2>2. i \in DOMAIN allocated /\ i # spaceid[t] - 1
    BY <1>1, <1>2 DEF ProcessTypes
  <2>3. QED
    BY <1>2, <2>1, <2>2 DEF LastSlotTaken
<1>6. CASE UNCHANGED <<allocated, spaceid>>
  BY <1>2, <1>6 DEF LastSlotTaken
<1>7. ASSUME NEW t \in Threads, Step(t), ~ExecTable(t), ~ExitTable(t)
      PROVE  UNCHANGED <<allocated, spaceid>>
  BY <1>7
  DEF Step, ReadMem, WriteMem, Fault, BusError, Exec, Exit, Enter, LeaveFails, ClearFails,
      FirstAlloc, SecondAlloc, AllocPage, Evict, EvictSpins, FreeVictim, PageIn, ExecStore,
      ExitTest, ExitFree, ExitDone, processes
<1>8. QED
  BY <1>4, <1>5, <1>6, <1>7 DEF Next, vars, processes

\* No process that exits finds the table empty, so that none of them halts the
\* machine as syscall_exit means the last one to: Table::Release clears the entry
\* below the one it is given.
THEOREM TableNeverEmpty == Spec => [](FreeSlots # DOMAIN allocated)
<1>1. Init => Inv /\ LastSlotTaken
  BY InitInv, InitLastSlotTaken
<1>2. Inv /\ LastSlotTaken /\ [Next]_vars => Inv' /\ LastSlotTaken'
  BY StepKeepsInv, StepKeepsLastSlotTaken
<1>3. Inv /\ LastSlotTaken => FreeSlots # DOMAIN allocated
  BY DEF Inv, Local, TypeOK, ProcessTypes, LastSlotTaken, FreeSlots
<1>4. QED
  BY <1>1, <1>2, <1>3, PTL DEF Spec
-------------------------------------------------------------------------------
(* That demand paging implements PrivateMemory, for all processes,         *)
(* programs, executables and sizes, and whatever a new bstore_array holds. *)

\* Nobody knows a thread before it starts, and it has nothing in memory.
Unknown ==
  \A w \in Threads :
    pc[w] \in {"unborn", "made"} =>
      /\ \A u \in Threads : file[u] # w
      /\ \A i \in -1 .. TableSize - 1 : directory[i] # w
      /\ file[w] = NoThread
      /\ \A p \in Pages : ~Resident(w, p)

\* A file that a name refers to is open in the thread that created it.
CreatorHasFile ==
  \A i \in -1 .. TableSize - 1, w \in Threads : directory[i] = w => file[w] = w

\* A clean page in memory has the bytes that are settled of the saved one.
Backed ==
  \A t \in Promised, p \in Pages :
    Resident(t, p) /\ pageTable[t][p].physicalPage # NoFrame /\ ~pageTable[t][p].dirty =>
      \A c \in Offsets : Saved(t, p)[c] # Unspecified =>
        mainMemory[pageTable[t][p].physicalPage][c] = Saved(t, p)[c]

Faithful == Inv /\ Unknown /\ CreatorHasFile /\ Backed
-------------------------------------------------------------------------------
(* What a step does to the places of the threads, and to their files.      *)

Young == {"unborn", "made"}

Live == {"user", "alloc", "evict", "free", "realloc", "load", "execTable", "execStore"}

\* A thread that steps is known; nobody but ExecStore starts a program.
LEMMA Moves ==
  ASSUME Local, NEW t \in Threads, Step(t), ~ExecStore(t)
  PROVE  /\ pc[t] \notin Young /\ pc'[t] \notin Young
         /\ \A u \in Threads : pc'[u] \in Live => pc[u] \in Live
         /\ \A u \in Threads : pc'[u] \in Young => pc[u] \in Young
         /\ \A u \in Threads : Running(u)' => Running(u)
<1>1. ControlTypes
  BY DEF Local, TypeOK
<1>2. /\ pc[t] \notin Young /\ pc'[t] \notin Young
      /\ \A u \in Threads : pc'[u] \in Live => pc[u] \in Live
      /\ \A u \in Threads : pc'[u] \in Young => pc[u] \in Young
  <2>1. CASE ReadMem(t) \/ WriteMem(t) \/ EvictSpins(t) \/ ClearFails(t)
    BY <2>1 DEF ReadMem, WriteMem, EvictSpins, ClearFails, Does, At, Young
  <2>2. CASE Enter(t) \/ LeaveFails(t)
    <3>1. UNCHANGED pc /\ pc[t] \in DOMAIN LockOf
      BY <1>1, <2>2 DEF Enter, LeaveFails, ControlTypes
    <3>2. QED
      BY <3>1, LockPlaces DEF Young
  <2>3. CASE Exec(t)
    <3>1. PICK c \in Threads :
            /\ pc[c] = "unborn" /\ pc[t] = "user"
            /\ pc' = [pc EXCEPT ![t] = "execTable", ![c] = "made"]
      BY <2>3 DEF Exec, Does, At
    <3>2. QED
      BY <1>1, <3>1 DEF ControlTypes, Young, Live
  <2>4. ASSUME NEW next \in Places, pc[t] \notin Young, pc' = [pc EXCEPT ![t] = next],
               next \notin Young, next \in Live => pc[t] \in Live
        PROVE  /\ pc[t] \notin Young /\ pc'[t] \notin Young
               /\ \A u \in Threads : pc'[u] \in Live => pc[u] \in Live
               /\ \A u \in Threads : pc'[u] \in Young => pc[u] \in Young
    BY <1>1, <2>4 DEF ControlTypes
  <2>5. CASE \/ Fault(t) \/ BusError(t) \/ Exit(t) \/ Evict(t) \/ PageIn(t) \/ ExitDone(t)
    <3>1. /\ pc[t] \in {"user", "evict", "load", "exitDone"}
          /\ \E next \in {"alloc", "exitTest", "free", "user", "dead"} :
               /\ pc' = [pc EXCEPT ![t] = next]
               /\ pc[t] = "exitDone" => next = "dead"
      BY <2>5 DEF Fault, BusError, Exit, Evict, PageIn, ExitDone, Does, At, Goto
    <3>2. QED
      BY <2>4, <3>1, LockPlaces DEF Places, Young, Live
  <2>6. CASE \/ FirstAlloc(t) \/ FreeVictim(t) \/ SecondAlloc(t) \/ ExecTable(t)
    <3>1. /\ pc[t] \in {"alloc", "free", "realloc", "execTable"}
          /\ \E next \in {"evict", "load", "realloc", "execStore"} :
               pc' = [pc EXCEPT ![t] = next]
      BY <2>6 DEF FirstAlloc, FreeVictim, SecondAlloc, ExecTable, Leave, At, Goto
    <3>2. QED
      BY <2>4, <3>1, LockPlaces DEF Places, Young, Live
  <2>7. CASE \/ ExitTest(t) \/ ExitTable(t) \/ ExitFree(t)
    <3>1. /\ pc[t] \in {"exitTest", "exitTable", "exitFree"}
          /\ \E next \in {"exitTable", "exitFree", "exitDone"} : pc' = [pc EXCEPT ![t] = next]
      BY <2>7 DEF ExitTest, ExitTable, ExitFree, Freeing, Leave, At, Goto
    <3>2. QED
      BY <2>4, <3>1, LockPlaces DEF Places, Young, Live
  <2>8. QED
    BY <2>1, <2>2, <2>3, <2>5, <2>6, <2>7 DEF Step
<1>3. \A u \in Threads : Running(u)' => Running(u)
  BY <1>2 DEF Running, Live
<1>4. QED
  BY <1>2, <1>3

LEMMA FilesKept ==
  ASSUME Local, NEW t \in Threads, Step(t), ~ExecStore(t)
  PROVE  /\ UNCHANGED file
         /\ \A i \in -1 .. TableSize - 1 : directory'[i] \in {directory[i], NoThread}
<1>1. CASE ExitDone(t)
  <2>1. directory' = [directory EXCEPT ![spaceid[t]] = NoThread] /\ UNCHANGED file
    BY <1>1 DEF ExitDone
  <2>2. QED
    BY <2>1 DEF Local, TypeOK, StoreTypes
<1>2. CASE ~ExitDone(t)
  <2>1. UNCHANGED <<file, directory>>
    BY <1>2
    DEF Step, ReadMem, WriteMem, Fault, BusError, Exec, Exit, Enter, LeaveFails, ClearFails,
        FirstAlloc, SecondAlloc, AllocPage, Evict, EvictSpins, FreeVictim, PageIn, ExecTable,
        ExitTest, ExitTable, ExitFree, stores
  <2>2. QED
    BY <2>1
<1>3. QED
  BY <1>1, <1>2

\* A step writes in no page table but that of its thread.
LEMMA OthersTables ==
  ASSUME Local, NEW t \in Threads, Step(t)
  PROVE  \A u \in Threads \ {t} : pageTable'[u] = pageTable[u]
<1>1. PagingTypes
  BY DEF Local, TypeOK
<1>2. CASE WriteMem(t) \/ FirstAlloc(t) \/ SecondAlloc(t) \/ Evict(t) \/ PageIn(t) \/ ExitDone(t)
  <2>1. \E x : pageTable' = [pageTable EXCEPT ![t] = x]
    <3>1. CASE WriteMem(t)
      BY <3>1 DEF WriteMem
    <3>2. CASE FirstAlloc(t) \/ SecondAlloc(t)
      BY <3>2 DEF FirstAlloc, SecondAlloc, AllocPage
    <3>3. CASE Evict(t)
      <4>1. PICK v \in Pages : pageTable' =
                 [pageTable EXCEPT ![t][v].valid = FALSE, ![t][v].dirty = FALSE]
        BY <3>3 DEF Evict
      <4>2. QED
        BY <1>1, <4>1 DEF PagingTypes
    <3>4. CASE PageIn(t) \/ ExitDone(t)
      BY <3>4 DEF PageIn, ExitDone
    <3>5. QED
      BY <1>2, <3>1, <3>2, <3>3, <3>4
  <2>2. QED
    BY <1>1, <2>1 DEF PagingTypes
<1>3. CASE ~(WriteMem(t) \/ FirstAlloc(t) \/ SecondAlloc(t) \/ Evict(t) \/ PageIn(t) \/ ExitDone(t))
  <2>1. UNCHANGED pageTable
    BY <1>3
    DEF Step, ReadMem, Fault, BusError, Exec, Exit, Enter, LeaveFails, ClearFails, EvictSpins,
        FreeVictim, ExecTable, ExecStore, ExitTest, ExitTable, ExitFree, paging
  <2>2. QED
    BY <2>1
<1>4. QED
  BY <1>2, <1>3

LEMMA UnknownKept ==
  ASSUME Local, Unknown, CreatorHasFile, NEW t \in Threads, Step(t), ~ExecStore(t)
  PROVE  Unknown' /\ CreatorHasFile'
<1>1. UNCHANGED file /\ \A i \in -1 .. TableSize - 1 : directory'[i] \in {directory[i], NoThread}
  BY FilesKept
<1>2. \A w \in Threads : w # NoThread
  BY VirtualMemoryAssumption
<1>3. \A w \in Threads : pc'[w] \in Young => w # t /\ pc[w] \in Young
  BY Moves
<1>4. \A w \in Threads \ {t} : pageTable'[w] = pageTable[w]
  BY OthersTables
<1>5. Unknown'
  BY <1>1, <1>2, <1>3, <1>4 DEF Unknown, Resident, Young
<1>6. CreatorHasFile'
  BY <1>1, <1>2 DEF CreatorHasFile
<1>7. QED
  BY <1>5, <1>6
-------------------------------------------------------------------------------
(* How what the programs find changes.                                     *)

\* What is settled of a page, as the steps of the pager keep it: a dirty page is
\* as the program left it, and any other as it will come in.
Held(t, p) ==
  IF pageTable[t][p].dirty THEN mainMemory[pageTable[t][p].physicalPage] ELSE Saved(t, p)

LEMMA SavedFunction ==
  ASSUME StoreTypes, NEW t \in Threads, NEW p \in Pages, file[t] \in Threads
  PROVE  Saved(t, p) = [c \in Offsets |-> Saved(t, p)[c]]
<1>1. disk[file[t]][p] \in Contents \cup {Hole}
  BY DEF StoreTypes
<1>2. \A bytes : Specified(bytes) = [c \in Offsets |-> Specified(bytes)[c]]
  BY DEF Specified
<1>3. CASE inStore[t][p] /\ disk[file[t]][p] # Hole
  BY <1>1, <1>3 DEF Saved, Contents
<1>4. CASE ~(inStore[t][p] /\ disk[file[t]][p] # Hole)
  <2>1. \E bytes : Saved(t, p) = Specified(bytes)
    BY <1>4, Zenon DEF Saved
  <2>2. QED
    BY <1>2, <2>1
<1>5. QED
  BY <1>3, <1>4

AsHeld == \A t \in Promised, p \in Pages : Content(t, p) = Held(t, p)

LEMMA ContentHeld == Local /\ Backed => AsHeld
<1> SUFFICES ASSUME Local, Backed, NEW t \in Promised, NEW p \in Pages
             PROVE  Content(t, p) = Held(t, p)
  BY DEF AsHeld
<1> DEFINE f == pageTable[t][p].physicalPage
<1>1. /\ PagingTypes /\ StoreTypes /\ FileOpen /\ DirtyHasFrame
      /\ t \in Threads /\ pc[t] \notin {"unborn", "made"}
  BY DEF Local, TypeOK, Promised, Running
<1>2. file[t] \in Threads /\ Saved(t, p) = [c \in Offsets |-> Saved(t, p)[c]]
  BY <1>1, SavedFunction DEF FileOpen
<1>3. CASE ~(Resident(t, p) /\ f # NoFrame)
  <2>1. ~pageTable[t][p].dirty
    BY <1>1, <1>3 DEF DirtyHasFrame
  <2>2. QED
    BY <1>3, <2>1, Zenon DEF Content, Held
<1>4. CASE Resident(t, p) /\ f # NoFrame
  <2>1. Content(t, p) = [c \in Offsets |->
                           IF pageTable[t][p].dirty \/ Saved(t, p)[c] # Unspecified
                           THEN mainMemory[f][c] ELSE Unspecified]
    BY <1>4, Zenon DEF Content
  <2>2. f \in Frames
    BY <1>1, <1>4, EntryTypes
  <2>3. CASE pageTable[t][p].dirty
    <3>1. mainMemory[f] \in [Offsets -> Values]
      BY <1>1, <2>2 DEF PagingTypes, Contents
    <3>2. Content(t, p) = [c \in Offsets |-> mainMemory[f][c]]
      BY <2>1, <2>3
    <3>3. Content(t, p) = mainMemory[f]
      BY <3>1, <3>2
    <3>4. QED
      BY <2>3, <3>3 DEF Held
  <2>4. CASE ~pageTable[t][p].dirty
    <3>1. \A c \in Offsets : Saved(t, p)[c] # Unspecified => mainMemory[f][c] = Saved(t, p)[c]
      BY <1>4, <2>4 DEF Backed
    <3>2. Held(t, p) = Saved(t, p)
      BY <2>4 DEF Held
    <3> DEFINE saved == Saved(t, p)
    <3>3. /\ saved = [c \in Offsets |-> saved[c]]
          /\ \A c \in Offsets : saved[c] # Unspecified => mainMemory[f][c] = saved[c]
          /\ Content(t, p) = [c \in Offsets |-> IF saved[c] # Unspecified
                                               THEN mainMemory[f][c] ELSE Unspecified]
      BY <1>2, <2>1, <2>4, <3>1
    <3> HIDE DEF saved
    <3>4. [c \in Offsets |-> IF saved[c] # Unspecified THEN mainMemory[f][c] ELSE Unspecified]
            = [c \in Offsets |-> saved[c]]
      BY <3>3
    <3>5. Content(t, p) = saved
      BY <3>3, <3>4, Zenon
    <3>6. QED
      BY <3>2, <3>5 DEF saved
  <2>5. QED
    BY <2>3, <2>4
<1>5. QED
  BY <1>3, <1>4

LEMMA ContentHeldNext == Local' /\ Backed' => AsHeld'
BY ContentHeld, PTL

\* What a step keeps of the pages as they are held, it keeps of what programs find.
LEMMA ContentKept ==
  ASSUME Local, Backed, Local', Backed', Promised' \subseteq Promised,
         \A u \in Promised', p \in Pages : Held(u, p)' = Held(u, p)
  PROVE  \A u \in Promised', p \in Pages : Content(u, p)' = Content(u, p)
<1>1. AsHeld /\ AsHeld'
  BY ContentHeld, ContentHeldNext
<1>2. QED
  BY <1>1 DEF AsHeld

LEMMA MappedWithout ==
  ASSUME Promised' \subseteq Promised,
         \A u \in Promised', p \in Pages : Content(u, p)' = Content(u, p)
  PROVE  Memory' = Promise!Without(Promised \ Promised')
<1>1. DOMAIN Memory = Promised
  BY DEF Memory
<1>2. Promise!Without(Promised \ Promised') = [u \in Promised' |-> Memory[u]]
  BY <1>1 DEF Promise!Without
<1>3. \A u \in Promised' : Memory[u] = [p \in Pages |-> Content(u, p)]
  BY DEF Memory
<1>4. Memory' = [u \in Promised' |-> [p \in Pages |-> Content(u, p)']]
  BY DEF Memory
<1>5. QED
  BY <1>2, <1>3, <1>4

LEMMA MappedSame ==
  ASSUME Promised' = Promised,
         \A u \in Promised, p \in Pages : Content(u, p)' = Content(u, p)
  PROVE  Memory' = Memory
<1>1. Memory' = [u \in Promised |-> [p \in Pages |-> Content(u, p)']]
  BY DEF Memory
<1>2. QED
  BY <1>1 DEF Memory

\* Some programs lose the promise, and nothing changes for the others.
LEMMA MappedLeave ==
  ASSUME Promised' \subseteq Promised,
         \A u \in Promised', p \in Pages : Content(u, p)' = Content(u, p),
         UNCHANGED todo
  PROVE  Promise!Next
<1>1. Memory' = Promise!Without(Promised \ Promised')
  BY MappedWithout
<1>2. Promised \ Promised' \in SUBSET Threads
  BY DEF Promised
<1>3. Promise!Leave(Promised \ Promised')
  BY <1>1 DEF Promise!Leave
<1>4. QED
  BY <1>2, <1>3 DEF Promise!Next

\* A step that writes to no frame and no file changes no page a program has.
LEMMA NothingWritten ==
  ASSUME Backed, DirtyHasFrame,
         UNCHANGED <<file, mainMemory>>,
         \A u \in Threads : Running(u)' => Running(u),
         \A u \in Promised, p \in Pages :
           Running(u)' =>
             /\ pageTable'[u][p].valid = pageTable[u][p].valid
             /\ pageTable'[u][p].dirty = pageTable[u][p].dirty
             /\ Resident(u, p) => pageTable'[u][p].physicalPage = pageTable[u][p].physicalPage
             /\ inStore'[u][p] = inStore[u][p]
             /\ disk'[file[u]][p] = disk[file[u]][p]
  PROVE  /\ Backed'
         /\ Promised' \subseteq Promised
         /\ \A u \in Promised', p \in Pages : Held(u, p)' = Held(u, p)
<1>1. Promised' \subseteq Promised /\ \A u \in Promised' : Running(u)'
  BY DEF Promised, Alone
<1>2. \A u \in Promised', p \in Pages : Saved(u, p)' = Saved(u, p)
  BY <1>1, Zenon DEF Saved
<1>3. Backed'
  <2>1. SUFFICES ASSUME NEW u \in Promised', NEW p \in Pages,
                        pageTable'[u][p].valid, pageTable'[u][p].physicalPage # NoFrame,
                        ~pageTable'[u][p].dirty
                 PROVE  \A c \in Offsets : Saved(u, p)'[c] # Unspecified =>
                          mainMemory'[pageTable'[u][p].physicalPage][c] = Saved(u, p)'[c]
    BY DEF Backed, Resident
  <2>2. u \in Promised /\ Saved(u, p)' = Saved(u, p)
    BY <1>1, <1>2, <2>1
  <2>3. /\ Resident(u, p) /\ ~pageTable[u][p].dirty
        /\ pageTable'[u][p].physicalPage = pageTable[u][p].physicalPage
    BY <1>1, <2>1, <2>2 DEF Resident
  <2>4. \A c \in Offsets : Saved(u, p)[c] # Unspecified =>
           mainMemory[pageTable[u][p].physicalPage][c] = Saved(u, p)[c]
    BY <2>1, <2>2, <2>3 DEF Backed
  <2>5. QED
    BY <2>2, <2>3, <2>4
<1>4. ASSUME NEW u \in Promised', NEW p \in Pages
      PROVE  Held(u, p)' = Held(u, p)
  <2>1. /\ u \in Threads
        /\ pageTable'[u][p].dirty = pageTable[u][p].dirty
        /\ Resident(u, p) => pageTable'[u][p].physicalPage = pageTable[u][p].physicalPage
    BY <1>1, <1>4 DEF Promised
  <2>2. pageTable[u][p].dirty => Resident(u, p)
    BY <2>1 DEF DirtyHasFrame
  <2>3. QED
    BY <1>2, <2>1, <2>2 DEF Held
<1>5. QED
  BY <1>1, <1>3, <1>4

LEMMA AllocTouches ==
  ASSUME Local, NEW t \in Threads, FirstAlloc(t) \/ SecondAlloc(t)
  PROVE  \A u \in Threads, q \in Pages :
           /\ pageTable'[u][q].valid = pageTable[u][q].valid
           /\ pageTable'[u][q].dirty = pageTable[u][q].dirty
           /\ Resident(u, q) => pageTable'[u][q].physicalPage = pageTable[u][q].physicalPage
<1> DEFINE p == page[t]
<1>1. ControlTypes /\ PagingTypes /\ Handled
  BY DEF Local, TypeOK
<1>2. pc[t] \in {"alloc", "realloc"} /\ AllocPage(t)
  BY DEF FirstAlloc, SecondAlloc, Leave, At
<1>3. p \in Pages /\ ~pageTable[t][p].valid
  BY <1>1, <1>2 DEF Handled, Resident
<1>4. PICK f \in Frames \cup {NoFrame} :
        pageTable' = [pageTable EXCEPT ![t][p].physicalPage = f]
  BY <1>2, FirstFreeIsFree DEF AllocPage
<1> DEFINE e == [pageTable[t][p] EXCEPT !.physicalPage = f]
<1>5. pageTable[t][p] \in Entries
  BY <1>1, <1>3, EntryTypes
<1>6. e \in Entries /\ e.valid = pageTable[t][p].valid /\ e.dirty = pageTable[t][p].dirty
  BY <1>5 DEF Entries
<1>7. pageTable' = [pageTable EXCEPT ![t][p] = e]
  BY <1>4
<1> HIDE DEF e
<1>8. /\ pageTable'[t][p] = e
      /\ \A q \in Pages \ {p} : pageTable'[t][q] = pageTable[t][q]
      /\ \A u \in Threads \ {t} : pageTable'[u] = pageTable[u]
  <2>1. pageTable \in [Threads -> [Pages -> Entries]]
    BY <1>1 DEF PagingTypes
  <2>2. QED
    BY <1>3, <1>6, <1>7, <2>1, SMTT(30)
<1>9. QED
  BY <1>3, <1>6, <1>8 DEF Resident

LEMMA QuietSteps ==
  ASSUME Local, Backed, NEW t \in Threads, ~ExecStore(t),
         \/ ReadMem(t) \/ Fault(t) \/ BusError(t) \/ Exec(t) \/ Exit(t)
         \/ Enter(t) \/ LeaveFails(t) \/ ClearFails(t) \/ EvictSpins(t)
         \/ FirstAlloc(t) \/ SecondAlloc(t) \/ FreeVictim(t) \/ ExecTable(t)
         \/ ExitTest(t) \/ ExitTable(t) \/ ExitFree(t)
  PROVE  /\ Backed'
         /\ Promised' \subseteq Promised
         /\ \A u \in Promised', p \in Pages : Held(u, p)' = Held(u, p)
<1>1. UNCHANGED <<mainMemory, inStore, file, directory, disk>>
  BY DEF ReadMem, Fault, BusError, Exec, Exit, Enter, LeaveFails, ClearFails, EvictSpins,
         FirstAlloc, SecondAlloc, AllocPage, FreeVictim, ExecTable, ExitTest, ExitTable,
         ExitFree, paging, stores
<1>2. \A u \in Threads : Running(u)' => Running(u)
  BY Moves DEF Step
<1>3. \A u \in Threads, p \in Pages :
        /\ pageTable'[u][p].valid = pageTable[u][p].valid
        /\ pageTable'[u][p].dirty = pageTable[u][p].dirty
        /\ Resident(u, p) => pageTable'[u][p].physicalPage = pageTable[u][p].physicalPage
  <2>1. CASE FirstAlloc(t) \/ SecondAlloc(t)
    BY <2>1, AllocTouches
  <2>2. CASE ~(FirstAlloc(t) \/ SecondAlloc(t))
    <3>1. UNCHANGED pageTable
      BY <2>2 DEF ReadMem, Fault, BusError, Exec, Exit, Enter, LeaveFails, ClearFails,
                  EvictSpins, FreeVictim, ExecTable, ExitTest, ExitTable, ExitFree, paging
    <3>2. QED
      BY <3>1
  <2>3. QED
    BY <2>1, <2>2
<1>4. QED
  BY <1>1, <1>2, <1>3, NothingWritten DEF Promised, Local

\* The files of other programs survive an exit.
LEMMA ExitDoneKeeps ==
  ASSUME Local, Backed, NEW t \in Threads, ExitDone(t), ~ExecStore(t)
  PROVE  /\ Backed'
         /\ Promised' \subseteq Promised
         /\ \A u \in Promised', p \in Pages : Held(u, p)' = Held(u, p)
<1>1. ControlTypes /\ PagingTypes /\ StoreTypes /\ FileOpen /\ DirtyHasFrame
  BY DEF Local, TypeOK
<1>2. /\ pc[t] = "exitDone"
      /\ UNCHANGED <<file, mainMemory>>
      /\ inStore' = [inStore EXCEPT ![t] = [p \in Pages |-> FALSE]]
      /\ disk' = disk \/ disk' = [disk EXCEPT ![file[t]] = [p \in Pages |-> Hole]]
  BY DEF ExitDone, At
<1>3. \A u \in Threads : Running(u)' => Running(u)
  BY Moves DEF Step
<1>4. \A u \in Promised : u \in Threads /\ u # t /\ file[u] # file[t]
  BY <1>2 DEF Promised, Running, Alone
<1>5. \A u \in Promised : pageTable'[u] = pageTable[u]
  BY <1>4, OthersTables DEF Step
<1>6. \A u \in Promised : inStore'[u] = inStore[u] /\ disk'[file[u]] = disk[file[u]]
  <2>1. \A u \in Promised : file[u] \in Threads
    BY <1>1 DEF Promised, Running, FileOpen
  <2>2. QED
    BY <1>1, <1>2, <1>4, <2>1 DEF StoreTypes
<1>7. QED
  BY <1>1, <1>2, <1>3, <1>5, <1>6, NothingWritten

\* Nobody else has the frame that is written to.
LEMMA FrameOfNoOther ==
  ASSUME FramesExclusive, NEW t \in Threads, NEW p \in Pages, NEW f \in Frames,
         HoldsFrame(t, p, f)
  PROVE  \A u \in Threads, q \in Pages :
           Running(u) /\ Resident(u, q) /\ ~(u = t /\ q = p) => pageTable[u][q].physicalPage # f
<1>1. SUFFICES ASSUME NEW u \in Threads, NEW q \in Pages, Running(u), Resident(u, q),
                      pageTable[u][q].physicalPage = f
               PROVE  u = t /\ q = p
  OBVIOUS
<1>2. HoldsFrame(u, q, f)
  BY <1>1 DEF HoldsFrame, Running
<1>3. QED
  BY <1>2 DEF FramesExclusive

\* A store changes a byte of the program that makes it, and settles the page.
LEMMA StoreKeeps ==
  ASSUME Inv, Backed, NEW t \in Threads, WriteMem(t)
  PROVE  LET op == Head(todo[t])
         IN  /\ Backed'
             /\ Promised' = Promised
             /\ \A u \in Promised, q \in Pages :
                  ~(u = t /\ q = op.page) => Held(u, q)' = Held(u, q)
             /\ \A q \in Pages :
                  t \in Promised /\ q = op.page =>
                    Held(t, q)' \in Promise!Stored(Held(t, q), op.offset, op.value)
<1>1. ControlTypes /\ PagingTypes /\ FramesExclusive /\ DirtyHasFrame
  BY DEF Inv, Local, TypeOK
<1>2. todo[t] # <<>>
  BY DEF WriteMem, Does
<1>3. PICK p \in Pages, o \in Offsets, v \in Values :
        p = Head(todo[t]).page /\ o = Head(todo[t]).offset /\ v = Head(todo[t]).value
  BY <1>1, <1>2, DoesTypes
<1>4. PICK f : f = pageTable[t][p].physicalPage
  OBVIOUS
<1> DEFINE e == [pageTable[t][p] EXCEPT !.dirty = TRUE]
<1>5. /\ pc[t] = "user"
      /\ Resident(t, p) /\ f # NoFrame
      /\ mainMemory' = [mainMemory EXCEPT ![f][o] = v]
      /\ pageTable' = [pageTable EXCEPT ![t][p].dirty = TRUE]
      /\ UNCHANGED <<pc, file, inStore, disk>>
  BY <1>3, <1>4 DEF WriteMem, Does, At, stores
<1>6. f \in Frames /\ pageTable[t][p] \in Entries
  BY <1>1, <1>5, <1>4, <1>3, EntryTypes
<1>7. e \in Entries /\ e.valid = pageTable[t][p].valid /\ e.dirty /\ e.physicalPage = f
  BY <1>4, <1>6 DEF Entries
<1>8. pageTable' = [pageTable EXCEPT ![t][p] = e]
  BY <1>5, <1>4
<1> HIDE DEF e
<1>9. /\ pageTable'[t][p] = e
      /\ \A q \in Pages \ {p} : pageTable'[t][q] = pageTable[t][q]
      /\ \A u \in Threads \ {t} : pageTable'[u] = pageTable[u]
  <2>1. pageTable \in [Threads -> [Pages -> Entries]]
    BY <1>1 DEF PagingTypes
  <2>2. QED
    BY <1>3, <1>8, <2>1, SMTT(30)
<1>10. /\ Promised' = Promised
       /\ \A u \in Promised, q \in Pages : Saved(u, q)' = Saved(u, q)
       /\ \A u \in Promised : u \in Threads /\ Running(u)
  BY <1>5, <1>4 DEF Promised, Running, Alone, Saved
<1>11. HoldsFrame(t, p, f)
  BY <1>5, <1>4 DEF HoldsFrame
<1>12. \A u \in Promised, q \in Pages :
         Resident(u, q) /\ ~(u = t /\ q = p) => pageTable[u][q].physicalPage # f
  BY <1>1, <1>3, <1>6, <1>10, <1>11, FrameOfNoOther
<1>13. mainMemory \in [Frames -> Contents] /\ mainMemory[f] \in [Offsets -> Values]
  BY <1>1, <1>6 DEF PagingTypes, Contents
<1>14. /\ mainMemory'[f] = [mainMemory[f] EXCEPT ![o] = v]
       /\ \A g \in Frames \ {f} : mainMemory'[g] = mainMemory[g]
  BY <1>5, <1>4, <1>6, <1>13
<1>15. ASSUME NEW u \in Promised, NEW q \in Pages, ~(u = t /\ q = p)
       PROVE  /\ pageTable'[u][q] = pageTable[u][q]
              /\ Resident(u, q) /\ pageTable[u][q].physicalPage # NoFrame =>
                   mainMemory'[pageTable[u][q].physicalPage]
                     = mainMemory[pageTable[u][q].physicalPage]
  <2>1. pageTable'[u][q] = pageTable[u][q] /\ u \in Threads
    BY <1>9, <1>10, <1>15
  <2>2. pageTable[u][q].physicalPage \in Frames \cup {NoFrame}
    BY <1>1, <2>1, EntryTypes
  <2>3. QED
    BY <1>12, <1>14, <1>15, <2>1, <2>2
<1>16. ASSUME NEW u \in Promised, NEW q \in Pages, ~(u = t /\ q = p)
       PROVE  Held(u, q)' = Held(u, q)
  <2>1. pageTable[u][q].dirty => Resident(u, q) /\ pageTable[u][q].physicalPage # NoFrame
    BY <1>1, <1>10, <1>16 DEF DirtyHasFrame
  <2>2. Saved(u, q)' = Saved(u, q)
    BY <1>10, <1>16
  <2>3. QED
    BY <1>15, <1>16, <2>1, <2>2 DEF Held
<1>17. Backed'
  <2>1. SUFFICES ASSUME NEW u \in Promised, NEW q \in Pages,
                        pageTable'[u][q].valid, pageTable'[u][q].physicalPage # NoFrame,
                        ~pageTable'[u][q].dirty
                 PROVE  \A c \in Offsets : Saved(u, q)'[c] # Unspecified =>
                          mainMemory'[pageTable'[u][q].physicalPage][c] = Saved(u, q)'[c]
    BY <1>10 DEF Backed, Resident
  <2>2. ~(u = t /\ q = p)
    BY <1>7, <1>9, <2>1
  <2>3. pageTable'[u][q] = pageTable[u][q] /\ Saved(u, q)' = Saved(u, q)
    BY <1>10, <1>15, <2>1, <2>2
  <2>4. mainMemory'[pageTable[u][q].physicalPage] = mainMemory[pageTable[u][q].physicalPage]
    BY <1>15, <2>1, <2>2, <2>3 DEF Resident
  <2>5. \A c \in Offsets : Saved(u, q)[c] # Unspecified =>
           mainMemory[pageTable[u][q].physicalPage][c] = Saved(u, q)[c]
    BY <2>1, <2>3 DEF Backed, Resident
  <2>6. QED
    BY <2>3, <2>4, <2>5
<1>18. ASSUME t \in Promised
       PROVE  Held(t, p)' \in Promise!Stored(Held(t, p), o, v)
  <2>1. Held(t, p)' = mainMemory'[f]
    BY <1>7, <1>9 DEF Held
  <2>2. \A c \in Offsets : Held(t, p)[c] # Unspecified => mainMemory[f][c] = Held(t, p)[c]
    BY <1>5, <1>4, <1>3, <1>18 DEF Held, Backed
  <2>3. mainMemory'[f] \in [Offsets -> Values]
    BY <1>3, <1>13, <1>14
  <2>4. mainMemory'[f][o] = v /\ \A c \in Offsets \ {o} : mainMemory'[f][c] = mainMemory[f][c]
    BY <1>3, <1>13, <1>14
  <2>5. \A c \in Offsets \ {o} : Held(t, p)[c] # Unspecified => mainMemory'[f][c] = Held(t, p)[c]
    BY <2>2, <2>4
  <2>6. mainMemory'[f] \in Promise!Stored(Held(t, p), o, v)
    BY <2>3, <2>4, <2>5 DEF Promise!Stored
  <2>7. QED
    BY <2>1, <2>6
<1>19. QED
  BY <1>3, <1>10, <1>16, <1>17, <1>18

\* What is evicted can be read again.
LEMMA EvictKeeps ==
  ASSUME Inv, Backed, NEW t \in Threads, Evict(t)
  PROVE  /\ Backed'
         /\ Promised' = Promised
         /\ \A u \in Promised, q \in Pages : Held(u, q)' = Held(u, q)
<1>1. ControlTypes /\ PagingTypes /\ StoreTypes /\ DirtyHasFrame /\ FileOpen
  BY DEF Inv, Local, TypeOK
<1>2. PICK v \in Pages :
        /\ Resident(t, v)
        /\ IF pageTable[t][v].dirty
           THEN /\ disk' = [disk EXCEPT ![file[t]][v] = mainMemory[pageTable[t][v].physicalPage]]
                /\ inStore' = [inStore EXCEPT ![t][v] = TRUE]
           ELSE UNCHANGED <<disk, inStore>>
        /\ pageTable' = [pageTable EXCEPT ![t][v].valid = FALSE, ![t][v].dirty = FALSE]
  BY DEF Evict
<1>3. /\ pc[t] = "evict" /\ pc' = [pc EXCEPT ![t] = "free"]
      /\ UNCHANGED <<mainMemory, file>>
  BY DEF Evict, At, Goto
<1> DEFINE e == [pageTable[t][v] EXCEPT !.valid = FALSE, !.dirty = FALSE]
           f == pageTable[t][v].physicalPage
<1>4. pageTable[t][v] \in Entries
  BY <1>1, EntryTypes
<1>5. e \in Entries /\ ~e.valid /\ ~e.dirty
  BY <1>4 DEF Entries
<1>6. pageTable' = [pageTable EXCEPT ![t][v] = e]
  BY <1>1, <1>2, <1>4 DEF PagingTypes, Entries
<1> HIDE DEF e
<1>7. /\ pageTable'[t][v] = e
      /\ \A q \in Pages \ {v} : pageTable'[t][q] = pageTable[t][q]
      /\ \A u \in Threads \ {t} : pageTable'[u] = pageTable[u]
  <2>1. pageTable \in [Threads -> [Pages -> Entries]]
    BY <1>1 DEF PagingTypes
  <2>2. QED
    BY <1>5, <1>6, <2>1, SMTT(30)
<1>8. /\ Promised' = Promised
      /\ \A u \in Promised \ {t} : u \in Threads /\ file[u] # file[t]
      /\ \A u \in Promised : u \in Threads
  <2>1. \A u \in Threads : Running(u)' <=> Running(u)
    BY <1>1, <1>3 DEF Running, ControlTypes
  <2>2. \A u \in Threads : Alone(u)' <=> Alone(u)
    BY <1>3 DEF Alone
  <2>3. QED
    BY <2>1, <2>2 DEF Promised, Alone
<1>9. /\ file[t] \in Threads
      /\ disk \in [Threads -> [Pages -> Contents \cup {Hole}]]
      /\ inStore \in [Threads -> [Pages -> BOOLEAN]]
      /\ \A u \in Promised : file[u] \in Threads
  BY <1>1, <1>3 DEF FileOpen, StoreTypes, Promised, Running
<1>10. \A u \in Promised, q \in Pages :
         ~(u = t /\ q = v) =>
           /\ pageTable'[u][q] = pageTable[u][q]
           /\ inStore'[u][q] = inStore[u][q]
           /\ disk'[file[u]][q] = disk[file[u]][q]
  <2>1. \A u \in Promised, q \in Pages :
          ~(u = t /\ q = v) => pageTable'[u][q] = pageTable[u][q]
    BY <1>7, <1>8
  <2>2. CASE pageTable[t][v].dirty
    <3>1. /\ disk' = [disk EXCEPT ![file[t]][v] = mainMemory[f]]
          /\ inStore' = [inStore EXCEPT ![t][v] = TRUE]
      BY <1>2, <2>2
    <3>2. QED
      BY <1>8, <1>9, <2>1, <3>1
  <2>3. CASE ~pageTable[t][v].dirty
    BY <1>2, <2>1, <2>3
  <2>4. QED
    BY <2>2, <2>3
<1>11. ASSUME NEW u \in Promised, NEW q \in Pages, ~(u = t /\ q = v)
       PROVE  Saved(u, q)' = Saved(u, q) /\ Held(u, q)' = Held(u, q)
  <2>1. /\ pageTable'[u][q] = pageTable[u][q]
        /\ inStore'[u][q] = inStore[u][q]
        /\ disk'[file[u]][q] = disk[file[u]][q]
        /\ UNCHANGED <<mainMemory, file>>
    BY <1>3, <1>10, <1>11
  <2>2. Saved(u, q)' = Saved(u, q)
    BY <2>1, Zenon DEF Saved
  <2>3. QED
    BY <2>1, <2>2 DEF Held
<1>12. ASSUME t \in Promised
       PROVE  Held(t, v)' = Held(t, v)
  <2>1. Held(t, v)' = Saved(t, v)'
    BY <1>5, <1>7 DEF Held
  <2>2. CASE pageTable[t][v].dirty
    <3>1. f \in Frames
      BY <1>1, <2>2, EntryTypes DEF DirtyHasFrame
    <3>2. mainMemory[f] # Hole
      BY <1>1, <3>1, VirtualMemoryAssumption DEF PagingTypes
    <3>3. /\ disk' = [disk EXCEPT ![file[t]][v] = mainMemory[f]]
          /\ inStore' = [inStore EXCEPT ![t][v] = TRUE]
      BY <1>2, <2>2
    <3>4. disk'[file[t]][v] = mainMemory[f] /\ inStore'[t][v]
      BY <1>9, <3>3
    <3>5. Held(t, v) = mainMemory[f]
      BY <2>2 DEF Held
    <3>6. Saved(t, v)' = mainMemory[f]
      BY <1>3, <3>2, <3>4 DEF Saved
    <3>7. QED
      BY <2>1, <3>5, <3>6
  <2>3. CASE ~pageTable[t][v].dirty
    <3>1. UNCHANGED <<disk, inStore, file>>
      BY <1>2, <1>3, <2>3
    <3>2. Saved(t, v)' = Saved(t, v)
      BY <3>1, Zenon DEF Saved
    <3>3. QED
      BY <2>1, <2>3, <3>2 DEF Held
  <2>4. QED
    BY <2>2, <2>3
<1>13. \A u \in Promised, q \in Pages : Held(u, q)' = Held(u, q)
  BY <1>11, <1>12
<1>14. Backed'
  <2>1. SUFFICES ASSUME NEW u \in Promised, NEW q \in Pages,
                        pageTable'[u][q].valid, pageTable'[u][q].physicalPage # NoFrame,
                        ~pageTable'[u][q].dirty
                 PROVE  \A c \in Offsets : Saved(u, q)'[c] # Unspecified =>
                          mainMemory'[pageTable'[u][q].physicalPage][c] = Saved(u, q)'[c]
    BY <1>8 DEF Backed, Resident
  <2>2. ~(u = t /\ q = v)
    BY <1>5, <1>7, <2>1
  <2>3. pageTable'[u][q] = pageTable[u][q] /\ Saved(u, q)' = Saved(u, q)
    BY <1>10, <1>11, <2>1, <2>2
  <2>4. \A c \in Offsets : Saved(u, q)[c] # Unspecified =>
           mainMemory[pageTable[u][q].physicalPage][c] = Saved(u, q)[c]
    BY <2>1, <2>3 DEF Backed, Resident
  <2>5. QED
    BY <1>3, <2>3, <2>4
<1>15. QED
  BY <1>8, <1>13, <1>14

\* What is loaded is what was saved, as far as that is settled.
LEMMA LoadedIsSaved ==
  ASSUME NEW t \in Threads, NEW p \in Pages, StoreTypes, file[t] \in Threads,
         NEW bytes, bytes = IF inStore[t][p] THEN Reloaded(file[t], p) ELSE Loaded[p],
         NEW old
  PROVE  \A c \in Offsets : Saved(t, p)[c] # Unspecified => Over(bytes, old)[c] = Saved(t, p)[c]
<1>1. \A c \in Offsets : c \in DOMAIN bytes => Over(bytes, old)[c] = bytes[c]
  BY DEF Over
<1>2. CASE ~inStore[t][p]
  <2>1. Saved(t, p) = Specified(bytes)
    BY <1>2, Zenon DEF Saved
  <2>2. QED
    BY <1>1, <2>1 DEF Specified
<1>3. CASE inStore[t][p] /\ disk[file[t]][p] = Hole
  <2>1. Saved(t, p) = Specified(Nothing)
    BY <1>3, Zenon DEF Saved
  <2>2. DOMAIN Nothing = {}
    BY DEF Nothing
  <2>3. QED
    BY <2>1, <2>2 DEF Specified
<1>4. CASE inStore[t][p] /\ disk[file[t]][p] # Hole
  <2>1. Saved(t, p) = disk[file[t]][p] /\ bytes = disk[file[t]][p]
    BY <1>4, Zenon DEF Saved, Reloaded
  <2>2. disk[file[t]][p] \in [Offsets -> Values]
    BY <1>4 DEF StoreTypes, Contents
  <2>3. QED
    BY <1>1, <2>1, <2>2
<1>5. QED
  BY <1>2, <1>3, <1>4

LEMMA PageInKeeps ==
  ASSUME Inv, Backed, NEW t \in Threads, PageIn(t)
  PROVE  /\ Backed'
         /\ Promised' = Promised
         /\ \A u \in Promised, q \in Pages : Held(u, q)' = Held(u, q)
<1> DEFINE p == page[t]
           f == pageTable[t][p].physicalPage
           e == [pageTable[t][p] EXCEPT !.valid = TRUE]
<1>1. /\ ControlTypes /\ PagingTypes /\ StoreTypes /\ FileOpen
      /\ FramesExclusive /\ DirtyHasFrame /\ Handled
  BY DEF Inv, Local, TypeOK
<1>2. /\ pc[t] = "load" /\ pc' = [pc EXCEPT ![t] = "user"]
      /\ pageTable' = [pageTable EXCEPT ![t][p].valid = TRUE]
      /\ UNCHANGED <<file, inStore, disk>>
  BY DEF PageIn, At, Goto, stores
<1>3. p \in Pages /\ ~Resident(t, p)
  BY <1>1, <1>2 DEF Handled
<1>4. PICK v : /\ \A c \in Offsets : Saved(t, p)[c] # Unspecified => v[c] = Saved(t, p)[c]
               /\ mainMemory' = IF f = NoFrame THEN mainMemory ELSE [mainMemory EXCEPT ![f] = v]
  <2> DEFINE bytes == IF inStore[t][p] THEN Reloaded(file[t], p) ELSE Loaded[p]
             v == Over(bytes, mainMemory[f])
  <2>1. mainMemory' = IF f = NoFrame THEN mainMemory ELSE [mainMemory EXCEPT ![f] = v]
    BY DEF PageIn
  <2>2. file[t] \in Threads
    BY <1>1, <1>2 DEF FileOpen
  <2>3. \A c \in Offsets : Saved(t, p)[c] # Unspecified => v[c] = Saved(t, p)[c]
    BY <1>1, <1>3, <2>2, LoadedIsSaved
  <2> HIDE DEF v
  <2>4. QED
    BY <2>1, <2>3
<1>5. f \in Frames \cup {NoFrame} /\ pageTable[t][p] \in Entries /\ ~pageTable[t][p].dirty
  BY <1>1, <1>3, EntryTypes DEF DirtyHasFrame
<1>6. e \in Entries /\ e.valid /\ ~e.dirty /\ e.physicalPage = f
  BY <1>5 DEF Entries
<1>7. pageTable' = [pageTable EXCEPT ![t][p] = e]
  BY <1>2
<1> HIDE DEF e
<1>8. /\ pageTable'[t][p] = e
      /\ \A q \in Pages \ {p} : pageTable'[t][q] = pageTable[t][q]
      /\ \A u \in Threads \ {t} : pageTable'[u] = pageTable[u]
  <2>1. pageTable \in [Threads -> [Pages -> Entries]]
    BY <1>1 DEF PagingTypes
  <2>2. QED
    BY <1>3, <1>6, <1>7, <2>1, SMTT(30)
<1>9. /\ Promised' = Promised
      /\ \A u \in Promised : u \in Threads /\ Running(u)
      /\ \A u \in Promised, q \in Pages : Saved(u, q)' = Saved(u, q)
  <2>1. \A u \in Threads : Running(u)' <=> Running(u)
    BY <1>1, <1>2 DEF Running, ControlTypes
  <2>2. \A u \in Threads : Alone(u)' <=> Alone(u)
    BY <1>2 DEF Alone
  <2>3. \A u \in Promised, q \in Pages : Saved(u, q)' = Saved(u, q)
    BY <1>2 DEF Saved
  <2>4. QED
    BY <2>1, <2>2, <2>3 DEF Promised
<1>10. \A u \in Promised, q \in Pages :
         Resident(u, q) /\ pageTable[u][q].physicalPage # NoFrame =>
           mainMemory'[pageTable[u][q].physicalPage] = mainMemory[pageTable[u][q].physicalPage]
  <2>1. SUFFICES ASSUME NEW u \in Promised, NEW q \in Pages,
                        Resident(u, q), pageTable[u][q].physicalPage # NoFrame
                 PROVE  mainMemory'[pageTable[u][q].physicalPage]
                          = mainMemory[pageTable[u][q].physicalPage]
    OBVIOUS
  <2>2. CASE f = NoFrame
    BY <1>4, <2>2
  <2>3. CASE f # NoFrame
    <3>1. f \in Frames
      BY <1>5, <2>3
    <3>2. HoldsFrame(t, p, f)
      BY <1>2 DEF HoldsFrame
    <3>3. ~(u = t /\ q = p)
      BY <1>3, <2>1
    <3>4. pageTable[u][q].physicalPage # f
      BY <1>1, <1>3, <1>9, <2>1, <3>1, <3>2, <3>3, FrameOfNoOther
    <3>5. pageTable[u][q].physicalPage \in Frames
      BY <1>1, <1>9, <2>1, EntryTypes
    <3>6. mainMemory \in [Frames -> Contents] /\ mainMemory' = [mainMemory EXCEPT ![f] = v]
      BY <1>1, <1>4, <2>3 DEF PagingTypes
    <3>7. QED
      BY <3>4, <3>5, <3>6
  <2>4. QED
    BY <2>2, <2>3
<1>11. \A u \in Promised, q \in Pages :
         ~(u = t /\ q = p) => pageTable'[u][q] = pageTable[u][q]
  BY <1>8, <1>9
<1>12. f # NoFrame => mainMemory'[f] = v
  BY <1>1, <1>4, <1>5 DEF PagingTypes
<1>13. ASSUME NEW u \in Promised, NEW q \in Pages
       PROVE  Held(u, q)' = Held(u, q)
  <2>1. Saved(u, q)' = Saved(u, q)
    BY <1>9, <1>13
  <2>2. CASE u = t /\ q = p
    <3>1. ~pageTable[u][q].dirty /\ ~pageTable'[u][q].dirty
      BY <1>5, <1>6, <1>8, <2>2
    <3>2. QED
      BY <2>1, <3>1 DEF Held
  <2>3. CASE ~(u = t /\ q = p)
    <3>1. pageTable'[u][q] = pageTable[u][q]
      BY <1>11, <1>13, <2>3
    <3>2. pageTable[u][q].dirty => Resident(u, q) /\ pageTable[u][q].physicalPage # NoFrame
      BY <1>1, <1>9, <1>13 DEF DirtyHasFrame
    <3>3. pageTable[u][q].dirty => mainMemory'[pageTable[u][q].physicalPage]
                                     = mainMemory[pageTable[u][q].physicalPage]
      BY <1>10, <1>13, <3>2
    <3>4. QED
      BY <2>1, <3>1, <3>3 DEF Held
  <2>4. QED
    BY <2>2, <2>3
<1>14. Backed'
  <2>1. SUFFICES ASSUME NEW u \in Promised, NEW q \in Pages,
                        pageTable'[u][q].valid, pageTable'[u][q].physicalPage # NoFrame,
                        ~pageTable'[u][q].dirty
                 PROVE  \A c \in Offsets : Saved(u, q)'[c] # Unspecified =>
                          mainMemory'[pageTable'[u][q].physicalPage][c] = Saved(u, q)'[c]
    BY <1>9 DEF Backed, Resident
  <2>2. Saved(u, q)' = Saved(u, q)
    BY <1>9, <2>1
  <2>3. CASE u = t /\ q = p
    <3>1. pageTable'[u][q].physicalPage = f /\ f # NoFrame
      BY <1>6, <1>8, <2>1, <2>3
    <3>2. QED
      BY <1>4, <1>12, <2>2, <2>3, <3>1
  <2>4. CASE ~(u = t /\ q = p)
    <3>1. pageTable'[u][q] = pageTable[u][q]
      BY <1>11, <2>1, <2>4
    <3>2. \A c \in Offsets : Saved(u, q)[c] # Unspecified =>
             mainMemory[pageTable[u][q].physicalPage][c] = Saved(u, q)[c]
      BY <2>1, <3>1 DEF Backed, Resident
    <3>3. mainMemory'[pageTable[u][q].physicalPage] = mainMemory[pageTable[u][q].physicalPage]
      BY <1>10, <2>1, <3>1 DEF Resident
    <3>4. QED
      BY <2>2, <3>1, <3>2, <3>3
  <2>5. QED
    BY <2>3, <2>4
<1>15. QED
  BY <1>9, <1>13, <1>14

\* A new program has a file of its own and the image in its memory, or it has
\* the file of another, and the promise is off for both.
LEMMA ExecStoreStarts ==
  ASSUME Faithful, NEW t \in Threads, ExecStore(t)
  PROVE  Unknown' /\ CreatorHasFile' /\ Backed' /\ Promise!Next
<1>1. /\ ControlTypes /\ ProcessTypes /\ PagingTypes /\ StoreTypes /\ ChildMade /\ FileOpen
      /\ Unknown /\ CreatorHasFile /\ Backed
  BY DEF Faithful, Inv, Local, TypeOK
<1>2. pc[t] = "execStore"
  BY DEF ExecStore, At
<1>3. PICK c \in Threads : c = child[t] /\ pc[c] = "made"
  BY <1>1, <1>2 DEF ChildMade
<1> DEFINE i == spaceid[c]
           f == IF directory[i] = NoThread THEN c ELSE directory[i]
<1>4. i \in -1 .. TableSize - 1
  BY <1>1, <1>3 DEF ProcessTypes
<1>5. /\ pc[t] = "execStore"
      /\ directory' = [directory EXCEPT ![i] = f]
      /\ disk' = [disk EXCEPT ![f] = [p \in Pages |-> Hole]]
      /\ file' = [file EXCEPT ![c] = f]
      /\ \E b \in StaleArrays : inStore' = [inStore EXCEPT ![c] = b]
      /\ pc' = [pc EXCEPT ![t] = "user", ![c] = "user"]
      /\ UNCHANGED <<todo, pageTable, mainMemory>>
  BY <1>3 DEF ExecStore, At, paging
<1>6. /\ \A u \in Threads : file[u] # c
      /\ \A j \in -1 .. TableSize - 1 : directory[j] # c
      /\ file[c] = NoThread
      /\ \A p \in Pages : ~Resident(c, p)
  BY <1>1, <1>3 DEF Unknown
<1>7. /\ f \in Threads /\ NoThread \notin Threads
      /\ f = c \/ (f = directory[i] /\ f # c /\ file[f] = f)
  BY <1>1, <1>3, <1>4, <1>6, VirtualMemoryAssumption DEF StoreTypes, CreatorHasFile
<1> HIDE DEF i, f
<1> PICK b \in StaleArrays : inStore' = [inStore EXCEPT ![c] = b]
  BY <1>5
<1>8. /\ \A u \in Threads : pc'[u] = IF u \in {t, c} THEN "user" ELSE pc[u]
      /\ \A u \in Threads : file'[u] = IF u = c THEN f ELSE file[u]
      /\ \A j \in -1 .. TableSize - 1 : directory'[j] = IF j = i THEN f ELSE directory[j]
      /\ \A u \in Threads \ {f} : disk'[u] = disk[u]
      /\ \A p \in Pages : disk'[f][p] = Hole
      /\ inStore'[c] = b
      /\ \A u \in Threads \ {c} : inStore'[u] = inStore[u]
  <2>1. \A p \in Pages : disk'[f][p] = Hole
    BY <1>1, <1>5, <1>7 DEF StoreTypes
  <2>3. inStore'[c] = b /\ \A u \in Threads \ {c} : inStore'[u] = inStore[u]
    BY <1>1, <1>3 DEF StoreTypes
  <2>4. \A u \in Threads : pc'[u] = IF u \in {t, c} THEN "user" ELSE pc[u]
    BY <1>1, <1>5, <1>3 DEF ControlTypes
  <2>5. \A u \in Threads : file'[u] = IF u = c THEN f ELSE file[u]
    BY <1>1, <1>5, <1>3 DEF StoreTypes
  <2>6. \A j \in -1 .. TableSize - 1 : directory'[j] = IF j = i THEN f ELSE directory[j]
    BY <1>1, <1>5, <1>4 DEF StoreTypes
  <2>7. \A u \in Threads \ {f} : disk'[u] = disk[u]
    BY <1>1, <1>5, <1>7 DEF StoreTypes
  <2>8. QED
    BY <2>1, <2>3, <2>4, <2>5, <2>6, <2>7
<1>9. Unknown'
  <2>1. SUFFICES ASSUME NEW w \in Threads, pc'[w] \in {"unborn", "made"}
                 PROVE  /\ \A u \in Threads : file'[u] # w
                        /\ \A j \in -1 .. TableSize - 1 : directory'[j] # w
                        /\ file'[w] = NoThread
                        /\ \A p \in Pages : ~pageTable'[w][p].valid
    BY DEF Unknown, Resident
  <2>2. w # c /\ pc[w] \in {"unborn", "made"}
    BY <1>8, <2>1
  <2>3. /\ \A u \in Threads : file[u] # w
        /\ \A j \in -1 .. TableSize - 1 : directory[j] # w
        /\ file[w] = NoThread
        /\ \A p \in Pages : ~pageTable[w][p].valid
    BY <1>1, <2>2 DEF Unknown, Resident
  <2>4. f # w
    BY <1>4, <1>7, <2>2, <2>3
  <2>5. QED
    BY <1>5, <1>8, <2>2, <2>3, <2>4
<1>10. CreatorHasFile'
  <2>1. SUFFICES ASSUME NEW j \in -1 .. TableSize - 1, NEW w \in Threads, directory'[j] = w
                 PROVE  file'[w] = w
    BY DEF CreatorHasFile
  <2>2. CASE w = f
    BY <1>7, <1>8, <2>2
  <2>3. CASE w # f
    <3>1. directory[j] = w
      BY <1>8, <2>1, <2>3
    <3>2. w # c /\ file[w] = w
      BY <1>1, <1>6, <3>1 DEF CreatorHasFile
    <3>3. QED
      BY <1>8, <3>2
  <2>4. QED
    BY <2>2, <2>3
<1>11. \A u \in Promised :
         /\ u \in Threads \ {c}
         /\ file[u] \in Threads
         /\ Running(u)'
  <2>1. \A u \in Promised : u \in Threads /\ pc[u] \notin {"unborn", "made"} /\ Running(u)
    BY DEF Promised, Running
  <2>2. \A u \in Promised : Running(u)'
    BY <1>8, <2>1 DEF Running
  <2>3. QED
    BY <1>1, <1>3, <2>1, <2>2 DEF FileOpen
<1>12. /\ \A u \in Promised' \ {c} : u \in Promised /\ file[u] # f
       /\ \A u \in Promised : file[u] # f => u \in Promised'
  <2>1. ASSUME NEW u \in Promised' \ {c}
        PROVE  u \in Promised /\ file[u] # f
    <3>1. u \in Threads /\ Running(u)' /\ \A w \in Threads \ {u} : file'[w] # file'[u]
      BY <2>1 DEF Promised, Alone
    <3>2. Running(u)
      BY <1>5, <1>8, <2>1, <3>1 DEF Running
    <3>3. file[u] # f
      BY <1>3, <1>8, <2>1, <3>1
    <3>4. file[u] \in Threads
      BY <1>1, <3>1, <3>2 DEF FileOpen, Running
    <3>5. \A w \in Threads \ {u} : file[w] # file[u]
      BY <1>6, <1>7, <1>8, <2>1, <3>1, <3>4
    <3>6. QED
      BY <3>1, <3>2, <3>3, <3>5 DEF Promised, Alone
  <2>2. ASSUME NEW u \in Promised, file[u] # f
        PROVE  u \in Promised'
    <3>1. \A w \in Threads \ {u} : file'[w] # file'[u]
      BY <1>8, <1>11, <2>2 DEF Promised, Alone
    <3>2. QED
      BY <1>11, <3>1 DEF Promised, Alone
  <2>3. QED
    BY <2>1, <2>2
<1>13. ASSUME NEW u \in Promised' \ {c}, NEW p \in Pages
       PROVE  /\ Content(u, p)' = Content(u, p)
              /\ Saved(u, p)' = Saved(u, p)
  <2>1. /\ u \in Promised /\ u \in Threads \ {c}
        /\ file'[u] = file[u] /\ file[u] \in Threads \ {f}
    BY <1>8, <1>11, <1>12, <1>13
  <2>2. inStore'[u][p] = inStore[u][p] /\ disk'[file'[u]][p] = disk[file[u]][p]
    BY <1>8, <2>1
  <2>3. Saved(u, p)' = Saved(u, p)
    BY <2>2, Zenon DEF Saved
  <2>4. Content(u, p)' = Content(u, p)
    BY <1>5, <2>3 DEF Content, Resident
  <2>5. QED
    BY <2>3, <2>4
<1>14. ASSUME NEW p \in Pages
       PROVE  /\ ~pageTable'[c][p].valid
              /\ Content(c, p)' = Specified(IF b[p] THEN Nothing ELSE Loaded[p])
  <2>1. ~pageTable'[c][p].valid
    BY <1>5, <1>6, <1>14 DEF Resident
  <2>2. Content(c, p)' = Saved(c, p)'
    BY <2>1 DEF Content, Resident
  <2>3. disk'[file'[c]][p] = Hole /\ inStore'[c][p] = b[p]
    BY <1>3, <1>8, <1>14
  <2>4. Saved(c, p)' = IF ~b[p] THEN Specified(Loaded[p]) ELSE Specified(Nothing)
    BY <2>3, Zenon DEF Saved
  <2>5. QED
    BY <2>1, <2>2, <2>4
<1>15. Backed'
  <2>1. SUFFICES ASSUME NEW u \in Promised', NEW p \in Pages,
                        pageTable'[u][p].valid, pageTable'[u][p].physicalPage # NoFrame,
                        ~pageTable'[u][p].dirty
                 PROVE  \A d \in Offsets : Saved(u, p)'[d] # Unspecified =>
                          mainMemory'[pageTable'[u][p].physicalPage][d] = Saved(u, p)'[d]
    BY DEF Backed, Resident
  <2>2. u # c
    BY <1>14, <2>1
  <2>3. u \in Promised /\ Saved(u, p)' = Saved(u, p)
    BY <1>12, <1>13, <2>1, <2>2
  <2>4. \A d \in Offsets : Saved(u, p)[d] # Unspecified =>
           mainMemory[pageTable[u][p].physicalPage][d] = Saved(u, p)[d]
    BY <1>1, <1>5, <2>1, <2>3 DEF Backed, Resident
  <2>5. QED
    BY <1>5, <2>3, <2>4
<1>16. Promise!Next
  <2>1. CASE f = c
    <3>1. \A u \in Promised : file[u] # f
      BY <1>6, <1>11, <2>1
    <3>2. c \in Promised'
      BY <1>3, <1>6, <1>8, <2>1 DEF Promised, Running, Alone
    <3>3. Promised' = Promised \cup {c} /\ c \notin Promised
      BY <1>11, <1>12, <3>1, <3>2
    <3>4. Memory' = [u \in Promised \cup {c} |-> [p \in Pages |-> Content(u, p)']]
      BY <3>3 DEF Memory
    <3>5. DOMAIN Memory = Promised /\ \A u \in Promised : Memory[u] = [p \in Pages |-> Content(u, p)]
      BY DEF Memory
    <3> DEFINE new == [p \in Pages |-> Specified(IF b[p] THEN Nothing ELSE Loaded[p])]
    <3>6. new \in Starts
      BY DEF Starts
    <3>7. ASSUME NEW u \in Promised \cup {c}
          PROVE  [p \in Pages |-> Content(u, p)'] = IF u = c THEN new ELSE Memory[u]
      <4>1. CASE u = c
        BY <1>14, <4>1
      <4>2. CASE u # c
        <5>1. Memory[u] = [p \in Pages |-> Content(u, p)] /\ u \in Promised' \ {c}
          BY <3>3, <3>5, <3>7, <4>2
        <5>2. \A p \in Pages : Content(u, p)' = Content(u, p)
          BY <1>13, <5>1
        <5>3. QED
          BY <4>2, <5>1, <5>2
      <4>3. QED
        BY <4>1, <4>2
    <3> HIDE DEF new
    <3>8. Memory' = [u \in DOMAIN Memory \cup {c} |-> IF u = c THEN new ELSE Memory[u]]
      BY <3>4, <3>5, <3>7
    <3>9. Promise!Begin(c)
      BY <1>5, <3>3, <3>5, <3>6, <3>8 DEF Promise!Begin
    <3>10. QED
      BY <1>3, <3>9 DEF Promise!Next
  <2>2. CASE f # c
    <3>1. file'[f] = f /\ file'[c] = f
      BY <1>3, <1>7, <1>8, <2>2
    <3>2. c \notin Promised'
      BY <1>3, <1>7, <2>2, <3>1 DEF Promised, Alone
    <3>3. Promised' \subseteq Promised
      BY <1>12, <3>2
    <3>4. QED
      BY <1>5, <1>13, <3>2, <3>3, MappedLeave
  <2>3. QED
    BY <2>1, <2>2
<1>17. QED
  BY <1>9, <1>10, <1>15, <1>16
-------------------------------------------------------------------------------
(* The refinement.                                                         *)

LEMMA InitMapped ==
  ASSUME Init
  PROVE  Unknown /\ CreatorHasFile /\ Backed /\ Promise!Init
<1>1. First \in Threads /\ NoThread \notin Threads
  BY VirtualMemoryAssumption
<1>2. /\ \A u \in Threads : pc[u] = (IF u = First THEN "user" ELSE "unborn")
      /\ \A u \in Threads : file[u] = (IF u = First THEN First ELSE NoThread)
      /\ \A i \in -1 .. TableSize - 1 : directory[i] = (IF i = 0 THEN First ELSE NoThread)
      /\ \A u \in Threads, p \in Pages : ~Resident(u, p)
      /\ todo \in Programs
  BY DEF Init, Resident, Emptied
<1>3. PICK b \in StaleArrays :
        inStore = [t \in Threads |-> IF t = First THEN b ELSE [p \in Pages |-> FALSE]]
  BY DEF Init
<1>4. Unknown /\ CreatorHasFile
  BY <1>1, <1>2 DEF Unknown, CreatorHasFile
<1>5. Backed
  BY <1>2 DEF Backed, Promised
<1>6. Promised = {First}
  BY <1>1, <1>2 DEF Promised, Running, Alone
<1>7. ASSUME NEW p \in Pages
      PROVE  Content(First, p) = Specified(IF b[p] THEN Nothing ELSE Loaded[p])
  <2>1. Content(First, p) = Saved(First, p)
    BY <1>1, <1>2, <1>7 DEF Content
  <2>2. inStore[First][p] = b[p] /\ disk[file[First]][p] = Hole
    BY <1>1, <1>2, <1>3, <1>7 DEF Init
  <2>3. Saved(First, p) = IF ~b[p] THEN Specified(Loaded[p]) ELSE Specified(Nothing)
    BY <2>2, Zenon DEF Saved
  <2>4. QED
    BY <2>1, <2>3
<1> DEFINE new == [p \in Pages |-> Specified(IF b[p] THEN Nothing ELSE Loaded[p])]
<1>8. new \in Starts /\ Memory = [u \in {First} |-> new]
  BY <1>6, <1>7 DEF Memory, Starts
<1> HIDE DEF new
<1>9. Promise!Init
  BY <1>1, <1>2, <1>8 DEF Promise!Init
<1>10. QED
  BY <1>4, <1>5, <1>9

LEMMA StepMapped ==
  ASSUME Faithful, Inv', NEW t \in Threads, Step(t)
  PROVE  Unknown' /\ CreatorHasFile' /\ Backed' /\ Promise!Next
<1>1. /\ Inv /\ Local /\ Unknown /\ CreatorHasFile /\ Backed /\ ControlTypes
      /\ Local'
  BY DEF Faithful, Inv, Local, TypeOK
<1>2. CASE ExecStore(t)
  BY <1>2, ExecStoreStarts
<1>3. CASE ~ExecStore(t)
  <2>1. Unknown' /\ CreatorHasFile'
    BY <1>1, <1>3, UnknownKept
  <2>2. CASE ReadMem(t) \/ Exec(t)
    <3>1. /\ Backed' /\ Promised' \subseteq Promised
          /\ \A u \in Promised', p \in Pages : Content(u, p)' = Content(u, p)
      BY <1>1, <1>3, <2>2, QuietSteps, ContentKept
    <3>2. \A u \in Threads : Running(u) => Running(u)'
      <4>1. CASE ReadMem(t)
        BY <4>1 DEF ReadMem, Running
      <4>2. CASE Exec(t)
        <5>1. PICK c \in Threads :
                /\ pc[c] = "unborn" /\ pc[t] = "user"
                /\ pc' = [pc EXCEPT ![t] = "execTable", ![c] = "made"]
          BY <4>2 DEF Exec, Does, At
        <5>2. QED
          BY <1>1, <5>1 DEF Running, ControlTypes
      <4>3. QED
        BY <2>2, <4>1, <4>2
    <3>3. UNCHANGED file
      BY <1>1, <1>3, FilesKept
    <3>4. Promised' = Promised
      BY <3>1, <3>2, <3>3 DEF Promised, Alone
    <3>5. Memory' = Memory
      BY <3>1, <3>4, MappedSame
    <3>6. /\ todo[t] # <<>> /\ Head(todo[t]).op \in {"load", "exec"}
          /\ todo' = [todo EXCEPT ![t] = Tail(@)]
      BY <2>2 DEF ReadMem, Exec, Does
    <3>7. Promise!Other(t)
      BY <3>5, <3>6 DEF Promise!Other, Promise!Does
    <3>8. QED
      BY <2>1, <3>1, <3>7 DEF Promise!Next
  <2>3. CASE Exit(t)
    <3>1. /\ Backed' /\ Promised' \subseteq Promised
          /\ \A u \in Promised', p \in Pages : Content(u, p)' = Content(u, p)
      BY <1>1, <1>3, <2>3, QuietSteps, ContentKept
    <3>2. \A u \in Threads : Running(u)' <=> Running(u) /\ u # t
      BY <1>1, <2>3 DEF Exit, Goto, Running, ControlTypes
    <3>3. UNCHANGED file
      BY <1>1, <1>3, FilesKept
    <3>4. Promised' = Promised \ {t}
      BY <3>2, <3>3 DEF Promised, Alone
    <3>5. Memory' = Promise!Without(Promised \ Promised')
      BY <3>1, MappedWithout
    <3>6. DOMAIN Memory = Promised
      BY DEF Memory
    <3>7. Memory' = Promise!Without({t})
      BY <3>4, <3>5, <3>6 DEF Promise!Without
    <3>8. /\ todo[t] # <<>> /\ Head(todo[t]).op = "exit"
          /\ todo' = [todo EXCEPT ![t] = Tail(@)]
      BY <2>3 DEF Exit, Does
    <3>9. Promise!Exit(t)
      BY <3>7, <3>8 DEF Promise!Exit, Promise!Does
    <3>10. QED
      BY <2>1, <3>1, <3>9 DEF Promise!Next
  <2>4. CASE WriteMem(t)
    <3>1. /\ todo[t] # <<>> /\ Head(todo[t]).op = "store"
          /\ todo' = [todo EXCEPT ![t] = Tail(@)]
      BY <2>4 DEF WriteMem, Does
    <3>2. PICK op : op = Head(todo[t])
      OBVIOUS
    <3> DEFINE q == op.page
    <3>3. q \in Pages
      BY <1>1, <3>1, <3>2, DoesTypes
    <3>4. /\ Backed' /\ Promised' = Promised
          /\ \A u \in Promised, p \in Pages : ~(u = t /\ p = q) => Held(u, p)' = Held(u, p)
          /\ t \in Promised => Held(t, q)' \in Promise!Stored(Held(t, q), op.offset, op.value)
      BY <1>1, <2>4, <3>3, <3>2, StoreKeeps
    <3>5. \A u \in Promised, p \in Pages : Content(u, p) = Held(u, p)
      BY <1>1, ContentHeld DEF AsHeld
    <3>6. \A u \in Promised', p \in Pages : Content(u, p)' = Held(u, p)'
      BY <1>1, <3>4, ContentHeldNext DEF AsHeld
    <3>7. /\ \A u \in Promised, p \in Pages :
               ~(u = t /\ p = q) => Content(u, p)' = Content(u, p)
          /\ t \in Promised =>
               Content(t, q)' \in Promise!Stored(Content(t, q), op.offset, op.value)
      BY <1>1, <3>3, <3>4, <3>5, <3>6
    <3>8. Memory' = [u \in Promised |-> [p \in Pages |-> Content(u, p)']]
      BY <3>4 DEF Memory
    <3>9. Memory = [u \in Promised |-> [p \in Pages |-> Content(u, p)]]
      BY DEF Memory
    <3>10. Promise!Store(t)
      <4>1. CASE t \in Promised
        <5>1. [p \in Pages |-> Content(t, p)'] = [Memory[t] EXCEPT ![q] = Content(t, q)']
          BY <3>3, <3>7, <3>9, <4>1
        <5>2. Memory' = [Memory EXCEPT ![t] = [Memory[t] EXCEPT ![q] = Content(t, q)']]
          <6>1. \A u \in Promised \ {t} :
                  [p \in Pages |-> Content(u, p)'] = [p \in Pages |-> Content(u, p)]
            BY <3>7
          <6> DEFINE m == Content(t, q)'
          <6>2. \A u \in Promised : [p \in Pages |-> Content(u, p)']
                                     = IF u = t THEN [Memory[t] EXCEPT ![q] = m] ELSE Memory[u]
            BY <3>9, <5>1, <6>1
          <6>3. DOMAIN Memory = Promised
            BY <3>9
          <6> HIDE DEF m
          <6>4. Memory' = [u \in Promised |-> IF u = t THEN [Memory[t] EXCEPT ![q] = m]
                                              ELSE Memory[u]]
            BY <3>8, <6>2
          <6>5. Memory' = [Memory EXCEPT ![t] = [Memory[t] EXCEPT ![q] = m]]
            BY <3>9, <6>3, <6>4
          <6>6. QED
            BY <6>5 DEF m
        <5>3. PICK x : x = Content(t, q)'
          OBVIOUS
        <5>4. Memory[t][q] = Content(t, q) /\ t \in DOMAIN Memory
          BY <3>3, <3>9, <4>1
        <5>5. x \in Promise!Stored(Memory[t][q], op.offset, op.value)
          BY <3>7, <4>1, <5>3, <5>4
        <5>6. Memory' = [Memory EXCEPT ![t][q] = x]
          BY <5>2, <5>3
        <5>7. QED
          BY <3>1, <3>2, <5>4, <5>5, <5>6 DEF Promise!Store, Promise!Does
      <4>2. CASE t \notin Promised
        <5>1. Memory' = Memory /\ t \notin DOMAIN Memory
          BY <3>7, <3>8, <3>9, <4>2
        <5>2. QED
          BY <3>1, <3>2, <5>1 DEF Promise!Store, Promise!Does
      <4>3. QED
        BY <4>1, <4>2
    <3>11. QED
      BY <2>1, <3>4, <3>10 DEF Promise!Next
  <2>5. CASE Evict(t) \/ PageIn(t)
    <3>1. /\ Backed' /\ Promised' = Promised
          /\ \A u \in Promised, p \in Pages : Content(u, p)' = Content(u, p)
      BY <1>1, <2>5, EvictKeeps, PageInKeeps, ContentKept
    <3>2. UNCHANGED todo
      BY <2>5 DEF Evict, PageIn
    <3>3. Promise!Next
      BY <3>1, <3>2, MappedLeave
    <3>4. QED
      BY <2>1, <3>1, <3>3
  <2>6. CASE \/ Fault(t) \/ BusError(t)
             \/ Enter(t) \/ LeaveFails(t) \/ ClearFails(t) \/ EvictSpins(t)
             \/ FirstAlloc(t) \/ SecondAlloc(t) \/ FreeVictim(t) \/ ExecTable(t)
             \/ ExitTest(t) \/ ExitTable(t) \/ ExitFree(t) \/ ExitDone(t)
    <3>1. /\ Backed' /\ Promised' \subseteq Promised
          /\ \A u \in Promised', p \in Pages : Content(u, p)' = Content(u, p)
      BY <1>1, <1>3, <2>6, QuietSteps, ExitDoneKeeps, ContentKept
    <3>2. UNCHANGED todo
      BY <2>6 DEF Fault, BusError, Enter, LeaveFails, ClearFails, EvictSpins, FirstAlloc,
                  SecondAlloc, AllocPage, FreeVictim, ExecTable, ExitTest, ExitTable, ExitFree,
                  ExitDone
    <3>3. Promise!Next
      BY <3>1, <3>2, MappedLeave
    <3>4. QED
      BY <2>1, <3>1, <3>3
  <2>7. QED
    BY <1>3, <2>2, <2>3, <2>4, <2>5, <2>6 DEF Step
<1>4. QED
  BY <1>2, <1>3

LEMMA UnchangedMapped ==
  ASSUME Faithful, UNCHANGED vars
  PROVE  Unknown' /\ CreatorHasFile' /\ Backed' /\ UNCHANGED Promise!vars
<1>1. UNCHANGED <<pc, todo, pageTable, mainMemory, inStore, file, directory, disk>>
  BY DEF vars, paging, stores
<1>2. Unknown /\ CreatorHasFile /\ Backed
  BY DEF Faithful
<1>3. Unknown' /\ CreatorHasFile'
  BY <1>1, <1>2 DEF Unknown, CreatorHasFile, Resident
<1>4. Promised' = Promised
  BY <1>1 DEF Promised, Running, Alone
<1>5. Backed' /\ \A u \in Promised, p \in Pages : Content(u, p)' = Content(u, p)
  <2>1. \A u \in Promised, p \in Pages : Saved(u, p)' = Saved(u, p)
    BY <1>1, Zenon DEF Saved
  <2>2. \A u \in Promised, p \in Pages : Content(u, p)' = Content(u, p)
    BY <1>1, <2>1 DEF Content, Resident
  <2>3. QED
    BY <1>1, <1>2, <1>4, <2>1, <2>2 DEF Backed, Resident
<1>6. UNCHANGED Promise!vars
  BY <1>1, <1>4, <1>5, MappedSame DEF Promise!vars
<1>7. QED
  BY <1>3, <1>5, <1>6

\* Evicting, saving and reloading pages never changes a byte that a program has
\* from its executable, zero-filled or in a page it stored into, as long as no
\* other process was given its backing file: whatever the executable's segments
\* are, and whatever a new bstore_array holds.
THEOREM PagingImplementsPrivateMemory == Spec => ImplementsPrivateMemory
<1>1. Init => Faithful /\ Promise!Init
  BY InitInv, InitMapped DEF Faithful
<1>2. Faithful /\ [Next]_vars => Faithful' /\ [Promise!Next]_(Promise!vars)
  <2> SUFFICES ASSUME Faithful, [Next]_vars
               PROVE  Faithful' /\ [Promise!Next]_(Promise!vars)
    OBVIOUS
  <2>1. Inv'
    BY StepKeepsInv DEF Faithful
  <2>2. CASE UNCHANGED vars
    BY <2>1, <2>2, UnchangedMapped DEF Faithful
  <2>3. CASE Next
    BY <2>1, <2>3, StepMapped DEF Faithful, Next
  <2>4. QED
    BY <2>2, <2>3
<1>3. QED
  BY <1>1, <1>2, PTL DEF Spec, ImplementsPrivateMemory, Promise!Spec
===============================================================================
