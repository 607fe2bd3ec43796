---------------------------- MODULE VirtualMemory -----------------------------
(***************************************************************************)
(* User processes and demand paging (userprog/): Exec, Exit and Halt, the  *)
(* process table, page faults, the frames the processes share, and the     *)
(* backing store of each.                                                  *)
(*                                                                         *)
(* A process is a thread with an address space.  User code may load or     *)
(* store anywhere and make any system call at any time.  Each call of the  *)
(* memory manager and of the process table is two steps, its lock's        *)
(* Acquire (Enter) and the rest up to the return of Release, because a     *)
(* thread can lose the processor after either.  The locks compare names,   *)
(* as in module Lock, and every process that was started by Exec has the   *)
(* same one; so they do not keep those processes apart, and one of them    *)
(* may fail the assertion in Release (LeaveFails).                         *)
(*                                                                         *)
(* A page is PageSize bytes, each a member of Values.  Every process runs  *)
(* the same executable.  Files are those of the host system                *)
(* (FILESYS_STUB): a name refers to a file, which lives as long as         *)
(* somebody has it open.                                                   *)
(***************************************************************************)
EXTENDS Integers, Sequences, FiniteSets

CONSTANTS Threads,
          First,         \* the thread of StartProcess, which is called "main"
          NoThread,
          NumPhysPages,  \* frames of the machine
          NumPages,      \* of an address space
          PageSize,
          TableSize,
          Values,        \* what a byte may hold
          Zero,          \* the byte 0
          Unspecified,   \* stands for a byte of which nothing is known
          Executable,    \* the bytes of the file all processes run
          noffHeader,    \* what it says of its segments
          Hole,          \* a page of a file that was never written
          StaleArrays,   \* what a new bstore_array, never initialized, may hold
          Programs       \* what the programs may do: to each thread the sequence of
                         \* its Operations

Frames == 0 .. NumPhysPages - 1
Pages == 0 .. NumPages - 1
Offsets == 0 .. PageSize - 1
Contents == [Offsets -> Values]
Segments == {"code", "initData"}
NoFrame == -1

\* A load or a store of user code, or a system call, at an offset in a page: the
\* byte that is loaded or stored, or the instruction of the system call.  (A
\* system call loads and stores what its arguments point to with ReadMem and
\* WriteMem too, and the handler brings the pages in: these are loads and stores
\* before it.  An Exec whose name was not in memory misses a byte of it, and goes
\* on or finds no such program: a load with or without the exec after it.)
Operations == [op : {"load", "store", "exec", "exit"}, page : Pages, offset : Offsets,
               value : Values]

ASSUME VirtualMemoryAssumption ==
  /\ IsFiniteSet(Threads)
  /\ First \in Threads
  /\ NoThread \notin Threads
  /\ NumPhysPages \in Nat \ {0}
  /\ NumPages \in Nat \ {0}
  /\ PageSize \in Nat \ {0}
  /\ TableSize \in Nat \ {0}
  /\ Zero \in Values
  /\ Unspecified \notin Values
  /\ Executable \in Seq(Values)
  /\ noffHeader \in [Segments -> [virtualAddr : Nat, size : Nat, inFileAddr : Nat]]
  /\ Hole \notin Contents
  /\ StaleArrays \subseteq [Pages -> BOOLEAN]
  /\ Programs \subseteq [Threads -> Seq(Operations)]

Name(t) == IF t = First THEN "main" ELSE "new thread"

VARIABLES
  state,      \* of the machine: "on", "halted", "aborted" by an ASSERT, or
              \* "spinning" in a loop that nothing can end
  pc,         \* where each thread is
  held,       \* for each lock the name of its holder, or "" when FREE
  todo,       \* the operations each program still has to do
  inside,     \* the threads between Acquire and Release
  allocated,  \* Table::allocated
  spaceid,    \* of each thread, its pid and its AddrSpace's spaceid
  child,      \* the thread an Exec is making
  page,       \* the page that is faulted in, or the next one to be freed
  victim,     \* the page that was evicted for it
  pageTable,  \* of each thread
  bitMap,     \* MemoryManager::bitMap, as the set of the frames marked
  mainMemory,
  inStore,    \* BackingStore::bstore_array of each thread
  file,       \* the file each thread has open as its backing store, called after
              \* the thread that created it
  directory,  \* the file the name bstore<spaceid> refers to
  disk        \* what is in each file

processes == <<spaceid, child, allocated>>
paging == <<page, victim, pageTable, bitMap, mainMemory>>
stores == <<inStore, file, directory, disk>>
vars == <<state, pc, todo, held, inside, processes, paging, stores>>

\* The places from which threads call the table and the memory manager.
LockOf == [execTable |-> "table", exitTest |-> "table", exitTable |-> "table",
           alloc |-> "memory", free |-> "memory", realloc |-> "memory",
           exitFree |-> "memory"]

At(t, place) == state = "on" /\ pc[t] = place

Goto(t, place) == pc' = [pc EXCEPT ![t] = place]

Emptied == [p \in Pages |-> [physicalPage |-> NoFrame, valid |-> FALSE, dirty |-> FALSE]]

\* StartProcess has loaded the first program and calls machine->Run.
Init ==
  /\ state = "on"
  /\ pc = [t \in Threads |-> IF t = First THEN "user" ELSE "unborn"]
  /\ todo \in Programs
  /\ held = [l \in {"table", "memory"} |-> ""]
  /\ inside = {}
  /\ allocated = [i \in 0 .. TableSize - 1 |-> IF i = 0 THEN First ELSE NoThread]
  /\ spaceid = [t \in Threads |-> IF t = First THEN 0 ELSE -1]
  /\ child = [t \in Threads |-> NoThread]
  /\ page = [t \in Threads |-> 0]
  /\ victim = [t \in Threads |-> 0]
  /\ pageTable = [t \in Threads |-> Emptied]
  /\ bitMap = {}
  /\ mainMemory = [f \in Frames |-> [c \in Offsets |-> Zero]]
  /\ \E b \in StaleArrays :
       inStore = [t \in Threads |-> IF t = First THEN b ELSE [p \in Pages |-> FALSE]]
  /\ file = [t \in Threads |-> IF t = First THEN First ELSE NoThread]
  /\ directory = [i \in -1 .. TableSize - 1 |-> IF i = 0 THEN First ELSE NoThread]
  /\ disk = [t \in Threads |-> [p \in Pages |-> Hole]]
-------------------------------------------------------------------------------
(* The locks of the table and of the memory manager.                       *)

Enter(t) ==
  /\ state = "on"
  /\ t \notin inside
  /\ pc[t] \in DOMAIN LockOf
  /\ held[LockOf[pc[t]]] \in {"", Name(t)}
  /\ held' = [held EXCEPT ![LockOf[pc[t]]] = Name(t)]
  /\ inside' = inside \cup {t}
  /\ UNCHANGED <<state, todo, pc, processes, paging, stores>>

\* The end of a call made from place; the thread goes on at next.
Leave(t, place, next) ==
  /\ At(t, place)
  /\ t \in inside
  /\ held[LockOf[place]] = Name(t)
  /\ held' = [held EXCEPT ![LockOf[place]] = ""]
  /\ inside' = inside \ {t}
  /\ Goto(t, next)

\* Release finds the lock FREE, or another's: the holder of the same name has
\* released it.
LeaveFails(t) ==
  /\ state = "on"
  /\ t \in inside
  /\ held[LockOf[pc[t]]] # Name(t)
  /\ state' = "aborted"
  /\ UNCHANGED <<pc, todo, held, inside, processes, paging, stores>>
-------------------------------------------------------------------------------
(* Page faults.                                                            *)

Resident(t, p) == pageTable[t][p].valid

Free == Frames \ bitMap

FirstFree == CHOOSE f \in Free : \A g \in Free : f <= g

\* The program's next operation is op; its page is in memory.
Does(t, op) == /\ At(t, "user")
               /\ todo[t] # <<>>
               /\ Head(todo[t]).op = op
               /\ Resident(t, Head(todo[t]).page)
               /\ pageTable[t][Head(todo[t]).page].physicalPage # NoFrame
               /\ todo' = [todo EXCEPT ![t] = Tail(@)]

ReadMem(t) == /\ Does(t, "load")
              /\ UNCHANGED <<state, pc, held, inside, processes, paging, stores>>

WriteMem(t) ==
  LET p == Head(todo[t]).page
      f == pageTable[t][p].physicalPage
  IN /\ Does(t, "store")
     /\ mainMemory' = [mainMemory EXCEPT ![f][Head(todo[t]).offset] = Head(todo[t]).value]
     /\ pageTable' = [pageTable EXCEPT ![t][p].dirty = TRUE]
     /\ UNCHANGED <<state, pc, held, inside, processes, page, victim, bitMap, stores>>

\* The page is not in memory.
Fault(t) ==
  /\ At(t, "user")
  /\ todo[t] # <<>>
  /\ ~Resident(t, Head(todo[t]).page)
  /\ page' = [page EXCEPT ![t] = Head(todo[t]).page]
  /\ Goto(t, "alloc")
  /\ UNCHANGED <<state, todo, held, inside, processes, victim, pageTable, bitMap, mainMemory,
                 stores>>

\* It was left without a frame: the program has to exit.
BusError(t) ==
  /\ At(t, "user")
  /\ todo[t] # <<>>
  /\ Resident(t, Head(todo[t]).page)
  /\ pageTable[t][Head(todo[t]).page].physicalPage = NoFrame
  /\ Goto(t, "exitTest")
  /\ UNCHANGED <<state, todo, held, inside, processes, paging, stores>>

\* AllocPage: the frame goes to the entry of the faulted page.
AllocPage(t) ==
  /\ IF Free = {}
     THEN /\ pageTable' = [pageTable EXCEPT ![t][page[t]].physicalPage = NoFrame]
          /\ UNCHANGED bitMap
     ELSE /\ pageTable' = [pageTable EXCEPT ![t][page[t]].physicalPage = FirstFree]
          /\ bitMap' = bitMap \cup {FirstFree}
  /\ UNCHANGED <<state, todo, processes, page, victim, mainMemory, stores>>

FirstAlloc(t) ==
  /\ Leave(t, "alloc", IF Free = {} THEN "evict" ELSE "load")
  /\ AllocPage(t)

\* Slips: a page that was stored into is thrown away; the evicted page stays
\* valid.
EvictUnsaved(t) ==
  /\ At(t, "evict")
  /\ \E v \in Pages :
       /\ Resident(t, v)
       /\ victim' = [victim EXCEPT ![t] = v]
       /\ pageTable' = [pageTable EXCEPT ![t][v].valid = FALSE, ![t][v].dirty = FALSE]
  /\ Goto(t, "free")
  /\ UNCHANGED <<state, todo, held, inside, processes, page, bitMap, mainMemory, stores>>
EvictStaysValid(t) ==
  /\ At(t, "evict")
  /\ \E v \in Pages :
       /\ Resident(t, v)
       /\ IF pageTable[t][v].dirty
          THEN /\ disk' = [disk EXCEPT ![file[t]][v] = mainMemory[pageTable[t][v].physicalPage]]
               /\ inStore' = [inStore EXCEPT ![t][v] = TRUE]
          ELSE UNCHANGED <<disk, inStore>>
       /\ victim' = [victim EXCEPT ![t] = v]
       /\ pageTable' = [pageTable EXCEPT ![t][v].dirty = FALSE]
  /\ Goto(t, "free")
  /\ UNCHANGED <<state, todo, held, inside, processes, page, bitMap, mainMemory, file, directory>>

\* A page of the process itself is chosen at random, and saved if it was
\* stored into.
Evict(t) ==
  /\ At(t, "evict")
  /\ \E v \in Pages :
       /\ Resident(t, v)
       /\ IF pageTable[t][v].dirty
          THEN /\ disk' = [disk EXCEPT ![file[t]][v] = mainMemory[pageTable[t][v].physicalPage]]
               /\ inStore' = [inStore EXCEPT ![t][v] = TRUE]
          ELSE UNCHANGED <<disk, inStore>>
       /\ victim' = [victim EXCEPT ![t] = v]
       /\ pageTable' = [pageTable EXCEPT ![t][v].valid = FALSE, ![t][v].dirty = FALSE]
  /\ Goto(t, "free")
  /\ UNCHANGED <<state, todo, held, inside, processes, page, bitMap, mainMemory, file, directory>>

\* A process without a page in memory looks for one for ever, and never turns
\* interrupts on.
EvictSpins(t) ==
  /\ At(t, "evict")
  /\ \A v \in Pages : ~Resident(t, v)
  /\ state' = "spinning"
  /\ UNCHANGED <<pc, todo, held, inside, processes, paging, stores>>

\* Slip: the frame stays marked.
FreeVictimForgotten(t) ==
  /\ Leave(t, "free", "realloc")
  /\ pageTable[t][victim[t]].physicalPage # NoFrame
  /\ UNCHANGED <<state, todo, processes, paging, stores>>

FreeVictim(t) ==
  /\ Leave(t, "free", "realloc")
  /\ pageTable[t][victim[t]].physicalPage # NoFrame
  /\ bitMap' = bitMap \ {pageTable[t][victim[t]].physicalPage}
  /\ UNCHANGED <<state, todo, processes, page, victim, pageTable, mainMemory, stores>>

\* Another process may have taken the frame by now: the page is left without.
SecondAlloc(t) == Leave(t, "realloc", "load") /\ AllocPage(t)

\* The pages the handler takes for those of segment s, and the bytes of page p it
\* asks the executable for: of the first page all from the start of the segment,
\* of the last those before its end, which may be none.
PagesOf(s) ==
  LET h == noffHeader[s]
  IN (h.virtualAddr \div PageSize) .. ((h.virtualAddr + h.size) \div PageSize)

Asked(s, p) ==
  LET h == noffHeader[s]
      start == h.virtualAddr \div PageSize
      end == (h.virtualAddr + h.size) \div PageSize
  IN IF h.size = 0 \/ p \notin PagesOf(s) THEN {}
     ELSE IF p = start THEN (h.virtualAddr % PageSize) .. PageSize - 1
     ELSE IF p < end THEN Offsets
     ELSE 0 .. ((h.virtualAddr + h.size) % PageSize) - 1

\* Where byte c of page p is in the file; a read ends with the file.
Position(s, p, c) ==
  noffHeader[s].inFileAddr + PageSize * p + c - noffHeader[s].virtualAddr

Given(s, p) == {c \in Asked(s, p) : Position(s, p, c) \in 0 .. Len(Executable) - 1}

\* The bytes the handler sets of a page that is not in the backing store: those
\* it reads for the code and then for the data, or all of a page of neither.
Loaded ==
  [p \in Pages |->
     IF \A s \in Segments : p \notin PagesOf(s)
     THEN [c \in Offsets |-> Zero]
     ELSE [c \in Given("code", p) \cup Given("initData", p) |->
             Executable[1 + Position(IF c \in Given("initData", p) THEN "initData" ELSE "code",
                                     p, c)]]]

Nothing == [c \in {} |-> Zero]

\* Those it sets of a page that is: a page that was never written reads as zeros
\* if the file goes on after it, and not at all else.
Reloaded(f, p) ==
  IF disk[f][p] # Hole THEN disk[f][p]
  ELSE IF \E q \in Pages : q > p /\ disk[f][q] # Hole THEN [c \in Offsets |-> Zero]
  ELSE Nothing

\* What comes in over what was there before.
Over(bytes, old) == [c \in Offsets |-> IF c \in DOMAIN bytes THEN bytes[c] ELSE old[c]]

\* The rest of the handler.  The page comes from the backing store if it is
\* marked as saved, from the executable else; the rest of the frame keeps what
\* its last owner left there.  Without a frame what is read goes where no page
\* is.  (page and victim, locals of the handler, are dropped.)
PageIn(t) ==
  LET p == page[t]
      f == pageTable[t][p].physicalPage
      bytes == IF inStore[t][p] THEN Reloaded(file[t], p) ELSE Loaded[p]
  IN /\ At(t, "load")
     /\ mainMemory' = IF f = NoFrame THEN mainMemory
                      ELSE [mainMemory EXCEPT ![f] = Over(bytes, mainMemory[f])]
     /\ pageTable' = [pageTable EXCEPT ![t][p].valid = TRUE]
     /\ page' = [page EXCEPT ![t] = 0]
     /\ victim' = [victim EXCEPT ![t] = 0]
     /\ Goto(t, "user")
     /\ UNCHANGED <<state, todo, held, inside, processes, bitMap, stores>>
-------------------------------------------------------------------------------
(* System calls.                                                           *)

\* syscall_exec of a program that exists, up to table->Alloc.
Exec(t) ==
  LET c == CHOOSE c \in Threads : pc[c] = "unborn"
  IN /\ Does(t, "exec")
     /\ \E u \in Threads : pc[u] = "unborn"
     /\ child' = [child EXCEPT ![t] = c]
     /\ pc' = [pc EXCEPT ![t] = "execTable", ![c] = "made"]
     /\ UNCHANGED <<state, held, inside, spaceid, allocated, paging, stores>>

FreeSlots == {i \in DOMAIN allocated : allocated[i] = NoThread}

FirstSlot == CHOOSE i \in FreeSlots : \A j \in FreeSlots : i <= j

\* Slip: the index after the last is given out when the table is full.
ExecTableOneMore(t) ==
  LET c == child[t]
  IN /\ Leave(t, "execTable", "execStore")
     /\ IF FreeSlots = {}
        THEN spaceid' = [spaceid EXCEPT ![c] = TableSize] /\ UNCHANGED allocated
        ELSE /\ spaceid' = [spaceid EXCEPT ![c] = FirstSlot]
             /\ allocated' = [allocated EXCEPT ![FirstSlot] = c]
     /\ UNCHANGED <<state, todo, child, paging, stores>>

\* table->Alloc; a full table gives -1, which is taken for an id.
ExecTable(t) ==
  LET c == child[t]
  IN /\ Leave(t, "execTable", "execStore")
     /\ IF FreeSlots = {}
        THEN spaceid' = [spaceid EXCEPT ![c] = -1] /\ UNCHANGED allocated
        ELSE /\ spaceid' = [spaceid EXCEPT ![c] = FirstSlot]
             /\ allocated' = [allocated EXCEPT ![FirstSlot] = c]
     /\ UNCHANGED <<state, todo, child, paging, stores>>

\* The backing store, called after the id, is created, or emptied if it is
\* there already; then the new process is forked.
ExecStore(t) ==
  LET c == child[t]
      i == spaceid[c]
      f == IF directory[i] = NoThread THEN c ELSE directory[i]
  IN /\ At(t, "execStore")
     /\ directory' = [directory EXCEPT ![i] = f]
     /\ disk' = [disk EXCEPT ![f] = [p \in Pages |-> Hole]]
     /\ file' = [file EXCEPT ![c] = f]
     /\ \E b \in StaleArrays : inStore' = [inStore EXCEPT ![c] = b]
     /\ pc' = [pc EXCEPT ![t] = "user", ![c] = "user"]
     /\ child' = [child EXCEPT ![t] = NoThread]
     /\ UNCHANGED <<state, todo, held, inside, spaceid, allocated, paging>>

\* syscall_exit, up to the call of IsEmpty.
Exit(t) ==
  /\ Does(t, "exit")
  /\ Goto(t, "exitTest")
  /\ UNCHANGED <<state, held, inside, processes, paging, stores>>

\* IsEmpty, and Halt if it is.  (It never is, so the Halt has no step of its own:
\* Release clears the entry below that of its caller, and so never the last one
\* that was given out.)
ExitTest(t) ==
  /\ Leave(t, "exitTest", "exitTable")
  /\ state' = IF FreeSlots = DOMAIN allocated THEN "halted" ELSE state
  /\ UNCHANGED <<todo, processes, paging, stores>>

\* The first page from i on that is in memory, or NumPages.
NextResident(t, i) ==
  LET left == {p \in Pages : p >= i /\ Resident(t, p)} \cup {NumPages}
  IN CHOOSE p \in left : \A q \in left : p <= q

Freeing(p) == IF p = NumPages THEN "exitDone" ELSE "exitFree"

\* Table::Release(index) clears the entry below index, and for 0 a word in
\* front of the array.
ExitTable(t) ==
  /\ Leave(t, "exitTable", Freeing(NextResident(t, 0)))
  /\ allocated' = [i \in DOMAIN allocated |->
                     IF i = spaceid[t] - 1 THEN NoThread ELSE allocated[i]]
  /\ page' = [page EXCEPT ![t] = NextResident(t, 0)]
  /\ UNCHANGED <<state, todo, spaceid, child, victim, pageTable, bitMap, mainMemory, stores>>

\* One turn of the loop in ~AddrSpace.
ExitFree(t) ==
  LET p == page[t]
  IN /\ Leave(t, "exitFree", Freeing(NextResident(t, p + 1)))
     /\ pageTable[t][p].physicalPage # NoFrame
     /\ bitMap' = bitMap \ {pageTable[t][p].physicalPage}
     /\ page' = [page EXCEPT ![t] = NextResident(t, p + 1)]
     /\ UNCHANGED <<state, todo, processes, victim, pageTable, mainMemory, stores>>

\* BitMap::Clear asserts that there is such a frame.
ClearFails(t) ==
  /\ state = "on"
  /\ t \in inside
  /\ \/ pc[t] = "free" /\ pageTable[t][victim[t]].physicalPage = NoFrame
     \/ pc[t] = "exitFree" /\ pageTable[t][page[t]].physicalPage = NoFrame
  /\ state' = "aborted"
  /\ UNCHANGED <<pc, todo, held, inside, processes, paging, stores>>

\* The rest of ~AddrSpace: the file is removed by its name, and its contents go
\* when nobody else has it open.  Then Finish.
ExitDone(t) ==
  /\ At(t, "exitDone")
  /\ directory' = [directory EXCEPT ![spaceid[t]] = NoThread]
  /\ disk' = IF \E u \in Threads \ {t} : file[u] = file[t] THEN disk
             ELSE [disk EXCEPT ![file[t]] = [p \in Pages |-> Hole]]
  /\ pageTable' = [pageTable EXCEPT ![t] = Emptied]
  /\ inStore' = [inStore EXCEPT ![t] = [p \in Pages |-> FALSE]]
  /\ page' = [page EXCEPT ![t] = 0]
  /\ Goto(t, "dead")
  /\ UNCHANGED <<state, todo, held, inside, processes, victim, bitMap, mainMemory, file>>
-------------------------------------------------------------------------------
Step(t) == \/ ReadMem(t) \/ WriteMem(t) \/ Fault(t) \/ BusError(t) \/ Exec(t) \/ Exit(t)
           \/ Enter(t) \/ LeaveFails(t) \/ ClearFails(t)
           \/ FirstAlloc(t) \/ Evict(t) \/ EvictSpins(t) \/ FreeVictim(t)
           \/ SecondAlloc(t) \/ PageIn(t)
           \/ ExecTable(t) \/ ExecStore(t)
           \/ ExitTest(t) \/ ExitTable(t) \/ ExitFree(t) \/ ExitDone(t)

Next == \E t \in Threads : Step(t)

Spec == Init /\ [][Next]_vars
-------------------------------------------------------------------------------
Places == {"unborn", "made", "user", "exitDone", "dead", "load", "evict", "execStore"}
            \cup DOMAIN LockOf

\* A program runs until it calls Exit, in the kernel too.
Running(t) == pc[t] \in {"user", "alloc", "evict", "free", "realloc", "load",
                         "execTable", "execStore"}

ControlTypes ==
  /\ state \in {"on", "halted", "aborted", "spinning"}
  /\ pc \in [Threads -> Places]
  /\ todo \in [Threads -> Seq(Operations)]
  /\ held \in [{"table", "memory"} -> {"", "main", "new thread"}]
  /\ inside \in SUBSET {t \in Threads : pc[t] \in DOMAIN LockOf}

ProcessTypes ==
  /\ allocated \in [0 .. TableSize - 1 -> Threads \cup {NoThread}]
  /\ spaceid \in [Threads -> -1 .. TableSize - 1]
  /\ child \in [Threads -> Threads \cup {NoThread}]

Entries == [physicalPage : Frames \cup {NoFrame}, valid : BOOLEAN, dirty : BOOLEAN]

PagingTypes ==
  /\ page \in [Threads -> 0 .. NumPages]
  /\ victim \in [Threads -> Pages]
  /\ pageTable \in [Threads -> [Pages -> Entries]]
  /\ bitMap \in SUBSET Frames
  /\ mainMemory \in [Frames -> Contents]

StoreTypes ==
  /\ inStore \in [Threads -> [Pages -> BOOLEAN]]
  /\ file \in [Threads -> Threads \cup {NoThread}]
  /\ directory \in [-1 .. TableSize - 1 -> Threads \cup {NoThread}]
  /\ disk \in [Threads -> [Pages -> Contents \cup {Hole}]]

\* The handler and the process table leave every field in its range: a full
\* table gives the id -1 and full memory the frame -1, and no other number that
\* is none.
TypeOK == ControlTypes /\ ProcessTypes /\ PagingTypes /\ StoreTypes

\* Frame f is kept for page p of t: the page is in it, or the handler is about
\* to put it there or to give it back.
HoldsFrame(t, p, f) ==
  /\ pageTable[t][p].physicalPage = f
  /\ \/ Resident(t, p) /\ pc[t] \notin {"exitFree", "exitDone", "dead"}
     \/ Resident(t, p) /\ pc[t] = "exitFree" /\ p >= page[t]
     \/ pc[t] = "load" /\ p = page[t]
     \/ pc[t] = "free" /\ p = victim[t]

\* No frame is kept for two pages, of one process or of two, and none is free
\* while a page is in it: whatever the interleaving of faults and exits, a
\* frame is given to a process only after its former owner is done with it.
FramesExclusive ==
  \A f \in Frames, t, u \in Threads, p, q \in Pages :
    HoldsFrame(t, p, f) =>
      /\ f \in bitMap
      /\ HoldsFrame(u, q, f) => u = t /\ q = p

\* Every frame that is marked is kept for some page: evictions, exits and
\* faults that lose the race for a frame never leak one.
NoFrameLost ==
  \A f \in bitMap : \E t \in Threads, p \in Pages : HoldsFrame(t, p, f)

Alone(t) == \A u \in Threads \ {t} : file[u] # file[t]

\* What is in a page that is not in memory, as far as that is settled: the bytes
\* it was saved with, or those the handler will set; nothing of a page that is
\* marked as saved without having been.
Specified(bytes) ==
  [c \in Offsets |-> IF c \in DOMAIN bytes THEN bytes[c] ELSE Unspecified]

Saved(t, p) ==
  IF ~inStore[t][p] THEN Specified(Loaded[p])
  ELSE IF disk[file[t]][p] = Hole THEN Specified(Nothing)
  ELSE disk[file[t]][p]

\* What the program finds in a page, after faulting it in if need be.  What a
\* clean page has besides the bytes that are settled may differ the next time
\* the page comes in.
Content(t, p) ==
  LET entry == pageTable[t][p]
  IN IF Resident(t, p) /\ entry.physicalPage # NoFrame
     THEN [c \in Offsets |-> IF entry.dirty \/ Saved(t, p)[c] # Unspecified
                             THEN mainMemory[entry.physicalPage][c] ELSE Unspecified]
     ELSE Saved(t, p)

\* What a program starts with.
Starts ==
  {[p \in Pages |-> Specified(IF b[p] THEN Nothing ELSE Loaded[p])] : b \in StaleArrays}

\* The programs the promise is made to, and what each has in its memory.
Promised == {t \in Threads : Running(t) /\ Alone(t)}

Memory == [t \in Promised |-> [p \in Pages |-> Content(t, p)]]

Promise == INSTANCE PrivateMemory WITH Processes <- Threads, Start <- Starts,
                                       memory <- Memory

\* Evicting, saving and reloading pages, in any order with those of other
\* processes, changes no byte that a program has from its executable, zero-filled
\* or in a page it stored into, as long as no other process was given its backing
\* file.  (README.VM:14-16 says more, that a page of no segment is zero-filled: a
\* page that begins where a segment ends is neither read nor zero-filled,
\* addrspace.cc:388-391, 414-418 and 424, nor are the last bytes of any segment's
\* last page; a program finds there what the frame's last owner left.)
ImplementsPrivateMemory == Promise!Spec

\* syscall.h, SpaceId: "A unique identifier for an executing user program".
UniqueSpaceIds ==
  \A t, u \in Threads : Running(t) /\ Running(u) /\ spaceid[t] = spaceid[u] => t = u
===============================================================================
