# A specification of the Nachos kernel

This directory specifies and verifies the kernel under `src/nachos/code`: the
C++ teaching operating system Nachos, completed with priorities, locks,
condition variables, `Join`, mailboxes, user processes and virtual memory. The
kernel runs on a simulated MIPS processor inside one host process. Its hard
part is concurrency: threads that lose the processor at any synchronization
operation, interrupt handlers, sleeping and waking.

Contents: [execution model](#execution-model), [inventory](#inventory),
[modules](#modules), [runs](#runs), [proofs](#proofs),
[disagreements](#where-the-code-and-its-documentation-disagree),
[limits](#what-is-not-modelled), [plan](#plan).

## Execution model

The simulated machine has one processor. Kernel code is preempted only at one
place: `Interrupt::SetLevel` (machine/interrupt.cc:115), when interrupts go from
off to on, advances simulated time (`OneTick`), which may run interrupt handlers
and, after a timer interrupt, `Thread::Yield`. Code between two calls of a
synchronization primitive therefore runs without interruption, and so does the
body of each primitive, which turns interrupts off. The modules take these
stretches as their steps: one action for each primitive called without having
to wait, and in the clients of the primitives one action from the return of a
call to the return of the next. A thread that has to wait is in a state of its
own, and every thread that can run may take the next step, which stands for all
schedules the timer, the random time slices (`-rs`) and the priorities allow. A
property that holds with this much freedom holds for the scheduler's own choice.
`ASSERT` prints and aborts the machine (threads/utility.h:76); in the modules it
sets `aborted`, after which nothing moves.

## Inventory

| Component | State | Operations | Interacts with | What is hard | Correct when |
|---|---|---|---|---|---|
| List (threads/list) | first, last, cells with item, key, next | Append, Prepend, SortedInsert, Remove, SortedRemove, Mapcar | every queue of the kernel is one | pointers at the ends, equal keys | no item lost or twice, stable order |
| Thread, Scheduler (threads/thread, scheduler) | status, priority, ready list, current thread, threadToBeDestroyed | new, Fork, Yield, Sleep, Finish, setPriority, ReadyToRun, Run | woken by the primitives and by handlers; deleted by the thread that runs next | idling thread woken by its own interrupt, dead stacks, starvation | each READY thread queued once, one RUNNING, no dead thread run |
| Join (threads/thread) | join, joinCalled, threadFinished, finishedJoining, lock, condition | Fork, Join, Finish, delete | a monitor inside each Thread object | two-way rendezvous, object deleted under a waiting parent | no use after delete, no deadlock |
| Semaphore (threads/synch) | value, queue | P, V | Sleep and ReadyToRun | overtaking between V and the sleeper | no lost wakeup |
| Lock, Condition (threads/synch) | held, threadName, Q; waitList | Acquire, Release; Wait, Signal, Broadcast | Condition releases and takes the lock | two queues, overtaking, identity by name | mutual exclusion, no sleeper lost |
| Mailbox (threads/synch) | numItems, buffer, bufferSet, two locks, two conditions, two semaphores | Send, Receive | all primitives at once | pairing, hand-over through one buffer | every message received once |
| Whale (threads/Whale) | three counters, tripletsMade, lock, three conditions | Male, Female, Matchmaker | Lock and Condition | counters move while a signalled thread is on its way | only and all triplets leave |
| SynchList (threads/synchlist) | list, lock, condition | Append, Remove, Mapcar | used by the post office | overtaking consumers | an item wakes one consumer |
| Interrupts, timer (machine/interrupt, timer) | pending list, level, ticks, status | Schedule, CheckIfDue, Idle, SetLevel, YieldOnReturn | handlers of all devices | handler in the middle of idling, a switch on the return of an interrupt | each interrupt once, in time order |
| Devices (machine/console, disk, network; userprog/synchconsole, filesys/synchdisk) | busy flags, buffers, semaphores | request, completion handler | handler does V | completion before the requester waits, a lock that compares names | one request at a time, answer to its requester, no character lost |
| Processes (userprog/exception, table, progtest) | process table | Exec, Exit, Read, Write, Halt | fork threads, address spaces | exit of the last process, full table | live processes keep their slots |
| Virtual memory (userprog/addrspace, memorymanager, bitmap, backingstore; machine/translate) | frames, page tables, backing file | load, page fault, eviction, release | processes share frames | faults of two processes at once | no frame of two pages, no page lost |
| File system (filesys) | free map, directory, headers on disk; open files in memory | format, Create, Open, Remove, Read, Write | SynchDisk | a stop between two sector writes, partly written sectors | no sector in two files or lost, files keep their text |
| Post office (network/post) | mailboxes, network buffer | Send, Receive, postal worker | SynchList, network device | loss, order, one buffer | messages once and in order to the right box |
| MIPS simulator (machine/machine, mipssim) | registers, memory | Run, one instruction, RaiseException | translate, exception handler | delayed loads and branches across traps, arithmetic at the bounds | each program has a processor to itself; arithmetic exact |
| Thread tests (threads/threadtest) | the objects of one test | ThreadTest(testnum) | the primitives | all interleavings of the test | the end its comment announces |

The remaining parts (context switch, host system calls, statistics, option
parsing, the converters in `bin`, sample programs in `test`, `c++example`, `doc`)
keep no state whose order of changes is in question. `components` in PROJECT.json
says of each part what is modelled, `hazards` what is hard to test in it.

## Modules

Layers, from the bottom; an arrow is a refinement that is checked, and proved
where the proofs section says so; "uses" is composition by EXTENDS or INSTANCE.

    List  ->  Queue / SortedList        Scheduler  ->  Cpu
    Semaphore  ->  AbstractSemaphore    Condition (with Lock)  ->  AbstractMonitor (with Monitor)
    ThreadTest  uses  Join, Mailbox, Whale, SynchTest     (written with Monitor's operations)
    PostOffice  uses  SynchList                           (written with Monitor's operations)
    VirtualMemory  ->  PrivateMemory
    Machine (with Interrupt, Mips, Interpreter)  ->  PrivateCpu
    FileSystem  uses  SynchDisk

* `SortedList` gives lists as values, with `SortedInsert` and the key copied into
  the element, as in the code. `List` has the heap: cells, `first`, `last` and
  `next`. Its refinement of `Queue` is what entitles the other modules to use
  sequences.
* `Scheduler` is thread.cc and scheduler.cc. Variables are the code's (`status`,
  `readyList`, `currentThread`, `threadToBeDestroyed`, `priority`); `fresh` says
  whose saved registers still point into `ThreadRoot`, since such a thread does
  not pass the code after `SWITCH` that deletes the finished thread; `finished`
  is a history variable. `setPriority` is called on a thread before it is forked
  or by itself: see the disagreements below for what a later call does. `Cpu` is
  what the synchronization modules assume of it: a thread that is not blocked can
  run next, one that is blocked cannot until it is woken, one that finished never.
* `Semaphore` has the queue and the threads inside `P`'s loop: `asleep` on the
  queue, or `woken` and about to look at `value` again. `AbstractSemaphore` has
  `value` alone.
* `Lock` has the operations of the lock and `Condition` those of the condition
  variable, with the two queues and the threads that sleep on them. The holder is
  what the code stores: a copy of a name. `inside` is a history variable, the
  threads that are back from `Acquire`. `Monitor` has the operations as synch.h
  promises them (an owner, a list of waiters), `AbstractMonitor` has threads that
  call them freely.
* `Join` has the life of parents and children, with one monitor for each child's
  Thread object, up to its deletion. `threadFinished` starts with any value for
  a thread made with the constructor that does not set it.
* `Mailbox` and `Whale` are clients of the monitor. In `Mailbox` a message is the
  number given to its Send. The loops on `bufferSet` in front of the copy never
  turn, which `MessagesInPairs` says and `MessagesMeetInPairs` proves, so their `Wait`
  is not an action; nor is the `Signal` on `bufferCV`, which finds nobody. In `Whale` the three procedures are
  one up to the exchange of the kinds, and a thread is one whale.
* `SynchTest` has threads whose procedures are calls on one lock and one condition,
  and the ready list while main forks them. `ThreadTest` puts `Join`, `Mailbox`,
  `Whale` and `SynchTest` together: `testnum` selects the threads and their
  procedures as `ThreadTest()` does, under the names of the source's functions, and
  `Announced` says which of the ends that the comments in threadtest.cc and the tests
  in threads/README promise come true under every interleaving. Test 0 stands for any
  programs of the kinds `MorePrograms`, `MoreCalls` and `MorePopulations` list.
* `SynchList` has the synchronized lists, `PostOffice` their use as mailboxes: the
  clients' Send and Receive, the postal worker, and the network with its one-packet
  buffer, its polling and its losses. A packet is its sender, target, box and
  content. `MailTest` is nettest.cc. `Halt` takes the whole machine away.
* `Mips` is the processor: the tables of mipssim.h, `Decode`, and `OneInstruction` as
  an operator from registers and memory to what one instruction makes of them. Words
  have four bytes of `ByteBits` bits, and registers wrap. `Interrupt` has simulated
  time, pending interrupts (keys are the time left), the timer and the switch on the
  return of an interrupt; `Machine` has `Run`, `RaiseException`, the exception
  handler with Read and Write, SynchConsole and Console. Its step goes from one
  point where interrupts are turned on to the next, so that a time slice or a device
  may come wherever it can in the code. `PrivateCpu` is what a program is promised:
  a processor and a memory of its own; what the processor does is its parameter.
  `Interpreter` is the repository's other
  simulator, bin/execute.c, against which `SimulatorsAgree` compares every
  instruction.
* `VirtualMemory` is Exec, Exit, the process table and the pager. A process is a
  thread; its program is a sequence of loads, stores and system calls, each at one
  byte. What a fault loads is what the code loads: of the executable the bytes of the
  segments that are in the page (`Asked`), of the backing file the page that was saved,
  zeros for a page of no segment, and in what is left of the frame the bytes of its
  last owner. Between two synchronization operations a handler is one step; as the memory
  manager and the table are called under locks, each call is `Enter` (`Acquire`) and
  the action that does the work and returns from `Release`. The locks compare names
  here too, and the names are the code's: "main" and "new thread". So two processes
  that Exec started are not kept apart, and when the second one releases, the
  assertion stops the machine (`LeaveFails`). Other ends the code has: a process with
  no page in memory looks for a victim for ever (`EvictSpins`, state "spinning"); a
  page left without a frame is evicted or freed (`ClearFails`). `halted` is in the
  model but not reached: `Release` clears the entry below the caller's, so the last one
  that was given out stays, and `IsEmpty` never holds (`TableNeverEmpty`).
  Files are the host's (the kernel is built with `FILESYS_STUB`), so a name is created
  anew or emptied, and a removed file lives while it is open; the files are called
  after the thread that created them. Exec reads the file's name with `ReadMem` and does
  not try again after a fault (exception.cc:80-87): for memory that is a load, and the
  Exec then finds another program's name or none; the model has the load, and the Exec
  after it or not, and every process runs the one executable. `PrivateMemory` is what
  programs see.
* `SynchDisk` is the disk with the lock, the request and the interrupt of each
  sector transfer. `FileSystem` makes such transfers and nothing else: a call of
  Create, Open, Remove, Read or Write is the list of `ReadAt` and `WriteAt` it makes,
  each of these the sectors it reads and writes, with the partly changed ones read
  first. A sector is a sequence of cells; headers, directory entries and text lie in
  it as in the source, so that the second directory entry of the run, like the
  seventh on the real disk, lies across two sectors. A stop (`Crash`) takes all memory
  away between any two steps and leaves the disk; `Boot` then opens the file system
  or formats. `kept` remembers what a completed Copy stored, `damaged` that a stop
  tore the changes of a Create or Remove.

Definitions called a mutant (or a slip) in the comment above them are not part of
the model: each is a definition of the model with one plausible mistake, and with
it in place of the right one a property fails. They show that the properties can
fail.

## Runs

`MC<module>.tla` gives constants to a module, `<run>.cfg` names what is checked.

| Run | Checks | Bounds and why they are enough | Fairness |
|---|---|---|---|
| `MCList` | shape of the list, refinement of `Queue` | 4 cells, 5 insertions, keys on both sides of the 0 of Append: every case of SortedInsert, reuse of a cell | - |
| `MCScheduler` | ready list, one running, carcass, order, refinement of `Cpu`, progress | 4 thread objects, 2 priorities besides the default: a current, an idle, a fresh and a finished thread at once | `Yield`, `Block` or `Finish` of a running thread; Sleep's loop |
| `MCSemaphore` | type, queue, wakeups, refinement, rest | 4 threads, up to two calls each: a sleeper, a waker, an overtaker and one more | every thread |
| `MCCondition` | type, exclusion, both queues, wakeups, refinement, rest | 3 threads, 9 programs with wrong uses: one inside, one on each queue | every thread |
| `MCThreadTest` | rendezvous and life of joined objects, pairs and buffer of the mailbox, triplets, order of priorities, the announced ends | every test of threadtest.cc in `SomeTests`, with the ends in `Announced`, and in test 0 all join programs of 4 threads, all mixtures of 5 mailbox calls, all populations of 6 whales: two pairs and one left over, two triplets, a child that has a child | every thread |
| `MCPostOffice` | items and takers, mail conserved in order, one packet at a time, mail arrives | 2 machines, 2 clients and a worker each, 2 boxes; MailTest, two senders and two receivers on one box, a machine that halts, and 5 list programs on 4 threads; a network that loses nothing or anything | every thread, every network |
| `MCVirtualMemory` | type, frames exclusive, no frame lost, refinement of `PrivateMemory` | 3 processes of 3 pages of 2 bytes, 2 frames, a table of 2; the code ends with page 0, the data in the middle of page 1, page 2 is of neither; `bstore_array` clear or not: a program that pages against itself and against others, the race for a freed frame, a full table, a slot given away | - |
| `MCMachine` | no load pending in the kernel, exact arithmetic, both simulators agree, characters conserved, refinement of `PrivateCpu` | bytes of 2 bits (words of 8): 130 forms of instruction on 36 pairs of operands, the extreme ones among them; up to 3 programs with 2 resident pages, timer, Read and Write, wrong arguments | - |
| `MCFileSystem` | files kept, free map exact, commands end | 10 sectors of 5 cells, 5 of them for files, 3 directory entries, 3 names; three lists of commands that fill the disk, reuse sectors, fail for want of space and repeat names, with and without a second thread that prints; one stop anywhere | every thread, the disk's interrupt, the boot |

Three more runs, `MCLockOneName`, `MCJoinLate` and `MCSpaceIds`, end with
a counterexample on purpose; they are in the next but one section.

What the runs show beyond unit tests:

* Overtaking. In all primitives a woken thread competes with newcomers, and the
  properties `NoLostWakeup` (a unit of a semaphore, a FREE lock) and `ItemsHaveTakers`
  (an item of a list) say that however many threads overtake, somebody is on the way
  while anybody sleeps. `Quiesces`, `TestsEnd` and `MailArrives` then say that waiting
  ends. `MailboxTest3` and `MailboxTest4` are in `ThreadTest` but not in the run: their
  sixteen calls have about a million states each, and the mixtures of test 0 have the
  same races.
* Switches anywhere. `ImplementsPrivateCpu` holds with the timer, page faults and the
  console between any two ticks, and `NoLoadInKernel` says why the handler may read
  and write registers. `ArithmeticExact` and `SimulatorsAgree` are checked on narrow
  words: nothing in the code depends on the width but the number of turns of `Mult`, and
  for the former there is a proof for all widths.
* A network that loses. `MailConserved` says that mail which reached a machine is in
  exactly one place, in the order of its sender; `MailArrives` that only those wait
  whose mail never came.
* Stops. `FilesKept`: a file that Copy has filled keeps its text through the other
  commands, through transfers of another thread, and through a stop anywhere and the
  next boot. `FreeMapExact`: without a torn Create or Remove, exactly the sectors in
  use are marked; in particular a stop before the first change of the directory
  or the free map leaves a disk on which everything goes on. What does not hold: a
  stop between the writes of directory and free map (Create writes the directory
  first, Remove the free map first, so both ways) leaves an entry whose sectors count
  as free. The next Create takes them, and a Remove of the entry then frees another
  file's sectors or stops at the assertion of `Deallocate`. From such a disk the model
  only reads, which is still right for all other files, or formats it.

Fairness. The modules above the scheduler assume that a thread that can run does
so sooner or later (`WF` of its steps). The timer's `Yield` and the ready list,
first come first served within one priority, give that: `EventuallyScheduled`
checks in `Scheduler` that a thread stays READY for ever only while threads of
higher priority run. A program whose higher priorities never block starves the
rest, and none of the liveness properties is claimed for it. Devices: an interrupt
that is scheduled fires, since time advances whenever a thread runs or the machine
idles. A boot that has begun goes on; that somebody boots again is not assumed.
No strong fairness is assumed: a lock is a loop that newcomers may win, and the runs
have threads with finite programs, so that newcomers end. Deadlock is not checked
where threads come to rest by design, or where the machine halts; the liveness
properties say in which states they may.

## Proofs

The theorems hold for every finite set of threads, all priorities and programs of
any length. `ListProof` has the facts about lists (what `SortedInsert` and the
removal of the head do to the set of items, to the order and to distinctness); the
others cite them by name.

* `SchedulerProof` begins with the linked list: `WellLinked`, and the refinement
  `ImplementsQueue`, for any cells, keys and number of insertions. The invariant is that
  some chain of distinct cells exists with `first` and `last` at its ends and each `next`
  pointing to the following cell (`Linked`). An insertion puts one cell between two
  neighbours of the chain and a removal takes the first, so two lemmas give the new
  chain; the sequence `Queue` has is the chain read through the heap.
* Its second half is the scheduler: `TypeOK`, `ReadyListExact`, `OneRunning`, `CarcassIsDead`. None is
  inductive alone, their conjunction is: that a READY thread is on the list only once
  keeps a dispatched one off it, and that finished threads are never READY keeps the
  destructor away from the thread that gets the processor. `OrderedByPriority` needs
  that the key copied into the list is still the thread's priority (`OrderInv`), and
  from both follows that the dispatcher implements `Cpu` (`SchedulerImplementsCpu`).
* `SemaphoreProof`: `TypeOK`, `SleepersQueued`, `NoLostWakeup` and the refinement
  `ImplementsAtomic`. The wakeup count (`value` is at most the number of woken
  threads while anybody sleeps) is inductive only with the queue's exactness: a
  sleeper off the queue could never be counted.
* `ConditionProof`: `TypeOK`, `MutualExclusion`, `SleepersQueued`, `NoLostWakeup` and
  the refinement `ImplementsMonitor`, all under `DistinctNames`, the assumption that
  no two threads have one name. Exclusion is inductive only with `HolderIsNamed`:
  a FREE lock has nobody inside, and the name in a BUSY one is that of the thread
  inside. `Tracks` states once what a queue of sleepers is, and four lemmas what
  the steps do to it; each action then moves one thread, or in `Wait` two, between
  queues. The last theorem is why the client modules may use `Monitor`.
* `ThreadTestProof`: the four invariants of `ThreadTest`, for all programs of the
  threads. The parts are instances, so `TestInv` has one invariant for each of them,
  and what a part asks of its constants is an assumption (`PartsAssumption`) that TLC
  evaluates on the run.
  `MessagesInPairs`: the pairs are inductive in the form `OneKind` (those who wait are of
  one kind, and `numItems` is their number with its sign) and `Balanced`: a step either
  lets nobody past the meeting or one of each kind. The buffer follows from `Token`:
  `empty` and `full` hold one token between them, and whoever is past P has it. `Once`
  says that what is in the buffer, or received, is a message of a Send that is done.
  That the messages of a test are all different (`DistinctMessages`) is the way the
  model names them, not a demand on the code.
  `WhalesInTriplets`: from the arithmetic of the least of three counters, for all
  populations. `JoinRendezvous`: `Parents` and `Children` relate where a parent and its
  child are to the four flags, and `OneParent` keeps a second thread out.
  `PriorityOrder` (`ReadyListByPriority`): until a thread runs, the ready list holds what
  main has forked, each with its key, sorted; and of two sorted lists of the same threads
  with different keys there is only one (`SortedIsUnique`).
* `DeviceProof` is about threads that wait for a device, and has two parts.
  The post office: `MailConserved`, `OneAtATime` and `ItemsHaveTakers`, for any number of
  machines, boxes and clients with any calls. A mail is followed from part to part of
  its path: `Between`, which picks the mails of one sender to one box, distributes
  over concatenation (`BetweenConcat`, by the least prefix that would not), so each
  action has to show only what it does at the end of one part and the front of the
  next (`Moves`). For this the postal worker must be idle or deliver one packet
  (`WorkersDeliver`), a sender must have `sendLock` (`SendersHoldLock`), and a waiter must
  be in Remove (`WaitersWait`). Two things are assumed of the clients: mailboxes have
  numbers of Nat, and what a client puts on a synchronized list by itself is not
  mail from a machine (`SystemsAssumption`; `messages` is private to MailBox).
  The disk: with any number of threads that ask for any sectors, the assertions of Disk
  hold (`DiskAssertionsHold`), and a thread that waits has its unit or an interrupt on
  the way and is alone inside (`DiskInterruptsArrive`). Inductive is `Awaited`: the holder
  waits exactly while its request is under way or its interrupt has come unnoticed.
  The clients of these two theorems are the threads of `AskFor`. The same protocol is
  shown for the file system itself: `FilesWaitForTheirInterrupts` says of `FileSystem`,
  for all commands, stops and boots, that no request is made while another is under
  way and that each waiting thread gets its own interrupt. It needs that a thread
  prepares requests only when the last ones are done. Not proved is that the file system
  asks only for sectors the disk has, which rests on the headers it reads.
* `VirtualMemoryProof`: `TypeOK`, `FramesExclusive`, `NoFrameLost`, for all processes,
  programs, frames, pages and table sizes. `Local` is what single threads keep true: the
  page being loaded is not in memory and the victim no longer is (`Handled`), dirty
  pages have frames, an Exec owns the thread it is making. With it every action
  leaves who holds which frame unchanged, adds one frame that nobody held, or takes one
  from its only holder; three lemmas say that each keeps the two invariants. The
  proofs do not use the memory manager's lock: between its Acquire and its Release
  nothing gives up the processor, so the search for a frame and its marking are one
  step anyway.
  Its second half is the refinement `ImplementsPrivateMemory`, for any segments and any
  contents of a new `bstore_array`. `Backed` makes it inductive: a clean page in memory
  has the bytes that the backing file or the executable would set in it (`Saved`), and
  a byte that neither sets is open until the program stores into the page. `Unknown` and
  `CreatorHasFile` say whose file a name can refer to, so that
  an Exec either starts a program with a file of its own or takes the promise from
  both. A write to a frame changes no other page by `FramesExclusive`. Between the two
  is `TableNeverEmpty`: the slot of the largest id given out stays taken.

* `MachineProof` is about the simulated machine with its programs, console, interrupts
  and timer, for bytes of any number of bits, any programs, inputs and setups. Assumed is
  `MachineAssumption`: a program's memory holds whole words that fit the address space,
  each with an instruction that names registers there are (`Loadable`).
  `MachineTyped` is the type of everything a program can reach, found by one lemma for
  each group of instructions; `Writers` says that a thread inside putChar has a
  character to write. `LoadsDoneInKernel` (`NoLoadInKernel`) then follows by cases: only
  an instruction leaves a load pending, and the way into the kernel does it.
  `ConsoleKeepsCharacters` (`ConsoleConserves`), for input without the byte EOF, counts
  waiting writers against units
  and interrupts (`Announced`), which is inductive with at most one interrupt pending,
  and relates the name in `writeLock` to the thread inside. Its last conjunct had to be
  weakened: nobody writes to a busy display only while the names of those
  that have run differ. In the form it had before, for each writer by itself, it is false
  for three writers with a timer, which TLC showed once asked. (With two names in the lock
  the display can be busy for a third thread that has an own name.)
  `MachineImplementsPrivateCpu` (`ImplementsPrivateCpu`): what a program sees is its saved
  registers and the mode its place means; `OwnProcessor` relates the registers in the
  processor to the thread that has it. What an instruction does with all pages
  there it does with some, or faults and changes nothing (`ExecuteAll`).
  `ArithmeticIsExact` (`ArithmeticExact`) is by arithmetic: the loop of `Mult` keeps what a
  has lost, times b, in the double word hi:lo (`Shifted`), no turn overflows it since
  the product of two words is less than the square, and the complement at the end puts
  the sign back (`SignBack`). ADD, ADDI and SUB compare signs; that they do so exactly when the
  sum is no word is `TrapsExact`. That a word is four bytes is used nowhere in it but
  for the number of turns.

Model-checked only: all liveness (beyond the prover); `SimulatorsAgree`, which compares
two programs instruction by instruction, where TLC's answer on narrow words is nearly
as good; and `FilesKept` and `FreeMapExact`, whose proof needs what the folds in
`Allocate` and `ReadBytes` compute and what each prefix of a multi-sector transfer leaves
on the disk.

## Where the code and its documentation disagree

* `MCLockOneName`. `Lock::isHeldByCurrentThread` (synch.cc:170) compares names. Two
  threads of one name are inside a lock at once; `syscall_exec` names every
  process "new thread". `DistinctNames` is therefore an assumption of every theorem
  about the lock.
* `MCJoinLate`. A joinable child that ends before its parent calls `Join` stops the
  machine at `ASSERT(joinCalled)` (thread.cc:194), where threads/README:585 and the
  early return of `Join` expect a parent that comes late.
* `MCSpaceIds`. `Table::Release` (table.cc:54) clears the entry below the one that
  `Alloc` filled. When process 1 exits, the slot of process 0 is free; the next Exec
  gets id 0 and with it the file `bstore0`, emptied, that process 0 pages to.
  syscall.h:54 calls the id unique. `ImplementsPrivateMemory` therefore promises a
  program its memory only while no other process has its backing file.

Not given a run of their own:

* `setPriority` on a queued thread leaves it at its old place, since the list keeps
  a copy of the key, so the ready queue is not "ordered by decreasing priorities"
  (threads/README:749) after it.
* `Yield`'s comment that the yielding thread "will eventually be re-scheduled"
  (thread.cc:252) is true within one priority only.
* `Scheduler::Run` deletes the finished thread only in a thread that was switched out
  before. When a fresh thread follows, and finishes too, the first one is never
  deleted (thread.cc:171 says it will be).
* `bstore_array` (backingstore.cc:11) is not initialized: a page that was never saved may
  be taken from the backing file (README.VM:40-43 says when it should be), and then
  holds zeros or whatever was in the frame.
* README.VM:14-16 has pages of no segment zero-filled, and noff.h:22-24 wants
  uninitialized data "zero'ed before use". The handler counts the page in which a segment
  ends as the segment's, reads what the segment has of it, which is nothing when it ends
  on a page boundary (addrspace.cc:388-391, 414-418), and zero-fills no such page (424).
  The rest shows what the frame's last owner left, and may show something else after
  an eviction. `ImplementsPrivateMemory` promises nothing of these bytes until the
  program stores into their page (`Unspecified`).
* Tests of threadtest.cc that announce an end they have in one order of their threads
  only. 3.1 "should fail", and does not if the parent runs first. 3.2 and 3.3 "should see
  prints (((1)))(((2)))(((3)))" and 3.6.1 "should succeed", and all stop at the
  assertions of thread.cc:194 and 237 if the child finishes before the parent joins, or
  the parent joins before the child is forked. `Announced` has these with the condition
  as an equivalence. In MailboxTest1 and MailboxTest2 (231, 245) "T1 should return"
  means the first that waits, which need not be T1. In ConditionTest2 a Broadcast
  "wakes up all" that wait by then (what it does to the queue is in
  `ImplementsMonitor`), but ConditionWait keeps the lock, so one returns at most.
  ConditionTest5 (README test 10) stops only if the thread waits before the condition is
  deleted, LockTest5 and ConditionTest3 come out as README tests 5 and 8 say only
  if the deletion comes last and the wait comes last. The order in which the kernel
  forks and runs them without a timer is the one the tests have in mind.
* README.VM:38 says the evicted entry's physical page is then -1; the code leaves it.


Smaller things found while modelling; the models have them as they are:

* A file of length 0 cannot be written, and `FileWrite` (fstest.cc:123) creates its file
  with length 0: the performance test "by creating a large file" always fails at its
  first Write.
* Create, Remove and Open take no lock. filesys.cc says so of concurrent access
  (filesys.cc:164); an Open that has looked its name up reads another file's sector as a
  header if a Remove comes in between. In the run the second thread reads files that
  nobody removes.
* A character 0xFF typed equals EOF (console.cc:102) and is overwritten by the next.
* Two processes that Exec started share a name, so `writeLock` (synchconsole.cc:51)
  does not keep them apart; the assertion in Console stops the machine.
* A page fault of the kernel leaves `status` at UserMode (machine.cc:111). Open and Close
  do not advance the program counter (exception.cc:260, 267).
* OR reads one register twice; SRL shifts the sign in; the unaligned loads and stores
  fail their assertion; the least word divided by -1 traps the host (mipssim.cc).
  execute.c's MULT gives a wrong high word. `Disagree` in `Machine` lists all of it.
* `CheckIfDue` puts an interrupt that is not due back behind others of the same time.
* `Network::sendBusy` is never set, so the assertion at network.cc:116 checks nothing;
  `sendLock` is what keeps sends apart. MailTest never repeats lost mail.
* The end of Join test 3.5 depends on an uninitialized `threadFinished`.

## What is not modelled

The context switch (below the level of a step), host system calls, statistics,
debugging output and option parsing, the converters of object files, sample programs
and course material: see `components` in PROJECT.json for each with its reason. Of
the modelled parts: List and Print of the file system and ConsoleTest, which change
nothing a property could tell; the latency of the disk; files longer than a header
can address (Create does not check, and Copy of such a file writes past the header
object); LockTest1 and LockTest3, which fork one Thread object twice; the printer
threads of the tests. Stack overflow checks and memory exhaustion are left out, as is
`delete` of a lock or semaphore in use, which no code but a test does. The programs
of `Machine` do not change their own code, and its Exec is in `VirtualMemory`.

## Plan

Done: the inventory above but for the parts just named, with proofs of the lists, the
scheduler, the semaphore, the monitor, Join, the mailbox, the whales, the priority tests,
the post office, the disk with the file system's use of it, the frames and private memory,
the machine with its console, its arithmetic and the processor each program sees. What would
add most next: that the free map is exact, from lemmas about `Allocate` and about the
prefixes of a transfer, and with it that the file system asks only for sectors of the
disk; and a check of the disk after a torn Create or Remove that says which later
commands are still harmless.
