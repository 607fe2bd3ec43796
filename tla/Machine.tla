-------------------------------- MODULE Machine -------------------------------
(***************************************************************************)
(* User programs on the simulated machine: Machine::Run and RaiseException *)
(* (machine/), the handler of exceptions with the Read and Write system    *)
(* calls (userprog/exception.cc), SynchConsole and Console.                *)
(*                                                                         *)
(* Each thread runs a program of its own.  The kernel part of a system     *)
(* call is a step from one point where interrupts are turned on to the     *)
(* next.  Page faults end with the page in memory (PageIn); what the       *)
(* memory manager does for it is module VirtualMemory, and so is the       *)
(* process table: Exit only ends the thread.                               *)
(***************************************************************************)
EXTENDS Interrupt, Interpreter

CONSTANTS First,        \* the thread of StartProcess
          Name,         \* Thread::name, which locks compare
          ConsoleTime,
          MaxResident,  \* pages of a program that are in memory at a time
          Setups        \* what the machine may start with, by number: [others, code,
                        \* bytes, input, random]

EOF == -1
FREE == "FREE"

\* A program as AddrSpace lays it out: whole words, each with the instruction
\* it decodes to.
Loadable(code, memory) ==
  /\ LET size == Cardinality(DOMAIN memory)
     IN size \in 0 .. Word /\ size % 4 = 0 /\ memory \in [0 .. size - 1 -> 0 .. Byte - 1]
  /\ \A a \in DOMAIN memory : a % 4 = 0 => code[a] \in Instructions

ASSUME MachineAssumption ==
  /\ First \in Threads
  /\ ConsoleTime \in Nat \ {0}
  /\ MaxResident \in Nat \ {0}
  /\ \A t \in Threads : Name[t] # FREE
  /\ \A s \in 1 .. Len(Setups) :
       /\ Setups[s].others \in Seq(Threads \ {First})
       /\ Setups[s].input \in Seq(Int \ {EOF})
       /\ DOMAIN Setups[s].code = Threads
       /\ DOMAIN Setups[s].bytes = Threads
       /\ \A t \in Threads : Loadable(Setups[s].code[t], Setups[s].bytes[t])

SC == [Halt |-> 0, Exit |-> 1, Open |-> 5, Read |-> 6, Write |-> 7, Close |-> 8]
ConsoleInput == 0
ConsoleOutput == 1

VARIABLES setup,      \* the number of the setup this is
          bytes,      \* what each program has in its memory
          valid,      \* the pages of each program that are in memory
          fault,      \* the page a thread faulted on, and where it goes on
          buf,        \* the kernel's buffer of each thread's Read or Write
          putBusy,    \* Console
          incoming,
          input,      \* what has not been typed yet
          output,     \* what the display shows
          taken,      \* what GetChar has returned
          semaphores, \* readAvail, writeDone: [value, queue]
          locks       \* readLock, writeLock: [holder, queue]
memory == <<setup, bytes, valid, fault>>
console == <<putBusy, incoming, input, output, taken>>
synch == <<semaphores, locks>>
vars == <<clock, dispatch, place, old, cpu, memory, buf, console, synch>>

Init ==
  /\ setup \in 1 .. Len(Setups)
  /\ InterruptInit(First, Setups[setup].others)
  /\ \E n \in IF Setups[setup].random THEN 1 .. 2 * TimerTicks ELSE {0} :
       pending = Schedule(IF n = 0 THEN <<>> ELSE Schedule(<<>>, "timer", n), "read", ConsoleTime)
  /\ bytes = Setups[setup].bytes
  /\ valid = [t \in Threads |-> {}]
  /\ fault = [t \in Threads |-> [page |-> 0, back |-> "user"]]
  /\ buf = [t \in Threads |-> <<>>]
  /\ putBusy = FALSE
  /\ incoming = EOF
  /\ input = Setups[setup].input
  /\ output = <<>>
  /\ taken = <<>>
  /\ semaphores = [s \in {"readAvail", "writeDone"} |-> [value |-> 0, queue |-> <<>>]]
  /\ locks = [l \in {"readLock", "writeLock"} |-> [holder |-> FREE, queue |-> <<>>]]

Space(t) == [bytes |-> bytes[t], valid |-> valid[t]]

At(t, p) == doing = "run" /\ current = t /\ place[t] = p

Goto(t, p) == place' = [place EXCEPT ![t] = p]

\* The thread goes on at p, in the same stretch of interrupts off.
Continues(t, p) == Goto(t, p) /\ UNCHANGED <<status, doing, old, dispatch>>

TicksTo(t, p) == Ticks(t, p, status) /\ UNCHANGED dispatch

Aborts == doing' = "aborted" /\ UNCHANGED <<status, place, old, dispatch>>

SleepsAt(t, p) == Sleep /\ Goto(t, p) /\ UNCHANGED <<status, old>>
-------------------------------------------------------------------------------
\* ThreadRoot turns interrupts on.
Root(t) == /\ At(t, "root")
           /\ Ticks(t, "begin", "System")
           /\ UNCHANGED <<pending, yieldOnReturn, dispatch, cpu, memory, buf, console, synch>>

\* create_new_process, or the end of StartProcess, and the beginning of
\* Machine::Run.
Begin(t) == /\ At(t, "begin")
            /\ cpu' = InitRegisters(Space(t))
            /\ addressSpace' = t
            /\ status' = "User"
            /\ Goto(t, "user")
            /\ UNCHANGED <<pending, yieldOnReturn, doing, old, current, ready, inYield, saved,
                           memory, buf, console, synch>>

\* What OneInstruction does for the thread that runs user code.
Result == OneInstruction(Setups[setup].code[addressSpace], cpu, Space(addressSpace))

Instruction(t) ==
  /\ At(t, "user")
  /\ Result.outcome = "done"
  /\ cpu' = Result.cpu
  /\ bytes' = [bytes EXCEPT ![addressSpace] = Result.bytes]
  /\ TicksTo(t, "user")
  /\ UNCHANGED <<pending, yieldOnReturn, setup, valid, fault, buf, console, synch>>

\* The host stops at an assertion of the simulator, or at a division.
HostStops(t) ==
  /\ At(t, "user")
  /\ Result.outcome = "abort"
  /\ Aborts
  /\ UNCHANGED <<pending, yieldOnReturn, cpu, memory, buf, console, synch>>

\* RaiseException up to ExceptionHandler.
Raises == status' = "System" /\ cpu' = DelayedLoad(cpu, 0, 0)

\* RaiseException in ReadMem or WriteMem called from back; the handler's first
\* call of the memory manager ticks.
PageFault(t, addr, back) ==
  /\ Raises
  /\ fault' = [fault EXCEPT ![t] = [page |-> Unsigned(addr) \div PageSize, back |-> back]]
  /\ old' = [old EXCEPT ![t] = "System"]
  /\ Goto(t, "pageIn")
  /\ doing' = "tick"
  /\ UNCHANGED <<pending, yieldOnReturn, dispatch, setup, bytes, valid, buf, console, synch>>

UserFault(t) == At(t, "user") /\ Result.outcome = "PageFault" /\ PageFault(t, Result.addr, "user")

\* The end of the handler, which leaves the machine in user mode.  The
\* instruction, or the kernel's access, is tried again.
PageIn(t) ==
  /\ At(t, "pageIn")
  /\ \E kept \in IF Cardinality(valid[t]) < MaxResident THEN {valid[t]}
                 ELSE {valid[t] \ {victim} : victim \in valid[t]} :
       valid' = [valid EXCEPT ![t] = kept \cup {fault[t].page}]
  /\ status' = "User"
  /\ old' = [old EXCEPT ![t] = "User"]
  /\ Goto(t, fault[t].back)
  /\ doing' = IF fault[t].back = "user" THEN "tick" ELSE "run"
  /\ UNCHANGED <<pending, yieldOnReturn, dispatch, cpu, setup, bytes, fault, buf, console, synch>>

\* The thread ends: a system call, or an exception no program survives.
Exit(t) ==
  /\ At(t, "exit")
  /\ SleepsAt(t, "finished")
  /\ UNCHANGED <<pending, yieldOnReturn, memory, buf, console, synch>>

Traps(t, next) == /\ Raises
                  /\ Goto(t, next)
                  /\ UNCHANGED <<pending, yieldOnReturn, doing, old, dispatch, memory, console, synch>>

\* The other exceptions.
Killed(t) == /\ At(t, "user")
             /\ Result.outcome \in {"AddressError", "Overflow", "IllegalInstr"}
             /\ Traps(t, "exit")
             /\ UNCHANGED buf

\* ExceptionHandler of a system call, up to the first time it ticks.
Syscall(t) ==
  LET r == DelayedLoad(cpu, 0, 0).r
  IN /\ At(t, "user")
     /\ Result.outcome = "Syscall"
     /\ buf' = [buf EXCEPT ![t] = <<>>]
     /\ Traps(t, CASE r[2] = SC.Halt -> "halt"
                   [] r[2] = SC.Exit -> "exit"
                   [] r[2] \in {SC.Open, SC.Close} -> "again"
                   [] r[2] = SC.Read /\ r[5] >= 0 /\ r[6] = ConsoleInput -> "get"
                   [] r[2] = SC.Read /\ ~(r[5] >= 0 /\ r[6] = ConsoleInput) -> "fail"
                   [] r[2] = SC.Write /\ r[5] >= 0 /\ r[6] = ConsoleOutput -> "fill"
                   [] r[2] = SC.Write /\ ~(r[5] >= 0 /\ r[6] = ConsoleOutput) -> "done"
                   [] OTHER -> "unexpected")

Stop(t) ==
  /\ \/ At(t, "halt") /\ doing' = "halted"
     \/ At(t, "unexpected") /\ doing' = "aborted"
  /\ UNCHANGED <<status, place, old, pending, yieldOnReturn, dispatch, cpu, memory, buf, console,
                 synch>>

\* The end of a system call: the result, the program counter, and the tick of
\* Run.  Open and Close leave the program counter where it is.
Return(t, p, newCpu) ==
  /\ At(t, p)
  /\ cpu' = newCpu
  /\ Ticks(t, "user", "User")
  /\ UNCHANGED <<pending, yieldOnReturn, dispatch, memory, buf, console, synch>>

ReturnAgain(t) == Return(t, "again", cpu)
ReturnDone(t) == Return(t, "done", increase_program_counter(cpu))
ReturnFail(t) == Return(t, "fail", increase_program_counter([cpu EXCEPT !.r[2] = 0]))
-------------------------------------------------------------------------------
(* The calls the kernel part makes.                                        *)

\* Lock::Acquire called at p, when the thread has slept in it at asleep.
Acquire(t, l, p, asleep, next) ==
  /\ \/ At(t, p) \/ At(t, asleep)
  /\ \/ /\ \/ locks[l].holder = FREE
           \/ At(t, p) /\ locks[l].holder = Name[t]
        /\ locks' = [locks EXCEPT ![l].holder = Name[t]]
        /\ TicksTo(t, next)
        /\ UNCHANGED cpu
     \/ /\ locks[l].holder # FREE
        /\ ~(At(t, p) /\ locks[l].holder = Name[t])
        /\ locks' = [locks EXCEPT ![l].queue = Append(@, t)]
        /\ SleepsAt(t, asleep)
  /\ UNCHANGED <<pending, yieldOnReturn, memory, buf, console, semaphores>>

\* Lock::Release.
Releases(t, l) ==
  /\ locks[l].holder = Name[t]
  /\ locks' = [locks EXCEPT ![l] = [holder |-> FREE, queue |-> IF @.queue = <<>> THEN <<>>
                                                               ELSE Tail(@.queue)]]
  /\ ready' = IF locks[l].queue = <<>> THEN ready ELSE Append(ready, Head(locks[l].queue))

\* Semaphore::P.
P(t, s, p, next) ==
  /\ At(t, p)
  /\ \/ /\ semaphores[s].value > 0
        /\ semaphores' = [semaphores EXCEPT ![s].value = @ - 1]
        /\ TicksTo(t, next)
        /\ UNCHANGED cpu
     \/ /\ semaphores[s].value = 0
        /\ semaphores' = [semaphores EXCEPT ![s].queue = Append(@, t)]
        /\ SleepsAt(t, p)
  /\ UNCHANGED <<pending, yieldOnReturn, memory, buf, console, locks>>

\* Semaphore::V, in an interrupt handler.
V(s) == /\ semaphores' = [semaphores EXCEPT ![s] =
             [value |-> @.value + 1, queue |-> IF @.queue = <<>> THEN <<>> ELSE Tail(@.queue)]]
        /\ ready' = IF semaphores[s].queue = <<>> THEN ready
                    ELSE Append(ready, Head(semaphores[s].queue))
-------------------------------------------------------------------------------
(* The Write system call.                                                  *)

\* read_buffer, one byte; a page that is not in memory faults in the kernel.
FillBuffer(t) ==
  LET addr == Signed(cpu.r[4] + Len(buf[t]))
      exception == Translate(Space(addressSpace), addr, 1)
  IN /\ At(t, "fill")
     /\ \/ /\ Len(buf[t]) = cpu.r[5]
           /\ Continues(t, "put")
           /\ UNCHANGED <<pending, yieldOnReturn, cpu, memory, buf, console, synch>>
        \/ /\ Len(buf[t]) < cpu.r[5] /\ exception = "NoException"
           /\ buf' = [buf EXCEPT ![t] = Append(@, ReadMem(Space(addressSpace), addr, 1))]
           /\ Continues(t, "fill")
           /\ UNCHANGED <<pending, yieldOnReturn, cpu, memory, console, synch>>
        \/ /\ Len(buf[t]) < cpu.r[5] /\ exception = "PageFault"
           /\ PageFault(t, addr, "fill")
        \/ /\ Len(buf[t]) < cpu.r[5] /\ exception = "AddressError"
           /\ Traps(t, "exit")
           /\ UNCHANGED buf

\* SynchConsole::putChar.
PutLast(t) == /\ At(t, "put")
              /\ buf[t] = <<>>
              /\ Continues(t, "done")
              /\ UNCHANGED <<pending, yieldOnReturn, cpu, memory, buf, console, synch>>

PutAcquire(t) == buf[t] # <<>> /\ Acquire(t, "writeLock", "put", "putAsleep", "putChar")

\* Slip: the character is written while the one before is being written.
PutCharUnchecked(t) ==
  /\ At(t, "putChar")
  /\ output' = Append(output, Head(buf[t]))
  /\ buf' = [buf EXCEPT ![t] = Tail(@)]
  /\ putBusy' = TRUE
  /\ pending' = Schedule(pending, "write", ConsoleTime)
  /\ Continues(t, "putRelease")
  /\ UNCHANGED <<yieldOnReturn, cpu, memory, incoming, input, taken, synch>>

\* Console::PutChar.
PutChar(t) ==
  /\ At(t, "putChar")
  /\ ~putBusy
  /\ output' = Append(output, Head(buf[t]))
  /\ buf' = [buf EXCEPT ![t] = Tail(@)]
  /\ putBusy' = TRUE
  /\ pending' = Schedule(pending, "write", ConsoleTime)
  /\ Continues(t, "putDone")
  /\ UNCHANGED <<yieldOnReturn, cpu, memory, incoming, input, taken, synch>>

\* Its assertion fails, or the one in Release.
PutFails(t) ==
  /\ \/ At(t, "putChar") /\ putBusy
     \/ At(t, "putRelease") /\ locks["writeLock"].holder # Name[t]
     \/ At(t, "getRelease") /\ locks["readLock"].holder # Name[t]
  /\ Aborts
  /\ UNCHANGED <<pending, yieldOnReturn, cpu, memory, buf, console, synch>>

PutWaits(t) == P(t, "writeDone", "putDone", "putRelease")

PutRelease(t) ==
  /\ At(t, "putRelease")
  /\ Releases(t, "writeLock")
  /\ Ticks(t, "put", status)
  /\ UNCHANGED <<pending, yieldOnReturn, current, inYield, saved, addressSpace, cpu, memory, buf,
                 console, semaphores>>

\* Console::WriteDone and SynchConsole::WriteDone.
WriteDone == /\ Fires("write")
             /\ pending' = Tail(pending)
             /\ putBusy' = FALSE
             /\ V("writeDone")
             /\ UNCHANGED <<yieldOnReturn, memory, buf, incoming, input, output, taken, locks>>
-------------------------------------------------------------------------------
(* The Read system call.                                                   *)

\* SynchConsole::getChar.
GetLast(t) == /\ At(t, "get")
              /\ Len(buf[t]) = cpu.r[5]
              /\ Continues(t, "drain")
              /\ UNCHANGED <<pending, yieldOnReturn, cpu, memory, buf, console, synch>>

GetAcquire(t) == /\ Len(buf[t]) < cpu.r[5]
                 /\ Acquire(t, "readLock", "get", "getAsleep", "getWait")

GetWaits(t) == P(t, "readAvail", "getWait", "getChar")

GetChar(t) ==
  /\ At(t, "getChar")
  /\ buf' = [buf EXCEPT ![t] = Append(@, incoming)]
  /\ taken' = Append(taken, incoming)
  /\ incoming' = EOF
  /\ Continues(t, "getRelease")
  /\ UNCHANGED <<pending, yieldOnReturn, cpu, memory, putBusy, input, output, synch>>

GetRelease(t) ==
  /\ At(t, "getRelease")
  /\ Releases(t, "readLock")
  /\ Ticks(t, "get", status)
  /\ UNCHANGED <<pending, yieldOnReturn, current, inYield, saved, addressSpace, cpu, memory, buf,
                 console, semaphores>>

\* Console::CheckCharAvail and SynchConsole::ReadAvail.
ReadPoll ==
  /\ Fires("read")
  /\ pending' = Schedule(Tail(pending), "read", ConsoleTime)
  /\ \/ UNCHANGED <<incoming, input, semaphores, ready>>
     \/ /\ incoming = EOF /\ input # <<>>
        /\ incoming' = Head(input)
        /\ input' = Tail(input)
        /\ V("readAvail")
  /\ UNCHANGED <<yieldOnReturn, memory, buf, putBusy, output, taken, locks>>

\* write_buffer, one byte, and the end of the system call.
DrainBuffer(t) ==
  LET addr == Signed(cpu.r[4] + (cpu.r[5] - Len(buf[t])))
      exception == Translate(Space(addressSpace), addr, 1)
  IN /\ At(t, "drain")
     /\ \/ /\ buf[t] = <<>>
           /\ cpu' = [cpu EXCEPT !.r[2] = cpu.r[5]]
           /\ Continues(t, "done")
           /\ UNCHANGED <<pending, yieldOnReturn, memory, buf, console, synch>>
        \/ /\ buf[t] # <<>> /\ exception = "NoException"
           /\ bytes' = [bytes EXCEPT ![addressSpace] =
                          WriteMem(Space(addressSpace), addr, 1, Head(buf[t]))]
           /\ buf' = [buf EXCEPT ![t] = Tail(@)]
           /\ Continues(t, "drain")
           /\ UNCHANGED <<pending, yieldOnReturn, cpu, setup, valid, fault, console, synch>>
        \/ /\ buf[t] # <<>> /\ exception = "PageFault"
           /\ PageFault(t, addr, "drain")
        \/ /\ buf[t] # <<>> /\ exception = "AddressError"
           /\ Traps(t, "exit")
           /\ UNCHANGED buf
-------------------------------------------------------------------------------
Hardware == \/ OneTick /\ UNCHANGED <<memory, buf, console, synch>>
            \/ TimerExpired /\ UNCHANGED <<memory, buf, console, synch>>
            \/ ReturnFromTick /\ UNCHANGED <<memory, buf, console, synch>>
            \/ YieldInTick /\ UNCHANGED <<memory, buf, console, synch>>
            \/ Idle /\ UNCHANGED <<memory, buf, console, synch>>
            \/ IdleReturns /\ UNCHANGED <<memory, buf, console, synch>>
            \/ WriteDone
            \/ ReadPoll

Thread(t) ==
  \/ Root(t) \/ Begin(t) \/ Instruction(t) \/ HostStops(t)
  \/ UserFault(t) \/ PageIn(t) \/ Killed(t) \/ Exit(t)
  \/ Syscall(t) \/ Stop(t) \/ ReturnAgain(t) \/ ReturnDone(t) \/ ReturnFail(t)
  \/ FillBuffer(t) \/ PutLast(t) \/ PutAcquire(t) \/ PutChar(t) \/ PutFails(t)
  \/ PutWaits(t) \/ PutRelease(t)
  \/ GetLast(t) \/ GetAcquire(t) \/ GetWaits(t) \/ GetChar(t) \/ GetRelease(t)
  \/ DrainBuffer(t)

Next == Hardware \/ \E t \in Threads : Thread(t)

Spec == Init /\ [][Next]_vars
-------------------------------------------------------------------------------
(* Properties.                                                             *)

\* No load is pending while the kernel or another thread has the processor:
\* what a handler reads and writes in the registers is what the program sees
\* (the note in mipssim.cc on traps; RaiseException, OneTick and CheckIfDue).
NoLoadInKernel ==
  /\ cpu.load # 0 => place[current] = "user" /\ ~yieldOnReturn
  /\ \A t \in Threads : saved[t].load = 0

\* The registers of each program, in the machine or saved, and how far it is.
ModeOf(t) == CASE place[t] \in {"root", "begin"} -> "new"
               [] \/ place[t] = "user"
                  \/ place[t] = "pageIn" /\ fault[t].back = "user" -> "user"
               [] place[t] \in {"exit", "finished"} -> "ended"
               [] OTHER -> "call"

CpuOf(t) == CASE ModeOf(t) = "new" -> InitRegisters(Space(t))
              [] ModeOf(t) # "new" /\ t = current -> cpu
              [] OTHER -> saved[t]

Private == INSTANCE PrivateCpu
  WITH mode <- [t \in Threads |-> ModeOf(t)],
       cpu <- [t \in Threads |-> CpuOf(t)]

\* Each program runs as if it had the processor and its memory for itself:
\* switches, time slices, page faults with their retries, and the system calls
\* of others do not show in its registers or its memory.
ImplementsPrivateCpu == Private!Spec

\* The next instruction of the program that runs, its registers when the
\* pending load is done, and what the instruction does to them.
Word0 == Setups[setup].code[addressSpace][Unsigned(cpu.pc)]
Flushed == DelayedLoad(cpu, 0, 0)
Outcome == OneInstruction(Setups[setup].code[addressSpace], Flushed, Space(addressSpace))
InUser == doing = "run" /\ place[current] = "user"

\* The arithmetic of the simulated processor is exact: ADD, ADDI and SUB trap
\* when the result has no word and only then, the product has all its bits,
\* and quotient and remainder are those of a division that truncates
\* (mipssim.cc's tests of sign bits, Mult and the host's / and %).
ArithmeticExact ==
  InUser => \A step \in {Outcome} :
    LET i == Decode(Word0)
        View(n) == IF i.opCode \in {"MULTU", "DIVU"} THEN Unsigned(n) ELSE n
        Fits(n) == n = Signed(n)
        a == View(Flushed.r[i.rs])
        b == View(Flushed.r[i.rt])
        high == View(step.cpu.hi)
        low == View(step.cpu.lo)
        exact == CASE i.opCode = "ADD" -> a + b
                   [] i.opCode = "ADDI" -> a + i.extra
                   [] i.opCode = "SUB" -> a - b
                   [] OTHER -> 0
    IN /\ step.outcome \in {"done", "Overflow"} => (step.outcome = "Overflow") = ~Fits(exact)
       /\ step.outcome = "done" /\ i.opCode \in {"MULT", "MULTU"} =>
            high * Word + Unsigned(low) = a * b
       /\ step.outcome = "done" /\ i.opCode \in {"DIV", "DIVU"} /\ b # 0 =>
            a = low * b + high /\ Abs(high) < Abs(b) /\ (high = 0 \/ (high < 0) = (a < 0))

\* What the two simulators of the repository disagree on: OR, which reads one
\* register twice here; logical shifts to the right of what is negative; the
\* sign of the immediate of ANDI, ORI and XORI; the high word of a product;
\* division by zero; the unaligned loads and stores; JALR into its own
\* register; jumps across regions; and branches in the slot of a branch.
Disagree(i, c) ==
  LET a == c.r[i.rs]
      b == c.r[i.rt]
  IN \/ i.opCode = "OR" /\ a # BitOr(a, b)
     \/ i.opCode \in {"SRL", "SRLV"} /\ b < 0
     \/ i.opCode \in {"ANDI", "ORI", "XORI"} /\ i.extra < 0
     \/ i.opCode \in {"MULT", "MULTU"}
     \/ i.opCode \in {"DIV", "DIVU"} /\ b = 0
     \/ i.opCode \in {"LWL", "LWR", "SWL", "SWR"}
     \/ i.opCode = "JALR" /\ i.rd = i.rs
     \/ i.opCode \in {"J", "JAL"} /\ c.pc \div JumpSpan # (c.pc + 8) \div JumpSpan
     \/ /\ i.opCode \in {"J", "JAL", "JALR", "JR"} \cup DOMAIN bcond \cup
                        {"BEQ", "BNE", "BLEZ", "BGTZ"}
        /\ c.nextPC # c.pc + 4

\* In everything else the machine does what bin/execute.c does, which was
\* written from the same architecture and shares no code with it.
SimulatorsAgree ==
  InUser => \A step \in {Outcome} :
    LET other == Step(Word0, Flushed, bytes[addressSpace])
    IN step.outcome = "done" /\ ~Disagree(Decode(Word0), Flushed) =>
         DelayedLoad(step.cpu, 0, 0) = other.cpu /\ step.bytes = other.bytes

\* Locks compare names: whether those of the threads that have run are distinct.
NamesDiffer == \A t, u \in {v \in Threads : place[v] # "root"} : Name[t] = Name[u] => t = u

\* No character is lost, invented or taken twice between the keyboard and the
\* programs; the display is busy exactly while its interrupt is to come, each
\* interrupt it has given wakes one writer, and unless two threads that have
\* run have one name nobody writes to a busy display (Console, SynchConsole).
ConsoleConserves ==
  LET writes == {i \in DOMAIN pending : pending[i].item = "write"}
      waiting == {t \in Threads : place[t] = "putDone"}
  IN /\ Setups[setup].input =
          taken \o (IF incoming = EOF THEN <<>> ELSE <<incoming>>) \o input
     /\ Cardinality(writes) = (IF putBusy THEN 1 ELSE 0)
     /\ Cardinality(waiting) = semaphores["writeDone"].value + Cardinality(writes)
     /\ NamesDiffer => \A t \in Threads : place[t] = "putChar" => ~putBusy
===============================================================================
