--------------------------------- MODULE Mips ---------------------------------
(***************************************************************************)
(* The processor Nachos simulates: Machine::OneInstruction and what it     *)
(* calls (machine/mipssim.cc, mipssim.h, machine.cc, translate.cc).        *)
(*                                                                         *)
(* A byte has ByteBits bits (8 in the code), a word four bytes; registers  *)
(* hold signed words and wrap, as the host's ints do in a build without    *)
(* optimization.  An instruction is the record of its fields; Decode looks *)
(* it up in the tables.  OneInstruction maps the registers and the memory  *)
(* of a program to what one instruction makes of them.                     *)
(***************************************************************************)
EXTENDS Integers, Sequences, FiniteSets

CONSTANTS ByteBits,
          Registers,  \* the general registers in use, a subset of 0 .. 31
          JumpSpan,   \* what a jump can reach (2^28)
          PageSize

ASSUME MipsAssumption == /\ ByteBits \in Nat \ {0}
                         /\ {0, 2, 4, 5, 6, 29, 31} \subseteq Registers
                         /\ Registers \subseteq Nat
                         /\ JumpSpan \in Nat \ {0}
                         /\ PageSize \in Nat \ {0}

Byte == 2 ^ ByteBits
Half == Byte * Byte
Word == Half * Half
WordBits == 4 * ByteBits

SignExtend(n, size) == IF n >= size \div 2 THEN n - size ELSE n
Unsigned(n) == n % Word
Signed(n) == SignExtend(Unsigned(n), Word)

Bit(n, k) == (n \div 2 ^ k) % 2

\* The word with a one wherever the number of ones m and n have there is in ones.
BitByBit(m, n, ones) ==
  LET low[k \in 0 .. WordBits] ==   \* the lowest k bits
        IF k = 0 THEN 0
        ELSE low[k - 1] + (IF Bit(m, k - 1) + Bit(n, k - 1) \in ones THEN 2 ^ (k - 1) ELSE 0)
  IN Signed(low[WordBits])

BitAnd(m, n) == BitByBit(m, n, {2})
BitOr(m, n) == BitByBit(m, n, {1, 2})
BitXor(m, n) == BitByBit(m, n, {1})
ShiftLeft(n, k) == Signed(n * 2 ^ k)
ShiftRight(n, k) == n \div 2 ^ k   \* of an int: the sign is shifted in

\* Division of ints truncates.
Abs(n) == IF n < 0 THEN -n ELSE n
Quotient(m, n) == IF (m < 0) = (n < 0) THEN Abs(m) \div Abs(n) ELSE -(Abs(m) \div Abs(n))
-------------------------------------------------------------------------------
(* Decoding.                                                               *)

opTable ==
  <<"SPECIAL", "BCOND", "J", "JAL", "BEQ", "BNE", "BLEZ", "BGTZ",
    "ADDI", "ADDIU", "SLTI", "SLTIU", "ANDI", "ORI", "XORI", "LUI",
    "UNIMP", "UNIMP", "UNIMP", "UNIMP", "RES", "RES", "RES", "RES",
    "RES", "RES", "RES", "RES", "RES", "RES", "RES", "RES",
    "LB", "LH", "LWL", "LW", "LBU", "LHU", "LWR", "RES",
    "SB", "SH", "SWL", "SW", "RES", "RES", "SWR", "RES",
    "UNIMP", "UNIMP", "UNIMP", "UNIMP", "RES", "RES", "RES", "RES",
    "UNIMP", "UNIMP", "UNIMP", "UNIMP", "RES", "RES", "RES", "RES">>

specialTable ==
  <<"SLL", "RES", "SRL", "SRA", "SLLV", "RES", "SRLV", "SRAV",
    "JR", "JALR", "RES", "RES", "SYSCALL", "UNIMP", "RES", "RES",
    "MFHI", "MTHI", "MFLO", "MTLO", "RES", "RES", "RES", "RES",
    "MULT", "MULTU", "DIV", "DIVU", "RES", "RES", "RES", "RES",
    "ADD", "ADDU", "SUB", "SUBU", "AND", "OR", "XOR", "NOR",
    "RES", "RES", "SLT", "SLTU", "RES", "RES", "RES", "RES",
    "RES", "RES", "RES", "RES", "RES", "RES", "RES", "RES",
    "RES", "RES", "RES", "RES", "RES", "RES", "RES", "RES">>

\* The field of rt in the instructions BCOND stands for.
branchTable == [rt \in 0 .. 31 |-> CASE rt = 0 -> "BLTZ"
                                     [] rt = 1 -> "BGEZ"
                                     [] rt = 16 -> "BLTZAL"
                                     [] rt = 17 -> "BGEZAL"
                                     [] OTHER -> "UNIMP"]

\* An instruction is [op, rs, rt, rd, shamt, funct, imm, target]: the last two
\* are the fields of the two other formats, which overlap those before.
Decode(w) ==
  LET op == opTable[w.op + 1]
  IN [opCode |-> CASE op = "SPECIAL" -> specialTable[w.funct + 1]
                   [] op = "BCOND" -> branchTable[w.rt]
                   [] OTHER -> op,
      rs |-> w.rs, rt |-> w.rt, rd |-> w.rd,
      extra |-> CASE op = "SPECIAL" -> w.shamt
                  [] op \in {"J", "JAL"} -> w.target
                  [] OTHER -> SignExtend(w.imm, Half)]

\* What has the bits of an instruction.
Instructions ==
  {w \in [op : 0 .. 63, rs : 0 .. 31, rt : 0 .. 31, rd : 0 .. 31, shamt : 0 .. 31, funct : 0 .. 63,
          imm : 0 .. Half - 1, target : Nat] :
     w.rs \in Registers /\ w.rd \in Registers /\ (w.op = 1 \/ w.rt \in Registers)}

IndexToAddr(n) == 4 * n
-------------------------------------------------------------------------------
(* Memory.  A space is [bytes, valid]: what each address holds, and the    *)
(* pages that are in memory.                                               *)

Translate(space, addr, size) ==
  IF addr % size # 0 \/ Unsigned(addr) \notin DOMAIN space.bytes THEN "AddressError"
  ELSE IF Unsigned(addr) \div PageSize \notin space.valid THEN "PageFault"
  ELSE "NoException"

\* Little-endian; a single byte is a char, which has a sign.
ReadMem(space, addr, size) ==
  LET a == Unsigned(addr)
      b == space.bytes
  IN CASE size = 1 -> SignExtend(b[a], Byte)
       [] size = 2 -> b[a] + Byte * b[a + 1]
       [] size = 4 -> Signed(b[a] + Byte * b[a + 1] + Half * (b[a + 2] + Byte * b[a + 3]))

WriteMem(space, addr, size, value) ==
  LET a == Unsigned(addr)
  IN [i \in DOMAIN space.bytes |->
        IF i \in a .. a + size - 1 THEN ShiftRight(value, ByteBits * (i - a)) % Byte ELSE space.bytes[i]]
-------------------------------------------------------------------------------
(* A cpu is the user registers: [r, hi, lo, pc, nextPC, load, loadValue].  *)
(* A step is what OneInstruction has worked out before it commits:         *)
(* outcome is "done", the name of an exception, or "abort" when the host   *)
(* stops Nachos.                                                           *)

Started(cpu, space) ==
  [outcome |-> "done", addr |-> 0, cpu |-> cpu, bytes |-> space.bytes,
   pcAfter |-> Signed(cpu.nextPC + 4), load |-> 0, loadValue |-> 0]

Stops(s, outcome, addr) == [s EXCEPT !.outcome = outcome, !.addr = addr]

Sets(s, reg, value) == [s EXCEPT !.cpu.r[reg] = Signed(value)]

\* ADD and ADDI: signs that agree, and differ from the sign of the sum.
AddTrapping(i, s) ==
  LET a == s.cpu.r[i.rs]
      b == IF i.opCode = "ADD" THEN s.cpu.r[i.rt] ELSE i.extra
  IN IF (a < 0) = (b < 0) /\ (a < 0) # (Signed(a + b) < 0)
     THEN Stops(s, "Overflow", 0)
     ELSE Sets(s, IF i.opCode = "ADD" THEN i.rd ELSE i.rt, a + b)

SubTrapping(i, s) ==
  LET a == s.cpu.r[i.rs]
      b == s.cpu.r[i.rt]
  IN IF (a < 0) # (b < 0) /\ (a < 0) # (Signed(a - b) < 0)
     THEN Stops(s, "Overflow", 0)
     ELSE Sets(s, i.rd, a - b)

AddAnd(i, s) ==
  LET a == s.cpu.r[i.rs]
      b == s.cpu.r[i.rt]
  IN CASE i.opCode = "ADDIU" -> Sets(s, i.rt, a + i.extra)
       [] i.opCode = "ADDU" -> Sets(s, i.rd, a + b)
       [] i.opCode = "AND" -> Sets(s, i.rd, BitAnd(a, b))
       [] i.opCode = "ANDI" -> Sets(s, i.rt, BitAnd(a, i.extra % Half))

\* The branches that link do so before they test, and whether taken or not.
Branch(i, s) ==
  LET linked == IF i.opCode \in {"BGEZAL", "BLTZAL"} THEN Sets(s, 31, s.cpu.nextPC + 4) ELSE s
      a == linked.cpu.r[i.rs]
      b == IF i.opCode \in {"BEQ", "BNE"} THEN linked.cpu.r[i.rt] ELSE 0
      taken == CASE i.opCode = "BEQ" -> a = b
                 [] i.opCode = "BNE" -> a # b
                 [] i.opCode \in {"BGEZ", "BGEZAL"} -> a >= 0
                 [] i.opCode \in {"BLTZ", "BLTZAL"} -> a < 0
                 [] i.opCode = "BGTZ" -> a > 0
                 [] i.opCode = "BLEZ" -> a <= 0
  IN IF taken
     THEN [linked EXCEPT !.pcAfter = Signed(s.cpu.nextPC + IndexToAddr(i.extra))]
     ELSE linked

\* The quotient of the least int by -1 traps on the host.
Divide(i, s) ==
  LET a == IF i.opCode = "DIV" THEN s.cpu.r[i.rs] ELSE Unsigned(s.cpu.r[i.rs])
      b == IF i.opCode = "DIV" THEN s.cpu.r[i.rt] ELSE Unsigned(s.cpu.r[i.rt])
  IN CASE b = 0 -> [s EXCEPT !.cpu.lo = 0, !.cpu.hi = 0]
       [] a = -(Word \div 2) /\ b = -1 -> Stops(s, "abort", 0)
       [] OTHER -> LET q == Quotient(a, b)
                   IN [s EXCEPT !.cpu.lo = Signed(q), !.cpu.hi = Signed(a - q * b)]

\* JALR links first: with rd = rs it jumps to its own return address.  Slip: the
\* return address is that of the slot.
JumpLinksSlot(i, s) ==
  LET linked == CASE i.opCode = "JAL" -> Sets(s, 31, s.cpu.nextPC)
                  [] i.opCode = "JALR" -> Sets(s, i.rd, s.cpu.nextPC)
                  [] OTHER -> s
      inRegion == (s.pcAfter - (s.pcAfter % JumpSpan)) + IndexToAddr(i.extra)
  IN [linked EXCEPT !.pcAfter = IF i.opCode \in {"J", "JAL"} THEN Signed(inRegion)
                                ELSE linked.cpu.r[i.rs]]

Jump(i, s) ==
  LET linked == CASE i.opCode = "JAL" -> Sets(s, 31, s.cpu.nextPC + 4)
                  [] i.opCode = "JALR" -> Sets(s, i.rd, s.cpu.nextPC + 4)
                  [] OTHER -> s
      inRegion == (s.pcAfter - (s.pcAfter % JumpSpan)) + IndexToAddr(i.extra)
  IN [linked EXCEPT !.pcAfter = IF i.opCode \in {"J", "JAL"} THEN Signed(inRegion)
                                ELSE linked.cpu.r[i.rs]]
-------------------------------------------------------------------------------
\* Loads.  The register is written one instruction later (DelayedLoad).
SizeOf(opCode) == CASE opCode \in {"LB", "LBU", "SB"} -> 1
                    [] opCode \in {"LH", "LHU", "SH"} -> 2
                    [] OTHER -> 4

Loaded(opCode, value) == CASE opCode = "LB" -> SignExtend(value % Byte, Byte)
                           [] opCode = "LBU" -> value % Byte
                           [] opCode = "LH" -> SignExtend(value % Half, Half)
                           [] opCode = "LHU" -> value % Half
                           [] opCode = "LW" -> value

Load(i, s, space) ==
  LET addr == Signed(s.cpu.r[i.rs] + i.extra)
      size == SizeOf(i.opCode)
      exception == Translate(space, addr, size)
  IN IF exception # "NoException" THEN Stops(s, exception, addr)
     ELSE [s EXCEPT !.load = i.rt,
                    !.loadValue = Loaded(i.opCode, ReadMem(space, addr, size))]

\* LWL and LWR: only words on their boundary get past the assertion.  The
\* register as it will be when the pending load has been done is the old value.
LoadUnaligned(i, s, space) ==
  LET addr == Signed(s.cpu.r[i.rs] + i.extra)
      exception == Translate(space, addr, 4)
      value == ReadMem(space, addr, 4)
      old == IF s.cpu.load = i.rt THEN s.cpu.loadValue ELSE s.cpu.r[i.rt]
  IN CASE addr % 4 # 0 -> Stops(s, "abort", 0)
       [] addr % 4 = 0 /\ exception # "NoException" -> Stops(s, exception, addr)
       [] OTHER ->
            [s EXCEPT !.load = i.rt,
                      !.loadValue = IF i.opCode = "LWL" THEN value
                                    ELSE (old - (old % Byte)) + ShiftRight(Unsigned(value), 3 * ByteBits)]

Lui(i, s) == Sets(s, i.rt, i.extra * Half)

MoveHiLo(i, s) ==
  LET a == s.cpu.r[i.rs]
  IN CASE i.opCode = "MFHI" -> Sets(s, i.rd, s.cpu.hi)
       [] i.opCode = "MFLO" -> Sets(s, i.rd, s.cpu.lo)
       [] i.opCode = "MTHI" -> [s EXCEPT !.cpu.hi = a]
       [] i.opCode = "MTLO" -> [s EXCEPT !.cpu.lo = a]

\* One turn of Mult's loop: a's lowest bit adds b, which is shifted left as a
\* is shifted right.  When a has no further bit the loop ends.  Slip: the carry
\* out of the low word is dropped.
MultTurnNoCarry(m) ==
  LET odd == m.a % 2 = 1
      lo == IF odd THEN (m.lo + m.bLo) % Word ELSE m.lo
      hi == IF odd THEN (m.hi + m.bHi) % Word ELSE m.hi
  IN IF odd /\ m.a - (m.a % 2) = 0
     THEN [m EXCEPT !.lo = lo, !.hi = hi, !.more = FALSE]
     ELSE [m EXCEPT !.lo = lo, !.hi = hi, !.a = ShiftRight(@, 1),
                    !.bHi = (2 * @ + (2 * m.bLo) \div Word) % Word,
                    !.bLo = (2 * @) % Word]

MultTurn(m) ==
  LET odd == m.a % 2 = 1
      lo == IF odd THEN (m.lo + m.bLo) % Word ELSE m.lo
      carry == IF lo < m.bLo THEN 1 ELSE 0
      hi == IF odd THEN (m.hi + carry + m.bHi) % Word ELSE m.hi
  IN IF odd /\ m.a - (m.a % 2) = 0
     THEN [m EXCEPT !.lo = lo, !.hi = hi, !.more = FALSE]
     ELSE [m EXCEPT !.lo = lo, !.hi = hi, !.a = ShiftRight(@, 1),
                    !.bHi = (2 * @ + (2 * m.bLo) \div Word) % Word,
                    !.bLo = (2 * @) % Word]

\* Signed factors are made positive; the sign of the product is put back by
\* complementing the double word.
Mult(a, b, signedArith) ==
  LET positive(n) == IF signedArith /\ n < 0 THEN Signed(-n) ELSE n
      negative == signedArith /\ (a < 0) # (b < 0)
      Turn(m) == IF m.more THEN MultTurn(m) ELSE m
      after[k \in 0 .. WordBits] ==
        IF k = 0 THEN [a |-> positive(a), bLo |-> Unsigned(positive(b)), bHi |-> 0,
                       lo |-> 0, hi |-> 0, more |-> TRUE]
        ELSE Turn(after[k - 1])
      m == after[WordBits]
      lo == IF negative THEN (Word - m.lo) % Word ELSE m.lo
      hi == IF negative THEN ((Word - 1 - m.hi) + (IF lo = 0 THEN 1 ELSE 0)) % Word ELSE m.hi
  IN IF a = 0 \/ b = 0 THEN [hi |-> 0, lo |-> 0] ELSE [hi |-> Signed(hi), lo |-> Signed(lo)]

Multiply(i, s) ==
  LET product == Mult(s.cpu.r[i.rs], s.cpu.r[i.rt], i.opCode = "MULT")
  IN [s EXCEPT !.cpu.hi = product.hi, !.cpu.lo = product.lo]

\* OR reads rs twice.
OrNor(i, s) ==
  LET a == s.cpu.r[i.rs]
      b == s.cpu.r[i.rt]
  IN CASE i.opCode = "NOR" -> Sets(s, i.rd, -1 - BitOr(a, b))
       [] i.opCode = "OR" -> Sets(s, i.rd, BitOr(a, a))
       [] i.opCode = "ORI" -> Sets(s, i.rt, BitOr(a, i.extra % Half))

Store(i, s, space) ==
  LET addr == Signed(s.cpu.r[i.rs] + i.extra)
      size == SizeOf(i.opCode)
      exception == Translate(space, addr, size)
  IN IF exception # "NoException" THEN Stops(s, exception, addr)
     ELSE [s EXCEPT !.bytes = WriteMem(space, addr, size, s.cpu.r[i.rt])]

\* SWL and SWR: as LWL and LWR.
StoreUnaligned(i, s, space) ==
  LET addr == Signed(s.cpu.r[i.rs] + i.extra)
      exception == Translate(space, addr, 4)
      value == s.cpu.r[i.rt]
      merged == IF i.opCode = "SWL" THEN value
                ELSE (ReadMem(space, addr, 4) % (Byte * Half)) + ShiftLeft(value, 3 * ByteBits)
  IN CASE addr % 4 # 0 -> Stops(s, "abort", 0)
       [] addr % 4 = 0 /\ exception # "NoException" -> Stops(s, exception, addr)
       [] OTHER -> [s EXCEPT !.bytes = WriteMem(space, addr, 4, merged)]

\* SRL and SRLV shift an int, as SRA and SRAV do.
Shift(i, s) ==
  LET b == s.cpu.r[i.rt]
      count == IF i.opCode \in {"SLLV", "SRAV", "SRLV"} THEN s.cpu.r[i.rs] % WordBits
               ELSE i.extra
  IN Sets(s, i.rd, IF i.opCode \in {"SLL", "SLLV"} THEN ShiftLeft(b, count)
                   ELSE ShiftRight(b, count))

SetLess(i, s) ==
  LET a == s.cpu.r[i.rs]
      b == IF i.opCode \in {"SLT", "SLTU"} THEN s.cpu.r[i.rt] ELSE i.extra
      less == IF i.opCode \in {"SLT", "SLTI"} THEN a < b ELSE Unsigned(a) < Unsigned(b)
  IN Sets(s, IF i.opCode \in {"SLT", "SLTU"} THEN i.rd ELSE i.rt, IF less THEN 1 ELSE 0)

Subu(i, s) == Sets(s, i.rd, s.cpu.r[i.rs] - s.cpu.r[i.rt])

XorXori(i, s) == IF i.opCode = "XOR" THEN Sets(s, i.rd, BitXor(s.cpu.r[i.rs], s.cpu.r[i.rt]))
                 ELSE Sets(s, i.rt, BitXor(s.cpu.r[i.rs], i.extra % Half))
-------------------------------------------------------------------------------
\* The load that is pending is done, the new one takes its place, and R0 is 0
\* whatever was put there.
DelayedLoad(cpu, reg, value) ==
  [cpu EXCEPT !.r = [[@ EXCEPT ![cpu.load] = cpu.loadValue] EXCEPT ![0] = 0],
              !.load = reg, !.loadValue = value]

Execute(i, s, space) ==
  CASE i.opCode \in {"ADD", "ADDI"} -> AddTrapping(i, s)
    [] i.opCode \in {"ADDIU", "ADDU", "AND", "ANDI"} -> AddAnd(i, s)
    [] i.opCode \in {"BEQ", "BGEZ", "BGEZAL", "BGTZ", "BLEZ", "BLTZ", "BLTZAL", "BNE"} -> Branch(i, s)
    [] i.opCode \in {"DIV", "DIVU"} -> Divide(i, s)
    [] i.opCode \in {"J", "JAL", "JALR", "JR"} -> Jump(i, s)
    [] i.opCode \in {"LB", "LBU", "LH", "LHU", "LW"} -> Load(i, s, space)
    [] i.opCode = "LUI" -> Lui(i, s)
    [] i.opCode \in {"LWL", "LWR"} -> LoadUnaligned(i, s, space)
    [] i.opCode \in {"MFHI", "MFLO", "MTHI", "MTLO"} -> MoveHiLo(i, s)
    [] i.opCode \in {"MULT", "MULTU"} -> Multiply(i, s)
    [] i.opCode \in {"NOR", "OR", "ORI"} -> OrNor(i, s)
    [] i.opCode \in {"SB", "SH", "SW"} -> Store(i, s, space)
    [] i.opCode \in {"SLL", "SLLV", "SRA", "SRAV", "SRL", "SRLV"} -> Shift(i, s)
    [] i.opCode \in {"SLT", "SLTI", "SLTIU", "SLTU"} -> SetLess(i, s)
    [] i.opCode = "SUB" -> SubTrapping(i, s)
    [] i.opCode = "SUBU" -> Subu(i, s)
    [] i.opCode \in {"SWL", "SWR"} -> StoreUnaligned(i, s, space)
    [] i.opCode = "SYSCALL" -> Stops(s, "Syscall", 0)
    [] i.opCode \in {"XOR", "XORI"} -> XorXori(i, s)
    [] i.opCode \in {"RES", "UNIMP"} -> Stops(s, "IllegalInstr", 0)

\* An instruction that ends well does the pending load and moves the program
\* counters; any other leaves registers and memory as they were.
Commit(s, cpu, space) ==
  IF s.outcome = "done"
  THEN [s EXCEPT !.cpu = [DelayedLoad(s.cpu, s.load, s.loadValue)
                            EXCEPT !.pc = cpu.nextPC, !.nextPC = s.pcAfter]]
  ELSE [s EXCEPT !.cpu = cpu, !.bytes = space.bytes]

OneInstruction(code, cpu, space) ==
  LET fetch == Translate(space, cpu.pc, 4)
  IN IF fetch = "NoException"
     THEN Commit(Execute(Decode(code[Unsigned(cpu.pc)]), Started(cpu, space), space), cpu, space)
     ELSE Stops(Started(cpu, space), fetch, cpu.pc)

\* AddrSpace::InitRegisters.
InitRegisters(space) ==
  [r |-> [x \in Registers |-> IF x = 29 THEN Signed(Cardinality(DOMAIN space.bytes) - 16) ELSE 0],
   hi |-> 0, lo |-> 0, pc |-> 0, nextPC |-> 4, load |-> 0, loadValue |-> 0]

\* What exception.cc does at the end of a system call.
increase_program_counter(cpu) == [cpu EXCEPT !.pc = cpu.nextPC, !.nextPC = Signed(cpu.nextPC + 4)]
===============================================================================
