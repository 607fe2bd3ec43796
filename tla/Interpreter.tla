----------------------------- MODULE Interpreter ------------------------------
(***************************************************************************)
(* The other MIPS simulator of the repository, bin/execute.c, with the     *)
(* encodings of bin/encode.h: it runs one program alone, on real memory,   *)
(* without exceptions, page tables or delayed loads.                       *)
(*                                                                         *)
(* Step maps the registers and the memory to what one instruction makes of *)
(* them; cpu.pc and cpu.nextPC are pc and npc at the top of the loop.      *)
(***************************************************************************)
EXTENDS Mips

normal == [J |-> 2, JAL |-> 3, BEQ |-> 4, BNE |-> 5, BLEZ |-> 6, BGTZ |-> 7,
           ADDI |-> 8, ADDIU |-> 9, SLTI |-> 10, SLTIU |-> 11,
           ANDI |-> 12, ORI |-> 13, XORI |-> 14, LUI |-> 15,
           LB |-> 32, LH |-> 33, LWL |-> 34, LW |-> 35, LBU |-> 36, LHU |-> 37, LWR |-> 38,
           SB |-> 40, SH |-> 41, SWL |-> 42, SW |-> 43, SWR |-> 46]

special == [SLL |-> 0, SRL |-> 2, SRA |-> 3, SLLV |-> 4, SRLV |-> 6, SRAV |-> 7,
            JR |-> 8, JALR |-> 9, SYSCALL |-> 12, BREAK |-> 13,
            MFHI |-> 16, MTHI |-> 17, MFLO |-> 18, MTLO |-> 19,
            MULT |-> 24, MULTU |-> 25, DIV |-> 26, DIVU |-> 27,
            ADD |-> 32, ADDU |-> 33, SUB |-> 34, SUBU |-> 35,
            AND |-> 36, OR |-> 37, XOR |-> 38, NOR |-> 39, SLT |-> 42, SLTU |-> 43]

bcond == [BLTZ |-> 0, BGEZ |-> 1, BLTZAL |-> 16, BGEZAL |-> 17]

\* "u" is what ends in a call of u, or in exit.
Mnemonic(w) ==
  LET NameIn(table, n) == IF \E m \in DOMAIN table : table[m] = n
                          THEN CHOOSE m \in DOMAIN table : table[m] = n ELSE "u"
  IN CASE w.op = 0 -> NameIn(special, w.funct)
       [] w.op = 1 -> NameIn(bcond, w.rt)
       [] OTHER -> NameIn(normal, w.op)

immed(w) == SignExtend(w.imm, Half)

\* The high word, put together from halves; what the low halves carry into it
\* is left out.
HighOfProduct(m, n) ==
  LET ml == m % Half
      mh == ShiftRight(m, 2 * ByteBits) % Half
      nl == n % Half
      nh == ShiftRight(n, 2 * ByteBits) % Half
      Cross(x, y) == ShiftRight(Signed(x * y), 2 * ByteBits)
  IN Signed(mh * nh + Cross(mh, nl) + Cross(nh, ml))

\* MULT and MULTU, which differ in the treatment of signs only.
Product(m, n, signed) ==
  LET positive(x) == IF signed /\ x < 0 THEN Signed(-x) ELSE x
      lo == Signed(positive(m) * positive(n))
      hi == HighOfProduct(positive(m), positive(n))
      neg == signed /\ (m < 0) # (n < 0)
  IN [lo |-> IF neg THEN Signed(-lo) ELSE lo,
      hi |-> IF neg THEN (IF lo = 0 THEN Signed(-hi) ELSE -1 - hi) ELSE hi]

\* What an instruction that writes a general register computes.
SpecialValue(op, w, cpu) ==
  LET a == cpu.r[w.rs]
      b == cpu.r[w.rt]
  IN CASE op = "SLL" -> ShiftLeft(b, w.shamt)
       [] op = "SRL" -> ShiftRight(Unsigned(b), w.shamt)
       [] op = "SRA" -> ShiftRight(b, w.shamt)
       [] op = "SLLV" -> ShiftLeft(b, a % WordBits)
       [] op = "SRLV" -> ShiftRight(Unsigned(b), a % WordBits)
       [] op = "SRAV" -> ShiftRight(b, a % WordBits)
       [] op = "MFHI" -> cpu.hi
       [] op = "MFLO" -> cpu.lo
       [] op \in {"ADD", "ADDU"} -> a + b
       [] op \in {"SUB", "SUBU"} -> a - b
       [] op = "AND" -> BitAnd(a, b)
       [] op = "OR" -> BitOr(a, b)
       [] op = "XOR" -> BitXor(a, b)
       [] op = "NOR" -> -1 - BitOr(a, b)
       [] op = "SLT" -> IF a < b THEN 1 ELSE 0
       [] op = "SLTU" -> IF Unsigned(a) < Unsigned(b) THEN 1 ELSE 0

ImmediateValue(op, w, cpu) ==
  LET a == cpu.r[w.rs]
  IN CASE op \in {"ADDI", "ADDIU"} -> a + immed(w)
       [] op = "SLTI" -> IF a < immed(w) THEN 1 ELSE 0
       [] op = "SLTIU" -> IF Unsigned(a) < Unsigned(immed(w)) THEN 1 ELSE 0
       [] op = "ANDI" -> BitAnd(a, immed(w))
       [] op = "ORI" -> BitOr(a, immed(w))
       [] op = "XORI" -> BitXor(a, immed(w))
       [] op = "LUI" -> w.imm * Half

\* The unaligned loads shift a whole word into the register: LWL on top of
\* what is there, LWR in the place of what the shift reaches.
LoadValue(op, w, cpu, bytes) ==
  LET i == Signed(cpu.r[w.rs] + immed(w))
      memory == [bytes |-> bytes]
      word == ReadMem(memory, i - (i % 4), 4)
      old == cpu.r[w.rt]
  IN CASE op = "LB" -> ReadMem(memory, i, 1)
       [] op = "LBU" -> ReadMem(memory, i, 1) % Byte
       [] op = "LH" -> SignExtend(ReadMem(memory, i, 2), Half)
       [] op = "LHU" -> ReadMem(memory, i, 2)
       [] op = "LW" -> ReadMem(memory, i, 4)
       [] op = "LWL" -> BitOr(old, ShiftLeft(word, ByteBits * (i % 4)))
       [] op = "LWR" -> BitOr(IF i % 4 = 0 THEN 0 ELSE old - (old % 2 ^ (ByteBits * (i % 4))),
                              ShiftRight(word, ByteBits * ((-i) % 4)))

Branches(op, w, cpu) ==
  LET a == cpu.r[w.rs]
      b == cpu.r[w.rt]
  IN \/ op = "BEQ" /\ a = b
     \/ op = "BNE" /\ a # b
     \/ op \in {"BLTZ", "BLTZAL"} /\ a < 0
     \/ op \in {"BGEZ", "BGEZAL"} /\ a >= 0
     \/ op = "BLEZ" /\ a <= 0
     \/ op = "BGTZ" /\ a > 0

\* One turn of the loop for an instruction that is not a call of the system.
Step(w, cpu, bytes) ==
  LET op == Mnemonic(w)
      now == [cpu EXCEPT !.r[0] = 0]
      next == [now EXCEPT !.pc = cpu.nextPC, !.nextPC = Signed(cpu.nextPC + 4)]
      Wrote(c, reg, value) == [c EXCEPT !.r[reg] = Signed(value)]
      a == now.r[w.rs]
      b == now.r[w.rt]
      target == (cpu.pc - (cpu.pc % JumpSpan)) + 4 * w.target
      linked == IF op \in {"JAL", "BLTZAL", "BGEZAL"} THEN Wrote(next, 31, cpu.pc + 8) ELSE next
      i == Signed(a + immed(w))
      result ==
        CASE op = "JR" -> [next EXCEPT !.nextPC = a]
          [] op = "JALR" -> [Wrote(next, w.rd, cpu.pc + 8) EXCEPT !.nextPC = a]
          [] op \in {"J", "JAL"} -> [linked EXCEPT !.nextPC = Signed(target)]
          [] op \in {"BEQ", "BNE", "BLEZ", "BGTZ"} \cup DOMAIN bcond ->
               IF Branches(op, w, linked)
               THEN [linked EXCEPT !.nextPC = Signed(cpu.pc + 4 + 4 * immed(w))] ELSE linked
          [] op = "MTHI" -> [next EXCEPT !.hi = a]
          [] op = "MTLO" -> [next EXCEPT !.lo = a]
          [] op \in {"MULT", "MULTU"} -> LET p == Product(a, b, op = "MULT")
                                         IN [next EXCEPT !.lo = p.lo, !.hi = p.hi]
          [] op = "DIV" -> [next EXCEPT !.lo = Quotient(a, b), !.hi = a - Quotient(a, b) * b]
          [] op = "DIVU" -> [next EXCEPT !.lo = Signed(Unsigned(a) \div Unsigned(b)),
                                         !.hi = Signed(Unsigned(a) % Unsigned(b))]
          [] op \in {"LB", "LH", "LWL", "LW", "LBU", "LHU", "LWR"} ->
               Wrote(next, w.rt, LoadValue(op, w, now, bytes))
          [] op \in {"SB", "SH", "SW"} -> next
          [] w.op = 0 -> Wrote(next, w.rd, SpecialValue(op, w, now))
          [] OTHER -> Wrote(next, w.rt, ImmediateValue(op, w, now))
  IN [cpu |-> [result EXCEPT !.r[0] = 0],
      bytes |-> IF op \in {"SB", "SH", "SW"} THEN WriteMem([bytes |-> bytes], i, SizeOf(op), b)
                ELSE bytes]
===============================================================================
