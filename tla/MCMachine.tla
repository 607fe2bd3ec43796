------------------------------ MODULE MCMachine -------------------------------
(* Bytes of two bits, so that a word has eight: five pages of sixteen bytes.  *)
(* The setups of Exact run each instruction of the processor on pairs of      *)
(* operands; the others run up to three programs with the console, the page   *)
(* faults and, where random is TRUE, the timer.                               *)
EXTENDS Machine

Instr(op, rs, rt, rd, shamt, funct, imm) ==
  [op |-> op, rs |-> rs, rt |-> rt, rd |-> rd, shamt |-> shamt, funct |-> funct, imm |-> imm,
   target |-> 3]
Imm(op, rs, rt, imm) == Instr(op, rs, rt, 0, 0, 0, imm % Half)
Special(funct, rs, rt, rd) == Instr(0, rs, rt, rd, 1, funct, 0)
Reserved == Imm(63, 0, 0, 0)
syscall == Special(12, 0, 0, 0)
addiu(rs, rt, imm) == Imm(9, rs, rt, imm)
lui(rt, imm) == Imm(15, 0, rt, imm)
lw(rs, rt, imm) == Imm(35, rs, rt, imm)
sw(rs, rt, imm) == Imm(43, rs, rt, imm)
bne(rs, rt, imm) == Imm(5, rs, rt, imm)

\* The rest of memory holds no instruction.
Code(list) == [pc \in {4 * k : k \in 0 .. 19} |->
                 IF pc \div 4 < Len(list) THEN list[pc \div 4 + 1] ELSE Reserved]
Digit(n, k) == ShiftRight(n, ByteBits * k) % Byte
Memory(a, b) == [i \in 0 .. 79 |-> IF i \in 64 .. 67 THEN Digit(a, i - 64)
                                   ELSE IF i \in 68 .. 71 THEN Digit(b, i - 68) ELSE 0]

MCName == <<"main", "new thread", "new thread">>

Done == <<addiu(0, 2, 1), syscall>>
Idles == Code(Done)
Call(number, address, size, id) ==
  <<lui(4, address), addiu(0, 5, size), addiu(0, 6, id), addiu(0, 2, number), syscall>>

\* Every instruction, between the loads of its operands and a Halt.
Forms ==
  [k \in 1 .. 80 |-> Imm(4 + ((k - 1) \div 2), 4, 5, IF k % 2 = 0 THEN 1 ELSE 12)] \o
  <<Imm(46, 4, 5, 4), Imm(2, 0, 0, 0), Imm(3, 0, 0, 0)>> \o
  <<Imm(1, 4, 0, 2), Imm(1, 4, 1, 2), Imm(1, 4, 16, 2), Imm(1, 4, 17, 2)>> \o
  [k \in 1 .. 43 |-> Special(IF k = 12 THEN 0 ELSE k, 4, 5, 6)]
Operands == <<0, 1, -1, 7, 66, -128>>
\* Who else runs, the three programs, two words of data, what is typed, and
\* whether there is a timer.
Setup(others, codes, a, b, typed, random) ==
  [others |-> others, input |-> typed, random |-> random,
   code |-> [t \in Threads |-> codes[t]], bytes |-> [t \in Threads |-> Memory(a, b)]]

Exact ==
  LET count == Len(Operands)
  IN [n \in 1 .. Len(Forms) * count * count |->
        LET form == Forms[1 + (n - 1) \div (count * count)]
        IN Setup(<<>>, <<Code(<<lui(3, 4), lw(3, 4, 0), lw(3, 5, 4), lui(0, 0), form, syscall>>),
                         Idles, Idles>>,
                 Operands[1 + (((n - 1) \div count) % count)], Operands[1 + ((n - 1) % count)], <<>>, FALSE)]

computes == <<lui(3, 4), lw(3, 4, 0), addiu(0, 5, 3), Special(24, 4, 5, 0), sw(3, 4, 4),
              bne(5, 0, 1), lui(0, 0), Special(18, 0, 0, 6)>> \o Done
loads == <<lui(3, 4), lw(3, 6, 4), addiu(6, 3, 1)>> \o Done
writes == Call(7, 4, 1, 1) \o Done
reads == Call(6, 4, 1, 0) \o <<Imm(32, 4, 5, 0), sw(4, 5, 4)>> \o Done

WrongCalls == <<Call(3, 4, 1, 1), Call(5, 4, 1, 1), Call(6, 4, -1, 0), Call(6, 4, 1, 1),
                Call(6, 7, 1, 0), Call(7, 4, 1, 0), Call(7, 7, 1, 1), Call(7, 4, -1, 1)>>

MCSetups ==
  Exact \o
  <<Setup(<<2>>, <<Code(computes), Code(loads), Idles>>, 7, 1, <<>>, TRUE),
    Setup(<<2>>, <<Code(writes), Code(reads), Idles>>, 1, 0, <<1>>, TRUE),
    Setup(<<2>>, <<Code(reads), Code(reads), Idles>>, 1, 0, <<1, 0>>, FALSE),
    Setup(<<2>>, <<Code(writes), Code(writes), Idles>>, 1, 0, <<>>, FALSE),
    Setup(<<2, 3>>, <<Idles, Code(writes), Code(writes)>>, 1, 0, <<>>, FALSE),
    Setup(<<2, 3>>, <<Code(writes), Code(writes), Code(writes)>>, 1, 0, <<>>, FALSE)>> \o
  [n \in DOMAIN WrongCalls |->
     Setup(<<>>, <<Code(WrongCalls[n] \o Done), Idles, Idles>>, 0, 0, <<1>>, FALSE)]
===============================================================================
