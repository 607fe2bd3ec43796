---------------------------- MODULE MCVirtualMemory ----------------------------
(* Two frames for three pages of up to three processes, with a table that has *)
(* room for two.  The code fills page 0, the data the first byte of page 1    *)
(* after it; the executable ends with the data.                               *)
EXTENDS VirtualMemory
Op(op, p, c, v) == [op |-> op, page |-> p, offset |-> c, value |-> v]
L(p) == Op("load", p, 0, 0)
S(p, c, v) == Op("store", p, c, v)
E == Op("exec", 0, 0, 0)
X == Op("exit", 0, 0, 0)
MCPrograms ==
  {<<<<S(1, 0, 1), S(2, 1, 1), S(1, 1, 2), L(2), E, L(1), L(2)>>, <<L(0), S(1, 1, 2), X>>, <<>>>>,
   <<<<E, S(1, 0, 1), E, L(0), X>>, <<S(1, 0, 1), E, L(1)>>, <<L(0), S(1, 1, 2), X>>>>}
MCExecutable == <<1, 1, 2>>
MCnoffHeader == [code |-> [virtualAddr |-> 0, size |-> 2, inFileAddr |-> 0],
                 initData |-> [virtualAddr |-> 2, size |-> 1, inFileAddr |-> 2]]
MCStaleArrays == {[p \in Pages |-> FALSE], [p \in Pages |-> p = 1]}
===============================================================================
