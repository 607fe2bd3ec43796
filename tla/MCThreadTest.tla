----------------------------- MODULE MCThreadTest -----------------------------
(* The tests of threadtest.cc, and in test 0 many more programs.  Main forks *)
(* one or two children and joins some, early or late, or one twice, or       *)
(* before it is forked, and a child may fork and join another; four threads  *)
(* send or receive, one of them up to two messages; up to six whales come of *)
(* any kinds.                                                                *)
EXTENDS ThreadTest
\* Threads that wait have the priority they were made with, but those of
\* PriorityTest2 set theirs to 0 first.
MCPriority == Each(0)
F(c) == <<"Fork", c>>
Jn(c) == <<"Join", c>>
MainPrograms == {<<F(2), Jn(2)>>, <<F(2), F(3), Jn(2), Jn(3)>>, <<F(2), F(3), Jn(3), Jn(2)>>,
                 <<F(2), Jn(2), F(3), Jn(3)>>, <<Jn(2), F(2)>>, <<F(2), F(3), Jn(3)>>,
                 <<F(2), F(4), Jn(4), Jn(2)>>, <<F(2), F(4), Jn(2), Jn(4)>>}
ChildPrograms == {<<>>, <<F(3), Jn(3)>>, <<Jn(3)>>, <<Jn(2)>>}
\* No thread is forked twice.
MCPrograms == {<<m, c, <<>>, <<>>>> : m \in MainPrograms, c \in ChildPrograms}
                \ {<<m, <<F(3), Jn(3)>>, <<>>, <<>>>> :
                     m \in {p \in MainPrograms : \E n \in DOMAIN p : p[n] = F(3)}}
One(t) == {<<Send(t)>>, <<Receive>>}
Two(t) == {<<Send(t), Send(t + 4)>>, <<Receive, Receive>>, <<Send(t), Receive>>,
           <<Receive, Send(t)>>}
MCCalls == {<<a, b, c, d, <<>>, <<>>, <<>>, <<>>>> :
              a \in One(1) \cup Two(1), b \in One(2), c \in One(3), d \in One(4)}
Rank(k) == CASE k = "Male" -> 1 [] k = "Female" -> 2 [] k = "Matchmaker" -> 3
MCPopulations == {Whales(p) : p \in {q \in [1 .. 6 -> {"Male", "Female", "Matchmaker"}] :
                                       \A n \in 2 .. 6 : Rank(q[n - 1]) <= Rank(q[n])}}
===============================================================================
