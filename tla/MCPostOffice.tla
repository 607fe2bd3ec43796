----------------------------- MODULE MCPostOffice -----------------------------
(* MailTest on two machines; two clients that send to one box, from which *)
(* two others receive; a machine that goes early; and threads that use one *)
(* list directly: producers, consumers, and threads that are both or only  *)
(* look.                                                                   *)
EXTENDS PostOffice
MCBoxes == {0, 1}
MCLists == Machines \X Boxes
MCHost == <<1, 2, 1, 2, 1, 2>>
MCWorker == <<5, 6>>
MCPriority == [t \in Threads |-> IF t = 3 THEN -1 ELSE 0]
MailTests == {<<MailTest(1, 2), MailTest(2, 1), <<>>, <<>>>>}
Crowds == {<<<<Send(2, 0, 1, "one"), Send(2, 0, 1, "two")>>, <<Receive(2, 0)>>,
             <<Send(2, 0, 1, "three")>>, <<Receive(2, 0), Receive(2, 0)>>>>,
           <<<<Send(2, 0, 1, "one"), Send(2, 1, 1, "two")>>, <<Send(1, 0, 1, "three"), Receive(2, 0)>>,
             <<Receive(1, 0)>>, <<Receive(2, 1)>>>>,
           <<<<Send(2, 0, 1, "one")>>, <<Halt>>, <<>>, <<>>>>}
l == <<1, 0>>
Item(data) == Mail(0, 1, 0, 0, data)
ListPrograms == <<<<AppendTo(l, Item("one"))>>, <<AppendTo(l, Item("two")), AppendTo(l, Item("three"))>>,
                  <<RemoveFrom(l)>>, <<AppendTo(l, Item("four")), RemoveFrom(l)>>,
                  <<MapcarOn(l), RemoveFrom(l)>>>>
\* The order of the threads is of no account, but for the one with priority.
ListSystems == {[t \in 1 .. 4 |-> ListPrograms[p[t]]] :
                  p \in {q \in [1 .. 4 -> 1 .. 5] : q[1] <= q[2] /\ q[2] <= q[4]}}
MCSystems == MailTests \cup Crowds \cup ListSystems
===============================================================================
