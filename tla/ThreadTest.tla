------------------------------ MODULE ThreadTest ------------------------------
(***************************************************************************)
(* The tests of threads/threadtest.cc: ThreadTest forks the threads of the *)
(* test that testnum selects, and they call a mailbox, join one another,   *)
(* match whales, or use a lock and a condition.                            *)
(*                                                                         *)
(* Each part of the tests runs one of the modules Mailbox, Join, Whale and *)
(* SynchTest, whose variables have the same names here; the variables of   *)
(* the others do not move.  A test is named after the function that forks  *)
(* its threads.  Printing and yielding are left out: the threads           *)
(* interleave freely, as they do with the timer of -rs.                    *)
(***************************************************************************)
EXTENDS SortedList, FiniteSets, Functions

CONSTANTS Threads,      \* T1, T2, ...: the numbers from 1
          JoinThreads,  \* those that Join's tests use
          Priority,     \* what getPriority returns when they wait
          SomeTests,    \* the values of testnum
          MorePrograms, MoreCalls, MorePopulations,  \* what threads do in test 0, of
                                                     \* Join, Mailbox and Whale
          NoThread, NoKind

ASSUME ThreadTestAssumption == /\ Threads = 1 .. Cardinality(Threads)
                               /\ {1, 2, 3} \subseteq JoinThreads
                               /\ JoinThreads \subseteq Threads
                               /\ SomeTests \subseteq Nat
                               /\ NoThread \notin Threads

VARIABLES testnum,
          part,  \* which of the four kinds of test runs
          owner, waitList, pc, todo, aborted,                               \* several
          join, joinCalled, threadFinished, finishedJoining,                \* Join
          numItems, buffer, bufferSet, empty, full, call, made, got,        \* Mailbox
          count, tripletsMade, kind,                                        \* Whale
          test, forks, readyList, i, deleted                                \* SynchTest
joinVars == <<join, joinCalled, threadFinished, finishedJoining>>
mailboxVars == <<numItems, buffer, bufferSet, empty, full, call, made, got>>
whaleVars == <<count, tripletsMade, kind>>
synchVars == <<test, forks, readyList, i, deleted>>
vars == <<testnum, part, owner, waitList, pc, todo, aborted,
          joinVars, mailboxVars, whaleVars, synchVars>>

Each(value) == [t \in Threads |-> value]

\* Of these values the threads T1, T2, ... have one each, and the others rest.
These(values, rest) == [t \in Threads |-> IF t \in DOMAIN values THEN values[t] ELSE rest]
-------------------------------------------------------------------------------
(* Part 1: locks and conditions; part 4: priorities. *)

InOrder(n) == [k \in 1 .. n |-> k]

Procedures(procedures) ==
  [fork |-> InOrder(Len(procedures)), priority |-> Each(0), procedure |-> These(procedures, <<>>)]

ReleaseLock == <<"Release">>
DeleteLock == <<"DeleteLock">>
WaitWithoutAcquire == <<"Wait">>
AcquireAndReleaseLock == <<"Acquire", "Release">>
ConditionWait == <<"Acquire", "Wait">>
ConditionSignal == <<"Acquire", "Signal", "Release">>
SignalWithoutAcquire == <<"Signal">>
ConditionBroadcast == <<"Acquire", "Broadcast", "Release">>
DeleteCondition == <<"DeleteCondition">>

LockTest2 == Procedures(<<ReleaseLock>>)
LockTest4 == Procedures(<<WaitWithoutAcquire>>)
LockTest5 == Procedures(<<AcquireAndReleaseLock, DeleteLock>>)
ConditionTest1 == Procedures(<<ConditionWait, ConditionWait, ConditionSignal>>)
ConditionTest2 == Procedures(<<ConditionWait, ConditionWait, ConditionWait, ConditionBroadcast>>)
ConditionTest3 == Procedures(<<ConditionSignal, ConditionBroadcast, ConditionWait>>)
ConditionTest4 == Procedures(<<SignalWithoutAcquire>>)
ConditionTest5 == Procedures(<<ConditionWait, DeleteCondition>>)

emptyMethod == <<>>
synchronize == <<"Acquire", "WaitForI", "Release">>
synchronize2 == <<"Acquire", "SetI", "Signal", "Release">>

PriorityTest1 == [fork |-> InOrder(6),
                  priority |-> These(<<-1, -8, 6, 10, 8, 0>>, 0),
                  procedure |-> Each(emptyMethod)]

PriorityTest2 == [fork |-> <<3, 4, 1, 5, 6, 2, 8, 7>>,
                  priority |-> These(<<12, 5, 6, 10, 9, -1, 3, 4>>, 0),
                  procedure |-> These(<<synchronize, synchronize2, emptyMethod, emptyMethod,
                                        synchronize, emptyMethod, emptyMethod, synchronize2>>,
                                      <<>>)]

SynchTests ==
  [n \in {3, 38, 39} \cup (5 .. 11) |->
     CASE n = 3 -> LockTest2 [] n = 5 -> LockTest4 [] n = 6 -> LockTest5
       [] n = 7 -> ConditionTest1 [] n = 8 -> ConditionTest2 [] n = 9 -> ConditionTest3
       [] n = 10 -> ConditionTest4 [] n = 11 -> ConditionTest5 [] n = 38 -> PriorityTest1
       [] n = 39 -> PriorityTest2]
-------------------------------------------------------------------------------
(* Part 2: the mailbox. *)

Send(message) == [op |-> "Send", message |-> message]

Receive == [op |-> "Receive", message |-> 0]

MultipleSends == <<Send(1), Send(2)>>
MultipleReceives == <<Receive, Receive>>

\* Each thread makes one of these calls.
OneEach(calls) == These([k \in DOMAIN calls |-> <<calls[k]>>], <<>>)

MailboxTest1 == OneEach(<<Receive, Receive, Receive, Send(1)>>)
MailboxTest2 == OneEach(<<Send(1), Send(2), Send(3), Receive>>)
MailboxTest3 == OneEach(<<Send(1), Send(2), Send(3), Send(4),
                          Receive, Receive, Receive, Receive>>)
MailboxTest4 == OneEach(<<Receive, Receive, Receive, Receive,
                          Send(1), Send(2), Send(3), Send(4)>>)
MailboxTest5 == OneEach(<<Send(1), Send(2), Send(3), Send(4)>>)
MailboxTest6 == OneEach(<<Receive, Receive, Receive, Receive>>)
MailboxTest7 == These(<<MultipleSends, MultipleReceives>>, <<>>)
MailboxTest8 == OneEach(<<Send(1), Receive, Send(2), Receive, Send(3), Receive>>)

MailboxTests ==
  [n \in 15 .. 22 |->
     CASE n = 15 -> MailboxTest1 [] n = 16 -> MailboxTest2 [] n = 17 -> MailboxTest3
       [] n = 18 -> MailboxTest4 [] n = 19 -> MailboxTest5 [] n = 20 -> MailboxTest6
       [] n = 21 -> MailboxTest7 [] n = 22 -> MailboxTest8]
-------------------------------------------------------------------------------
(* Part 3: Join.  Main forks the two threads. *)

main == 1
parent == 2
child == 3

\* The test: who was made with join = 1, what main and the parent do.
JoinTest(joinable, forked, joins) ==
  [join |-> [t \in JoinThreads |-> t \in joinable],
   todo |-> [t \in JoinThreads |->
               CASE t = main -> [k \in DOMAIN forked |-> <<"Fork", forked[k]>>]
                 [] t = parent -> [k \in DOMAIN joins |-> <<"Join", joins[k]>>]
                 [] OTHER -> <<>>]]

ForkerThread == JoinTest({child}, <<parent, child>>, <<child>>)
Part3_1Test == JoinTest({child}, <<child, parent>>, <<child>>)
Part3_2Test == JoinTest({child}, <<parent, child>>, <<child>>)
Part3_3Test == Part3_2Test
Part3_4Test == JoinTest({parent}, <<parent>>, <<parent>>)
Part3_5Test == JoinTest({}, <<parent, child>>, <<child>>)
Part3_6Test == JoinTest({child}, <<parent>>, <<child>>)
Part3_6_1Test == JoinTest({child}, <<parent, child>>, <<child>>)
Part3_7Test == JoinTest({child}, <<parent, child>>, <<child, child>>)

JoinTests ==
  [n \in {14, 361} \cup (31 .. 37) |->
     CASE n = 14 -> ForkerThread [] n = 31 -> Part3_1Test [] n = 32 -> Part3_2Test
       [] n = 33 -> Part3_3Test [] n = 34 -> Part3_4Test [] n = 35 -> Part3_5Test
       [] n = 36 -> Part3_6Test [] n = 361 -> Part3_6_1Test [] n = 37 -> Part3_7Test]
-------------------------------------------------------------------------------
(* Part 5: whales.  The last thread of a test, which prints the counters, is *)
(* left out.                                                                 *)

Whales(kinds) == These(kinds, NoKind)

Part5_1Test == Whales(<<"Male", "Male", "Female", "Female", "Male">>)
Part5_2Test == Whales(<<"Male", "Female", "Matchmaker", "Matchmaker", "Female", "Male">>)
Part5_3Test == Whales(<<"Male", "Male", "Female", "Matchmaker", "Matchmaker">>)
Part5_4Test == Whales(<<"Male", "Male", "Male", "Female", "Female", "Matchmaker", "Matchmaker">>)
Part5_5Test == Whales(<<"Matchmaker", "Matchmaker", "Matchmaker", "Matchmaker", "Matchmaker",
                        "Matchmaker", "Female">>)

WhaleTests ==
  [n \in 51 .. 55 |->
     CASE n = 51 -> Part5_1Test [] n = 52 -> Part5_2Test [] n = 53 -> Part5_3Test
       [] n = 54 -> Part5_4Test [] n = 55 -> Part5_5Test]
-------------------------------------------------------------------------------
M == INSTANCE Mailbox WITH
  Programs <- {MailboxTests[n] : n \in DOMAIN MailboxTests} \cup MoreCalls

W == INSTANCE Whale WITH
  Populations <- {WhaleTests[n] : n \in DOMAIN WhaleTests} \cup MorePopulations

S == INSTANCE SynchTest WITH Tests <- {SynchTests[n] : n \in DOMAIN SynchTests}

J == INSTANCE Join WITH
  Threads <- JoinThreads, Main <- main,
  Joinable <- SUBSET (JoinThreads \ {main}),
  Programs <- {JoinTests[n].todo : n \in DOMAIN JoinTests} \cup MorePrograms

ASSUME PartsAssumption == /\ J!JoinAssumption
                          /\ M!MailboxAssumption
                          /\ W!WhaleAssumption
                          /\ S!SynchTestAssumption

\* The variables of a part that does not run.
NoJoin == /\ join = 0 /\ joinCalled = 0 /\ threadFinished = 0 /\ finishedJoining = 0
NoMailbox == /\ numItems = 0 /\ buffer = 0 /\ bufferSet = 0 /\ empty = 0
             /\ full = 0 /\ call = 0 /\ made = 0 /\ got = 0
NoWhale == /\ count = 0 /\ tripletsMade = 0 /\ kind = 0
NoSynch == /\ test = 0 /\ forks = 0 /\ readyList = 0 /\ i = 0
           /\ deleted = 0

RunsJoin == /\ part = "Join"
            /\ UNCHANGED <<testnum, part, mailboxVars, whaleVars, synchVars>>
RunsMailbox == /\ part = "Mailbox"
               /\ UNCHANGED <<testnum, part, todo, aborted, joinVars, whaleVars, synchVars>>
RunsWhale == /\ part = "Whale"
             /\ UNCHANGED <<testnum, part, todo, aborted, joinVars, mailboxVars, synchVars>>
RunsSynch == /\ part = "Synch"
             /\ UNCHANGED <<testnum, part, joinVars, mailboxVars, whaleVars>>

\* The switch on testnum.
Init ==
  /\ testnum \in SomeTests
  /\ \/ /\ part = "Join"
        /\ J!Init
        /\ IF testnum = 0 THEN todo \in MorePrograms
           ELSE /\ testnum \in DOMAIN JoinTests
                /\ todo = JoinTests[testnum].todo
                /\ join = JoinTests[testnum].join
        /\ NoMailbox /\ NoWhale /\ NoSynch
     \/ /\ part = "Mailbox"
        /\ M!Init
        /\ IF testnum = 0 THEN call \in MoreCalls
           ELSE testnum \in DOMAIN MailboxTests /\ call = MailboxTests[testnum]
        /\ NoJoin /\ NoWhale /\ NoSynch /\ todo = 0 /\ aborted = FALSE
     \/ /\ part = "Whale"
        /\ W!Init
        /\ IF testnum = 0 THEN kind \in MorePopulations
           ELSE testnum \in DOMAIN WhaleTests /\ kind = WhaleTests[testnum]
        /\ NoJoin /\ NoMailbox /\ NoSynch /\ todo = 0 /\ aborted = FALSE
     \/ /\ part = "Synch"
        /\ S!Init
        /\ testnum \in DOMAIN SynchTests /\ test = SynchTests[testnum]
        /\ NoJoin /\ NoMailbox /\ NoWhale

JoinStep(t) == RunsJoin /\ t \in JoinThreads /\ J!Step(t)
JoinDelete == RunsJoin /\ \E t \in JoinThreads : J!Delete(t)
MailboxStep(t) == RunsMailbox /\ M!Step(t)
WhaleStep(t) == RunsWhale /\ W!Step(t)
SynchStep(t) == RunsSynch /\ S!Step(t)

Step(t) == JoinStep(t) \/ MailboxStep(t) \/ WhaleStep(t) \/ SynchStep(t)

Next == JoinDelete \/ \E t \in Threads : Step(t)

Spec == Init /\ [][Next]_vars

\* A runnable thread runs sooner or later (see Scheduler).
FairSpec == Spec /\ \A t \in Threads : WF_vars(Step(t))
-------------------------------------------------------------------------------
\* What Join and Finish owe each other: the parent learns that the child has
\* finished only when its procedure is done, the child goes away only after its
\* parent has learnt it, and no thread inside Join uses an object that is gone.
JoinRendezvous == part = "Join" => J!Rendezvous /\ J!JoinedObjectLives

\* The messages of the mailbox: Sends and Receives go on in pairs, none is
\* overwritten before it was received, and none is received twice.
MessagesInPairs == part = "Mailbox" => /\ M!MetInPairs
                                       /\ M!BufferInTurn
                                       /\ M!NoDuplicate

\* Exactly the whales no triplet can take wait, and none leaves outside of one.
WhalesInTriplets == part = "Whale" => W!SurplusWaits /\ W!OnlyTriplets

\* threadtest.cc:562 and 624, the order in which the threads "should print".
PriorityOrder ==
  /\ testnum = 38 => S!ReadyInOrder(<<4, 5, 3, 6, 1, 2>>)
  /\ testnum = 39 => S!ReadyInOrder(<<1, 4, 5, 3, 2, 8, 7, 6>>)

ConditionWaiters == {t \in Threads : test.procedure[t] = ConditionWait}

\* What printFor5_x prints once no whale moves: the triplets, and the males,
\* females and matchmakers without one.
Printed(triplets, males, females, matchmakers) ==
  /\ W!tripletsCounter = triplets
  /\ [k \in W!Kinds |-> count[k] - W!tripletsCounter]
       = "Male" :> males @@ "Female" :> females @@ "Matchmaker" :> matchmakers

\* The ends that the comments in threadtest.cc and the tests in threads/README
\* announce, as far as they do not depend on who runs first; what does depend on
\* it is said under the condition it needs, or left out (tests 6, 9 and 14).
Announced ==
  \* A "test that should fail" ends in a failed assertion, or (3.5, 3.7) in a
  \* Join that uses what the object holds by chance.
  /\ testnum \in {3, 5, 10, 34, 36} => aborted
  /\ testnum = 35 => aborted \/ threadFinished[child] \/ pc[child] = "deleted"
  /\ testnum = 37 => aborted \/ pc[child] = "deleted"
  \* 3.1 "should fail", 3.2 and 3.3 "should see prints (((1)))(((2)))(((3)))",
  \* 3.6.1 "should succeed": the machine is stopped if and only if the child
  \* was not forked yet when its parent called Join, or finished before that.
  /\ testnum \in {31, 32, 33, 361} => (aborted <=> pc[child] = "new" \/ ~joinCalled[child])
  \* "Signaling a condition variable wakes only one thread"; a Broadcast wakes
  \* all that wait by then, but ConditionWait returns with the lock and keeps it.
  /\ testnum \in {7, 8} => Cardinality(S!Returned \cap ConditionWaiters) <= 1
  \* "deleting condition variable should have no threads on the wait queue"
  /\ testnum = 11 => aborted \/ waitList[S!condition] = <<>>
  \* "T1 should return, T4 should return too, SHOULD PRINT 1": one of T1 to T3
  \* returns, the first to wait, and T4.
  /\ testnum = 15 => made[4] = 1 /\ Cardinality({t \in 1 .. 3 : got[t] = <<1>>}) = 1
  /\ testnum = 16 => made[4] = 1 /\ Cardinality({t \in 1 .. 3 : made[t] = 1}) = 1
  \* "should all block and not print"
  /\ testnum \in {19, 20} => \A t \in Threads : made[t] = 0
  \* Every receiver "receives, should print".
  /\ testnum = 22 => M!Calling = {}
  /\ testnum = 39 => \A t \in 1 .. 8 : t \in S!Returned
  /\ testnum = 51 => Printed(0, 3, 2, 0)
  /\ testnum = 52 => Printed(2, 0, 0, 0)
  /\ testnum = 53 => Printed(1, 1, 0, 1)
  /\ testnum = 54 => Printed(2, 1, 0, 0)
  /\ testnum = 55 => Printed(0, 0, 1, 6)

\* Every test comes to rest: no two threads wait for each other in Join and
\* Finish, every call of the mailbox that has a partner returns, every triplet
\* that can be made leaves, and the ends that Announced lists have come true.
TestsEnd ==
  <>[](/\ part = "Join" => aborted \/ \A t \in JoinThreads : pc[t] \in {"new", "dead", "deleted"}
       /\ part = "Mailbox" => M!PairsFinished
       /\ part = "Whale" => W!TripletsLeft
       /\ part = "Synch" => S!Rested
       /\ Announced)
===============================================================================
