---------------------------- MODULE ThreadTestProof ----------------------------
(***************************************************************************)
(* What the clients of locks and conditions keep, for any threads,         *)
(* programs and priorities: the mailbox lets calls past in pairs and hands *)
(* each message over once, whales leave in triplets, Join and Finish wait  *)
(* for each other, and the threads of the priority tests are on the ready  *)
(* list in the order the comments announce.                                *)
(*                                                                         *)
(* M!, W! and J! are the parts as ThreadTest instantiates them.  Each has  *)
(* an invariant of its own (MailboxInv, WhaleInv, JoinInv), shown for one  *)
(* step of the part; the end puts them together for ThreadTest's steps.    *)
(***************************************************************************)
EXTENDS ThreadTest, ListProof, FiniteSetTheorems

\* The parts have copies of the operators on lists and sets.
LEMMA SameItems ==
  ASSUME NEW list
  PROVE  M!Items(list) = Items(list) /\ W!Items(list) = Items(list)
  BY DEF M!Items, W!Items, Items

LEMMA SameSets ==
  ASSUME NEW set
  PROVE  /\ M!IsFiniteSet(set) <=> IsFiniteSet(set)
         /\ W!IsFiniteSet(set) <=> IsFiniteSet(set)
         /\ M!Cardinality(set) = Cardinality(set)
         /\ W!Cardinality(set) = Cardinality(set)
<1>1. /\ M!IsFiniteSet(set) <=> IsFiniteSet(set)
      /\ W!IsFiniteSet(set) <=> IsFiniteSet(set)
  BY DEF M!IsFiniteSet, W!IsFiniteSet, IsFiniteSet
<1>2. M!Cardinality(set) = Cardinality(set)
  BY DEF M!Cardinality, Cardinality
<1>3. W!Cardinality(set) = Cardinality(set)
  BY DEF W!Cardinality, Cardinality
<1>4. QED
  BY <1>1, <1>2, <1>3

LEMMA SameInsert ==
  ASSUME NEW list, NEW item, NEW key
  PROVE  /\ M!SortedInsert(list, item, key) = SortedInsert(list, item, key)
         /\ W!SortedInsert(list, item, key) = SortedInsert(list, item, key)
<1>1. /\ M!Place(list, key) = Place(list, key)
      /\ W!Place(list, key) = Place(list, key)
  BY DEF M!Place, W!Place, Place
<1>2. /\ M!Element(item, key) = Element(item, key)
      /\ W!Element(item, key) = Element(item, key)
  BY DEF M!Element, W!Element, Element
<1>3. QED
  BY <1>1, <1>2 DEF M!SortedInsert, W!SortedInsert, SortedInsert, M!InsertAt, W!InsertAt, InsertAt

-------------------------------------------------------------------------------
(* The mailbox.                                                            *)

MailboxPlaces == {"start", "box", "boxWait", "boxLeave", "P", "acquire", "buffer",
           "bufferLeave", "V"}

Box == waitList["mailboxCV"]

\* A thread past "start" is in a call.
MailboxTyped ==
  /\ waitList \in [{"mailboxCV"} -> Seq(Elements(Threads))]
  /\ numItems \in Int
  /\ empty \in Nat /\ full \in Nat /\ bufferSet \in {0, 1}
  /\ call \in [Threads -> Seq([op : {"Send", "Receive"}, message : Nat])]
  /\ made \in [Threads -> Nat]
  /\ pc \in [Threads -> MailboxPlaces]
  /\ \A t \in Threads : pc[t] # "start" => t \in M!Calling

\* Who is on the list waits.
WaitersWait == Distinct(Box) /\ \A t \in M!Waiting : pc[t] = "boxWait"

\* The semaphores let one thread at a time pass; it has taken the token that
\* empty or full held.  While it is inside, bufferSet says whether it has copied.
Before == {"acquire", "buffer"}
After == {"bufferLeave", "V"}
Inside == {t \in Threads : pc[t] \in Before \cup After}

Token ==
  /\ empty + full = (IF Inside = {} THEN 1 ELSE 0)
  /\ \A t, u \in Inside : t = u
  /\ Inside = {} => bufferSet = full
  /\ \A t \in Inside : bufferSet = IF t \in M!Senders
                                   THEN IF pc[t] \in Before THEN 0 ELSE 1
                                   ELSE IF pc[t] \in Before THEN 1 ELSE 0

LEMMA SendsOrReceives ==
  ASSUME MailboxTyped
  PROVE  /\ M!Calling = M!Senders \cup M!Receivers
         /\ M!Senders \cap M!Receivers = {}
         /\ \A t \in M!Calling : M!Current(t).op \in {"Send", "Receive"}
<1>1. ASSUME NEW t \in M!Calling
      PROVE  M!Current(t) \in [op : {"Send", "Receive"}, message : Nat]
  <2>1. made[t] + 1 \in 1 .. Len(call[t])
    BY DEF M!Calling, MailboxTyped
  <2>2. call[t] \in Seq([op : {"Send", "Receive"}, message : Nat])
    BY DEF M!Calling, MailboxTyped
  <2>3. QED
    BY <2>1, <2>2, ElementOfSeq DEF M!Current
<1>2. QED
  BY <1>1 DEF M!Senders, M!Receivers

\* What all steps have in common.
LEMMA CallGoes ==
  ASSUME MailboxTyped, NEW t \in Threads, M!Step(t)
  PROVE  /\ t \in M!Calling
         /\ call' = call
         /\ pc' = [pc EXCEPT ![t] = pc'[t]]
         /\ pc[t] # "V" => made' = made /\ pc'[t] # "start"
         /\ pc[t] = "V" => made' = [made EXCEPT ![t] = @ + 1] /\ pc'[t] = "start"
         /\ pc'[t] \in MailboxPlaces
  BY DEF MailboxTyped, M!Step, M!AcquireBox, M!Meet, M!MeetWaitReturns, M!ReleaseBox, M!PSemaphore,
         M!AcquireBuffer, M!Copy, M!ReleaseBuffer, M!VSemaphore, M!Return, M!Go, MailboxPlaces

LEMMA SameRoles ==
  ASSUME MailboxTyped, NEW t \in Threads, M!Step(t)
  PROVE  \A u \in Threads : (u # t \/ pc[t] # "V") =>
           (u \in M!Senders' <=> u \in M!Senders) /\ (u \in M!Receivers' <=> u \in M!Receivers)
<1>1. SUFFICES ASSUME NEW u \in Threads, u # t \/ pc[t] # "V"
               PROVE  made'[u] = made[u] /\ call' = call
  BY DEF M!Senders, M!Receivers, M!Calling, M!Current
<1>2. QED
  BY <1>1, CallGoes DEF MailboxTyped

\* Before the semaphores and after them the token stays where it is.
LEMMA TokenUntouched ==
  ASSUME MailboxTyped, Token, NEW t \in Threads, M!Step(t), UNCHANGED <<empty, full, bufferSet>>,
         pc[t] # "V",
         pc[t] \in Before <=> pc'[t] \in Before, pc[t] \in After <=> pc'[t] \in After
  PROVE  Token'
<1>1. /\ \A u \in Threads : /\ pc[u] \in Before <=> pc'[u] \in Before
                            /\ pc[u] \in After <=> pc'[u] \in After
                            /\ u \in M!Senders <=> u \in M!Senders'
  BY CallGoes, SameRoles DEF MailboxTyped
<1>2. Inside' = Inside
  BY <1>1 DEF Inside
<1>3. QED
  BY <1>1, <1>2 DEF Token, Inside

LEMMA TokenInv ==
  ASSUME MailboxTyped, Token, NEW t \in Threads, M!Step(t)
  PROVE  Token'
<1>0. /\ empty \in Nat /\ full \in Nat /\ bufferSet \in {0, 1}
      /\ t \in M!Calling
      /\ t \in M!Senders <=> t \notin M!Receivers
      /\ pc' = [pc EXCEPT ![t] = pc'[t]]
      /\ pc \in [Threads -> MailboxPlaces]
      /\ pc[t] # "V" => (t \in M!Senders' <=> t \in M!Senders)
  BY CallGoes, SendsOrReceives, SameRoles DEF MailboxTyped
<1>1. CASE M!AcquireBox(t) \/ M!Meet(t) \/ M!MeetWaitReturns(t) \/ M!ReleaseBox(t)
  <2>1. /\ UNCHANGED <<empty, full, bufferSet>>
        /\ pc[t] \in {"start", "box", "boxWait", "boxLeave"}
        /\ pc'[t] \in {"box", "boxWait", "boxLeave", "P"}
    BY <1>0, <1>1 DEF M!AcquireBox, M!Meet, M!MeetWaitReturns, M!ReleaseBox, M!Go, M!bufferVars,
                      M!semaphores
  <2>2. QED
    BY <2>1, TokenUntouched DEF Before, After
<1>2. CASE M!AcquireBuffer(t) \/ M!ReleaseBuffer(t)
  <2>1. /\ UNCHANGED <<empty, full, bufferSet>>
        /\ \/ pc[t] = "acquire" /\ pc'[t] = "buffer"
           \/ pc[t] = "bufferLeave" /\ pc'[t] = "V"
    BY <1>0, <1>2 DEF M!AcquireBuffer, M!ReleaseBuffer, M!Go, M!bufferVars, M!semaphores
  <2>2. QED
    BY <2>1, TokenUntouched DEF Before, After
\* Who gets through P finds nobody inside, and is alone.
<1>3. CASE M!PSemaphore(t)
  <2>1. /\ pc[t] = "P" /\ pc'[t] = "acquire"
        /\ bufferSet' = bufferSet
        /\ IF t \in M!Senders
           THEN empty > 0 /\ empty' = empty - 1 /\ full' = full
           ELSE full > 0 /\ full' = full - 1 /\ empty' = empty
    BY <1>0, <1>3 DEF M!PSemaphore, M!Go, M!bufferVars
  <2>2. Inside = {}
    BY <1>0, <2>1 DEF Token
  <2>3. Inside' = {t}
    BY <1>0, <2>1, <2>2 DEF Inside, Before, After
  <2>4. /\ empty' + full' = 0
        /\ bufferSet' = IF t \in M!Senders THEN 0 ELSE 1
    BY <1>0, <2>1, <2>2 DEF Token
  <2>5. QED
    BY <1>0, <2>1, <2>3, <2>4 DEF Token, Before
<1>4. CASE M!Copy(t)
  <2>1. /\ pc[t] = "buffer" /\ pc'[t] = "bufferLeave"
        /\ empty' = empty /\ full' = full
        /\ bufferSet' = IF t \in M!Senders THEN 1 ELSE 0
    BY <1>0, <1>4 DEF M!Copy, M!Go, M!semaphores
  <2>2. Inside' = Inside /\ t \in Inside
    BY <1>0, <2>1 DEF Inside, Before, After
  <2>3. \A u \in Inside : u = t
    BY <2>2 DEF Token
  <2>4. QED
    BY <1>0, <2>1, <2>2, <2>3 DEF Token, Before
\* Who leaves gives the token to the other side.
<1>5. CASE M!VSemaphore(t)
  <2>1. /\ pc[t] = "V" /\ pc'[t] = "start"
        /\ bufferSet' = bufferSet
        /\ IF t \in M!Senders
           THEN full' = full + 1 /\ empty' = empty
           ELSE empty' = empty + 1 /\ full' = full
    BY <1>0, <1>5 DEF M!VSemaphore, M!Return, M!bufferVars
  <2>2. t \in Inside
    BY <2>1 DEF Inside, After
  <2>3. Inside' = {}
    BY <1>0, <2>1, <2>2 DEF Token, Inside, Before, After
  <2>4. /\ empty = 0 /\ full = 0
        /\ bufferSet = IF t \in M!Senders THEN 1 ELSE 0
    BY <1>0, <2>1, <2>2 DEF Token, Before
  <2>5. QED
    BY <1>0, <2>1, <2>3, <2>4 DEF Token
<1>6. QED
  BY <1>1, <1>2, <1>3, <1>4, <1>5 DEF M!Step

-------------------------------------------------------------------------------
(* The list of those who wait changes in Meet only.                        *)

Joins(t) == /\ numItems' = IF t \in M!Senders THEN numItems + 1 ELSE numItems - 1
            /\ IF t \in M!Senders THEN numItems' > 0 ELSE numItems' < 0
            /\ pc[t] = "box" /\ pc'[t] = "boxWait"
            /\ waitList' = [waitList EXCEPT !["mailboxCV"] = SortedInsert(Box, t, Priority[t])]

Wakes(t) == /\ numItems' = IF t \in M!Senders THEN numItems + 1 ELSE numItems - 1
            /\ IF t \in M!Senders THEN numItems' <= 0 ELSE numItems' >= 0
            /\ pc[t] = "box" /\ pc'[t] = "boxLeave"
            /\ waitList' = [waitList EXCEPT !["mailboxCV"] = IF Box = <<>> THEN Box ELSE Tail(Box)]

\* The other steps, of threads that are not on the list.
Passes(t) == /\ numItems' = numItems
             /\ waitList' = waitList
             /\ \/ pc[t] = "start" /\ pc'[t] = "box"
                \/ pc[t] = "boxWait" /\ pc'[t] = "boxLeave" /\ t \notin M!Waiting
                \/ /\ pc[t] \notin {"start", "box", "boxWait", "V"}
                   /\ pc'[t] \notin {"start", "box", "boxWait"}
                \/ pc[t] = "V" /\ pc'[t] = "start"

LEMMA ThreeKinds ==
  ASSUME MailboxTyped, NEW t \in Threads, M!Step(t)
  PROVE  Joins(t) \/ Wakes(t) \/ Passes(t)
<1>1. CASE M!Meet(t)
  BY <1>1, SameInsert DEF M!Meet, Joins, Wakes, M!Go, M!Wait, M!Signal, MailboxTyped, Box
<1>2. CASE M!VSemaphore(t)
  BY <1>2 DEF M!VSemaphore, M!Return, Passes, MailboxTyped, M!boxVars
<1>3. CASE M!MeetWaitReturns(t)
  BY <1>3 DEF M!MeetWaitReturns, Passes, M!Go, M!ReturnFromWait, M!Acquire, MailboxTyped,
              M!boxVars, M!Waiting
<1>4. CASE M!AcquireBox(t) \/ M!ReleaseBox(t) \/ M!PSemaphore(t) \/ M!AcquireBuffer(t) \/ M!Copy(t)
             \/ M!ReleaseBuffer(t)
  BY <1>4 DEF M!AcquireBox, M!ReleaseBox, M!PSemaphore, M!AcquireBuffer, M!Copy,
              M!ReleaseBuffer, Passes, M!Go, M!Acquire, M!Release, MailboxTyped, M!boxVars
<1>5. QED
  BY <1>1, <1>2, <1>3, <1>4 DEF M!Step

LEMMA BoxItems == M!Waiting = Items(Box) /\ M!Waiting' = Items(Box')
  BY SameItems DEF M!Waiting, Box

LEMMA WaitersAreThreads ==
  ASSUME MailboxTyped
  PROVE  M!Waiting \subseteq Threads
<1>1. Box \in Seq(Elements(Threads))
  BY DEF MailboxTyped, Box
<1>2. Items(Box) \subseteq Threads
  BY <1>1, ElementTypes DEF Items
<1>3. QED
  BY <1>2, BoxItems

LEMMA JoinsList ==
  ASSUME M!MailboxAssumption, MailboxTyped, WaitersWait, NEW t \in Threads, Joins(t)
  PROVE  /\ waitList' \in [{"mailboxCV"} -> Seq(Elements(Threads))]
         /\ M!Waiting' = M!Waiting \cup {t}
         /\ t \notin M!Waiting
         /\ Distinct(Box')
<1>1. Box \in Seq(Elements(Threads)) /\ Priority[t] \in Int /\ Distinct(Box)
  BY DEF MailboxTyped, WaitersWait, M!MailboxAssumption, Box
<1>2. Box' = SortedInsert(Box, t, Priority[t])
  BY DEF Joins, MailboxTyped, Box
<1>3. t \notin Items(Box)
  BY BoxItems DEF Joins, WaitersWait
<1>4. Box' \in Seq(Elements(Threads))
  BY <1>1, <1>2, InsertShape
<1>5. Items(Box') = Items(Box) \cup {t}
  BY <1>1, <1>2, InsertItems
<1>6. Distinct(Box')
  BY <1>1, <1>2, <1>3, InsertDistinct
<1>7. QED
  BY <1>2, <1>3, <1>4, <1>5, <1>6, BoxItems DEF Joins, MailboxTyped, Box

LEMMA WakesList ==
  ASSUME MailboxTyped, WaitersWait, NEW t \in Threads, Wakes(t)
  PROVE  /\ waitList' \in [{"mailboxCV"} -> Seq(Elements(Threads))]
         /\ t \notin M!Waiting
         /\ Distinct(Box')
         /\ \/ M!Waiting = {} /\ M!Waiting' = {}
            \/ \E h \in M!Waiting : M!Waiting' = M!Waiting \ {h}
<1>1. Box \in Seq(Elements(Threads)) /\ Distinct(Box) /\ t \notin M!Waiting
  BY DEF MailboxTyped, WaitersWait, Wakes, Box
<1>2. Box' = IF Box = <<>> THEN Box ELSE Tail(Box)
  BY DEF Wakes, MailboxTyped, Box
<1>3. CASE Box = <<>>
  <2>1. Items(Box) = {} /\ Box' = Box
    BY <1>2, <1>3 DEF Items
  <2>2. QED
    BY <1>1, <2>1, BoxItems DEF Wakes, MailboxTyped, Box
<1>4. CASE Box # <<>>
  <2>1. /\ Tail(Box) \in Seq(Elements(Threads))
        /\ Head(Box).item \in Items(Box)
        /\ Items(Box) = Items(Tail(Box)) \cup {Head(Box).item}
        /\ Distinct(Tail(Box))
        /\ Head(Box).item \notin Items(Tail(Box))
    BY <1>1, <1>4, RemoveProperties
  <2>2. Items(Tail(Box)) = Items(Box) \ {Head(Box).item}
    BY <2>1
  <2>3. QED
    BY <1>1, <1>2, <1>4, <2>1, <2>2, BoxItems DEF Wakes, MailboxTyped, Box
<1>5. QED
  BY <1>3, <1>4

LEMMA TypedInv ==
  ASSUME M!MailboxAssumption, MailboxTyped, WaitersWait, NEW t \in Threads, M!Step(t)
  PROVE  MailboxTyped' /\ WaitersWait'
<1>0. /\ t \in M!Calling
      /\ call' = call
      /\ pc' = [pc EXCEPT ![t] = pc'[t]]
      /\ pc[t] # "V" => made' = made
      /\ pc[t] = "V" => made' = [made EXCEPT ![t] = @ + 1] /\ pc'[t] = "start"
      /\ pc'[t] \in MailboxPlaces
      /\ pc \in [Threads -> MailboxPlaces] /\ numItems \in Int
      /\ M!Waiting \subseteq Threads
      /\ \A u \in M!Waiting : pc[u] = "boxWait"
  BY CallGoes, WaitersAreThreads DEF MailboxTyped, WaitersWait
<1>1. /\ waitList' \in [{"mailboxCV"} -> Seq(Elements(Threads))]
      /\ WaitersWait'
      /\ numItems' \in Int
  <2>1. CASE Joins(t)
    <3>1. /\ M!Waiting' = M!Waiting \cup {t} /\ Distinct(Box')
          /\ waitList' \in [{"mailboxCV"} -> Seq(Elements(Threads))]
      BY <2>1, JoinsList
    <3>2. pc'[t] = "boxWait" /\ numItems' \in Int
      BY <1>0, <2>1 DEF Joins
    <3>3. \A u \in M!Waiting' : pc'[u] = "boxWait"
      BY <1>0, <3>1, <3>2
    <3>4. QED
      BY <3>1, <3>2, <3>3 DEF WaitersWait
  <2>2. CASE Wakes(t)
    <3>1. /\ M!Waiting' \subseteq M!Waiting /\ t \notin M!Waiting /\ Distinct(Box')
          /\ waitList' \in [{"mailboxCV"} -> Seq(Elements(Threads))]
      BY <2>2, WakesList
    <3>2. numItems' \in Int
      BY <1>0, <2>2 DEF Wakes
    <3>3. \A u \in M!Waiting' : pc'[u] = "boxWait"
      BY <1>0, <3>1
    <3>4. QED
      BY <3>1, <3>2, <3>3 DEF WaitersWait
  <2>3. CASE Passes(t)
    <3>1. waitList' = waitList /\ M!Waiting' = M!Waiting /\ t \notin M!Waiting
      BY <1>0, <2>3 DEF Passes, M!Waiting
    <3>2. \A u \in M!Waiting' : pc'[u] = "boxWait"
      BY <1>0, <3>1
    <3>3. Distinct(Box') /\ waitList' \in [{"mailboxCV"} -> Seq(Elements(Threads))]
      BY <3>1 DEF WaitersWait, MailboxTyped, Box
    <3>4. numItems' \in Int
      BY <1>0, <2>3 DEF Passes
    <3>5. QED
      BY <3>2, <3>3, <3>4 DEF WaitersWait
  <2>4. QED
    BY <2>1, <2>2, <2>3, ThreeKinds
<1>2. empty' \in Nat /\ full' \in Nat /\ bufferSet' \in {0, 1}
  BY DEF MailboxTyped, M!Step, M!AcquireBox, M!Meet, M!MeetWaitReturns, M!ReleaseBox,
         M!PSemaphore, M!AcquireBuffer, M!Copy, M!ReleaseBuffer, M!VSemaphore, M!bufferVars,
         M!semaphores
<1>3. /\ call' \in [Threads -> Seq([op : {"Send", "Receive"}, message : Nat])]
      /\ made' \in [Threads -> Nat]
      /\ pc' \in [Threads -> MailboxPlaces]
  <2>1. made' \in [Threads -> Nat]
    <3>1. made \in [Threads -> Nat] /\ made[t] + 1 \in Nat
      BY DEF MailboxTyped
    <3>2. QED
      BY <1>0, <3>1
  <2>2. pc' \in [Threads -> MailboxPlaces]
    BY <1>0 DEF MailboxTyped
  <2>3. QED
    BY <1>0, <2>1, <2>2 DEF MailboxTyped
<1>4. ASSUME NEW u \in Threads, pc'[u] # "start" PROVE u \in M!Calling'
  <2>1. made'[u] = made[u] /\ u \in M!Calling
    BY <1>0, <1>4 DEF MailboxTyped
  <2>2. QED
    BY <1>0, <2>1 DEF M!Calling
<1>5. QED
  BY <1>1, <1>2, <1>3, <1>4 DEF MailboxTyped

-------------------------------------------------------------------------------
(* Only one kind waits, and numItems counts it.                            *)

OneKind == \/ M!Waiting \subseteq M!Senders /\ numItems = Cardinality(M!Waiting)
           \/ M!Waiting \subseteq M!Receivers /\ numItems = -Cardinality(M!Waiting)

LEMMA WaitersAreFinite ==
  ASSUME M!MailboxAssumption, MailboxTyped
  PROVE  /\ IsFiniteSet(M!Waiting)
         /\ Cardinality(M!Waiting) \in Nat
         /\ Cardinality(M!Waiting) = 0 <=> M!Waiting = {}
<1>1. IsFiniteSet(Threads)
  BY SameSets DEF M!MailboxAssumption
<1>2. QED
  BY <1>1, WaitersAreThreads, FS_Subset, FS_CardinalityType, FS_EmptySet

LEMMA WaiterJoins ==
  ASSUME M!MailboxAssumption, MailboxTyped, WaitersWait, OneKind,
         NEW t \in Threads, M!Step(t), Joins(t)
  PROVE  OneKind'
<1>1. /\ IsFiniteSet(M!Waiting)
      /\ Cardinality(M!Waiting) \in Nat
      /\ Cardinality(M!Waiting) = 0 <=> M!Waiting = {}
      /\ M!Waiting' = M!Waiting \cup {t} /\ t \notin M!Waiting
      /\ M!Waiting \subseteq Threads
  BY WaitersAreFinite, JoinsList, WaitersAreThreads
<1>2. Cardinality(M!Waiting') = Cardinality(M!Waiting) + 1
  BY <1>1, FS_AddElement
<1>3. /\ \A u \in Threads : u \in M!Senders => u \in M!Senders'
      /\ \A u \in Threads : u \in M!Receivers => u \in M!Receivers'
  BY SameRoles DEF Joins
<1>4. t \in M!Receivers <=> t \notin M!Senders
  BY CallGoes, SendsOrReceives
<1>5. /\ numItems' = IF t \in M!Senders THEN numItems + 1 ELSE numItems - 1
      /\ IF t \in M!Senders THEN numItems' > 0 ELSE numItems' < 0
      /\ numItems \in Int
  BY DEF Joins, MailboxTyped
<1>6. CASE t \in M!Senders
  <2>1. M!Waiting \subseteq M!Senders /\ numItems = Cardinality(M!Waiting)
    BY <1>1, <1>5, <1>6 DEF OneKind
  <2>2. M!Waiting' \subseteq M!Senders' /\ numItems' = Cardinality(M!Waiting')
    BY <1>1, <1>2, <1>3, <1>5, <1>6, <2>1
  <2>3. QED
    BY <2>2 DEF OneKind
<1>7. CASE t \notin M!Senders
  <2>1. M!Waiting \subseteq M!Receivers /\ numItems = -Cardinality(M!Waiting)
    BY <1>1, <1>5, <1>7 DEF OneKind
  <2>2. M!Waiting' \subseteq M!Receivers' /\ numItems' = -Cardinality(M!Waiting')
    BY <1>1, <1>2, <1>3, <1>4, <1>5, <1>7, <2>1
  <2>3. QED
    BY <2>2 DEF OneKind
<1>8. QED
  BY <1>6, <1>7

\* Who wakes a waiter wakes one of the other kind.
Partners(t, h) == /\ M!Waiting' = M!Waiting \ {h}
                  /\ \/ t \in M!Senders /\ h \in M!Receivers
                     \/ t \in M!Receivers /\ h \in M!Senders

LEMMA WaiterIsWoken ==
  ASSUME M!MailboxAssumption, MailboxTyped, WaitersWait, OneKind,
         NEW t \in Threads, M!Step(t), Wakes(t)
  PROVE  OneKind' /\ \E h \in M!Waiting : Partners(t, h)
<1>1. /\ IsFiniteSet(M!Waiting)
      /\ Cardinality(M!Waiting) \in Nat
      /\ Cardinality(M!Waiting) = 0 <=> M!Waiting = {}
      /\ M!Waiting \subseteq Threads
  BY WaitersAreFinite, WaitersAreThreads
<1>2. /\ numItems' = IF t \in M!Senders THEN numItems + 1 ELSE numItems - 1
      /\ IF t \in M!Senders THEN numItems' <= 0 ELSE numItems' >= 0
      /\ numItems \in Int
  BY DEF Wakes, MailboxTyped
<1>3. /\ \A u \in Threads : u \in M!Senders => u \in M!Senders'
      /\ \A u \in Threads : u \in M!Receivers => u \in M!Receivers'
  BY SameRoles DEF Wakes
<1>4. t \in M!Receivers <=> t \notin M!Senders
  BY CallGoes, SendsOrReceives
<1>5. /\ t \in M!Senders => M!Waiting \subseteq M!Receivers /\ numItems = -Cardinality(M!Waiting)
      /\ t \notin M!Senders => M!Waiting \subseteq M!Senders /\ numItems = Cardinality(M!Waiting)
      /\ M!Waiting # {}
  BY <1>1, <1>2 DEF OneKind
<1>6. PICK h \in M!Waiting : M!Waiting' = M!Waiting \ {h}
  BY <1>5, WakesList
<1>7. Cardinality(M!Waiting') = Cardinality(M!Waiting) - 1
  BY <1>1, <1>6, FS_RemoveElement
<1>8. Partners(t, h)
  BY <1>4, <1>5, <1>6 DEF Partners
<1>9. OneKind'
  <2>1. CASE t \in M!Senders
    <3>1. M!Waiting' \subseteq M!Receivers' /\ numItems' = -Cardinality(M!Waiting')
      BY <1>1, <1>2, <1>3, <1>5, <1>6, <1>7, <2>1
    <3>2. QED
      BY <3>1 DEF OneKind
  <2>2. CASE t \notin M!Senders
    <3>1. M!Waiting' \subseteq M!Senders' /\ numItems' = Cardinality(M!Waiting')
      BY <1>1, <1>2, <1>3, <1>5, <1>6, <1>7, <2>2
    <3>2. QED
      BY <3>1 DEF OneKind
  <2>3. QED
    BY <2>1, <2>2
<1>10. QED
  BY <1>8, <1>9

LEMMA WaitersStay ==
  ASSUME MailboxTyped, WaitersWait, OneKind, NEW t \in Threads, M!Step(t), Passes(t)
  PROVE  OneKind'
<1>1. /\ M!Waiting' = M!Waiting /\ numItems' = numItems
      /\ \A u \in M!Waiting : pc[u] = "boxWait" /\ u \in Threads
  BY WaitersAreThreads DEF Passes, M!Waiting, WaitersWait
<1>2. \A u \in M!Waiting : /\ u \in M!Senders => u \in M!Senders'
                           /\ u \in M!Receivers => u \in M!Receivers'
  BY <1>1, SameRoles
<1>3. CASE M!Waiting \subseteq M!Senders /\ numItems = Cardinality(M!Waiting)
  <2>1. M!Waiting' \subseteq M!Senders'
    <3>1. \A u \in M!Waiting : u \in M!Senders'
      BY <1>2, <1>3
    <3>2. QED
      BY <1>1, <3>1
  <2>2. numItems' = Cardinality(M!Waiting')
    BY <1>1, <1>3
  <2>3. QED
    BY <2>1, <2>2 DEF OneKind
<1>4. CASE M!Waiting \subseteq M!Receivers /\ numItems = -Cardinality(M!Waiting)
  <2>1. M!Waiting' \subseteq M!Receivers'
    <3>1. \A u \in M!Waiting : u \in M!Receivers'
      BY <1>2, <1>4
    <3>2. QED
      BY <1>1, <3>1
  <2>2. numItems' = -Cardinality(M!Waiting')
    BY <1>1, <1>4
  <2>3. QED
    BY <2>1, <2>2 DEF OneKind
<1>5. QED
  BY <1>3, <1>4 DEF OneKind

-------------------------------------------------------------------------------
(* The calls that are past the meeting.                                    *)

Mark(u) == <<u, made[u] + 1>>

HasMet(u, n) == \/ n <= made[u]
                \/ n = made[u] + 1 /\ pc[u] \notin {"start", "box"} /\ u \notin M!Waiting

LEMMA CallShape ==
  ASSUME MailboxTyped, NEW op, NEW c
  PROVE  c \in M!Calls(op) <=> \E u \in Threads : \E n \in 1 .. Len(call[u]) :
                               c = <<u, n>> /\ call[u][n].op = op
<1>1. \A u \in Threads : DOMAIN call[u] = 1 .. Len(call[u])
  BY LenProperties DEF MailboxTyped
<1>2. c \in M!Calls(op) <=> \E u \in Threads : \E n \in DOMAIN call[u] :
                            c = <<u, n>> /\ call[u][n].op = op
  BY DEF M!Calls
<1>3. QED
  BY <1>1, <1>2

LEMMA MetShape ==
  ASSUME NEW op
  PROVE  M!Met(op) = {c \in M!Calls(op) : HasMet(c[1], c[2])}
  BY DEF M!Met, M!Returned, HasMet

\* A thread's next call is of the kind the thread is.
LEMMA MarkShape ==
  ASSUME MailboxTyped, NEW u \in M!Calling
  PROVE  /\ u \in M!Senders <=> Mark(u) \in M!Calls("Send")
         /\ u \in M!Receivers <=> Mark(u) \in M!Calls("Receive")
<1>1. u \in Threads /\ made[u] + 1 \in 1 .. Len(call[u])
  BY DEF M!Calling, MailboxTyped
<1>2. \A op : Mark(u) \in M!Calls(op) <=> M!Current(u).op = op
  BY <1>1, CallShape DEF Mark, M!Current
<1>3. QED
  BY <1>2 DEF M!Senders, M!Receivers

\* Whoever joins the list or passes: nobody's call gets past the meeting.
LEMMA NobodyMeets ==
  ASSUME M!MailboxAssumption, MailboxTyped, WaitersWait, NEW t \in Threads, M!Step(t),
         Joins(t) \/ Passes(t), NEW op
  PROVE  M!Met(op)' = M!Met(op)
<1>1. /\ made \in [Threads -> Nat] /\ pc \in [Threads -> MailboxPlaces]
      /\ call' = call
      /\ pc' = [pc EXCEPT ![t] = pc'[t]]
      /\ pc[t] # "V" => made' = made
      /\ pc[t] = "V" => made' = [made EXCEPT ![t] = @ + 1] /\ pc'[t] = "start"
  BY CallGoes DEF MailboxTyped
<1>2. M!Calls(op)' = M!Calls(op)
  BY <1>1 DEF M!Calls
<1>3. /\ \A u \in Threads \ {t} : u \in M!Waiting' <=> u \in M!Waiting
      /\ Joins(t) => t \in M!Waiting'
      /\ Passes(t) => M!Waiting' = M!Waiting
      /\ t \in M!Waiting => pc[t] = "boxWait"
  BY JoinsList DEF Passes, M!Waiting, WaitersWait
<1>4. ASSUME NEW u \in Threads, NEW n \in Nat PROVE HasMet(u, n)' <=> HasMet(u, n)
  <2>1. CASE u # t
    <3>1. made'[u] = made[u] /\ pc'[u] = pc[u] /\ (u \in M!Waiting' <=> u \in M!Waiting)
      BY <1>1, <1>3, <2>1
    <3>2. QED
      BY <3>1 DEF HasMet
  <2>2. CASE u = t /\ Joins(t)
    <3>1. made'[t] = made[t] /\ pc[t] = "box" /\ t \in M!Waiting'
      BY <1>1, <1>3, <2>2 DEF Joins
    <3>2. QED
      BY <2>2, <3>1 DEF HasMet
  <2>3. CASE u = t /\ Passes(t) /\ pc[t] # "V"
    <3>1. made'[t] = made[t]
      BY <1>1, <2>3
    <3>2. \/ pc[t] = "start" /\ pc'[t] = "box"
          \/ /\ pc[t] \notin {"start", "box"} /\ pc'[t] \notin {"start", "box"}
             /\ t \notin M!Waiting /\ t \notin M!Waiting'
      BY <1>3, <2>3 DEF Passes
    <3>3. QED
      BY <2>3, <3>1, <3>2 DEF HasMet
  <2>4. CASE u = t /\ Passes(t) /\ pc[t] = "V"
    <3>1. made'[t] = made[t] + 1 /\ pc'[t] = "start" /\ t \notin M!Waiting /\ made[t] \in Nat
      BY <1>1, <1>3, <2>4
    <3>2. QED
      BY <2>4, <3>1 DEF HasMet
  <2>5. QED
    BY <2>1, <2>2, <2>3, <2>4
<1>5. ASSUME NEW c \in M!Calls(op) PROVE HasMet(c[1], c[2])' <=> HasMet(c[1], c[2])
  <2>1. c[1] \in Threads /\ c[2] \in Nat
    BY CallShape
  <2>2. QED
    BY <1>4, <2>1 DEF HasMet
<1>6. M!Met(op)' = {c \in M!Calls(op)' : HasMet(c[1], c[2])'}
  BY DEF M!Met, M!Returned, HasMet
<1>7. QED
  BY <1>2, <1>5, <1>6, MetShape

\* Whoever wakes a waiter brings both of them past the meeting.
LEMMA BothMeet ==
  ASSUME MailboxTyped, WaitersWait, NEW t \in Threads, M!Step(t), Wakes(t),
         NEW h \in M!Waiting, M!Waiting' = M!Waiting \ {h},
         NEW op, NEW u \in {t, h}, NEW v \in {t, h}, u # v,
         Mark(u) \in M!Calls(op), Mark(v) \notin M!Calls(op)
  PROVE  M!Met(op)' = M!Met(op) \cup {Mark(u)} /\ Mark(u) \notin M!Met(op)
<1>1. /\ made \in [Threads -> Nat] /\ pc \in [Threads -> MailboxPlaces]
      /\ call' = call /\ made' = made
      /\ pc' = [pc EXCEPT ![t] = pc'[t]]
      /\ pc[t] = "box" /\ pc'[t] = "boxLeave" /\ pc[h] = "boxWait"
      /\ h \in Threads /\ h # t
  BY CallGoes, WaitersAreThreads DEF MailboxTyped, Wakes, WaitersWait
<1>2. M!Calls(op)' = M!Calls(op)
  BY <1>1 DEF M!Calls
<1>3. /\ t \notin M!Waiting
      /\ \A w \in Threads \ {h} : w \in M!Waiting' <=> w \in M!Waiting
      /\ h \notin M!Waiting'
  BY <1>1 DEF WaitersWait
<1>4. ASSUME NEW w \in Threads \ {t, h}, NEW n \in Nat PROVE HasMet(w, n)' <=> HasMet(w, n)
  BY <1>1, <1>3 DEF HasMet
<1>5. ASSUME NEW w \in {t, h}, NEW n \in Nat
      PROVE  (HasMet(w, n) <=> n <= made[w]) /\ (HasMet(w, n)' <=> n <= made[w] + 1)
  <2>1. /\ made'[w] = made[w] /\ made[w] \in Nat
        /\ pc[w] = "box" \/ w \in M!Waiting
        /\ pc'[w] \notin {"start", "box"} /\ w \notin M!Waiting'
    BY <1>1, <1>3
  <2>2. QED
    BY <2>1 DEF HasMet
<1>6. ASSUME NEW c \in M!Calls(op)
      PROVE  HasMet(c[1], c[2])' <=> HasMet(c[1], c[2]) \/ c = Mark(u)
  <2>1. PICK w \in Threads, n \in Nat : c = <<w, n>>
    BY CallShape
  <2>2. HasMet(c[1], c[2])' <=> HasMet(w, n)'
    BY <2>1 DEF HasMet
  <2>3. CASE w \notin {t, h}
    BY <1>4, <2>1, <2>2, <2>3 DEF Mark
  <2>4. CASE w = v
    <3>1. n # made[v] + 1
      BY <2>1, <2>4 DEF Mark
    <3>2. HasMet(w, n)' <=> HasMet(w, n)
      BY <1>1, <1>5, <2>4, <3>1
    <3>3. QED
      BY <2>1, <2>2, <2>4, <3>2 DEF Mark
  <2>5. CASE w = u
    <3>1. HasMet(w, n)' <=> HasMet(w, n) \/ n = made[u] + 1
      BY <1>1, <1>5, <2>5
    <3>2. QED
      BY <2>1, <2>2, <2>5, <3>1 DEF Mark
  <2>6. QED
    BY <2>3, <2>4, <2>5
<1>7. M!Met(op)' = {c \in M!Calls(op)' : HasMet(c[1], c[2])'}
  BY DEF M!Met, M!Returned, HasMet
<1>8. Mark(u) \notin M!Met(op)
  <2>1. u \in Threads /\ made[u] + 1 \in Nat /\ ~(made[u] + 1 <= made[u])
    BY <1>1
  <2>2. ~HasMet(u, made[u] + 1)
    BY <1>5, <2>1
  <2>3. QED
    BY <2>2, MetShape DEF Mark
<1>9. QED
  BY <1>2, <1>6, <1>7, <1>8, MetShape

-------------------------------------------------------------------------------
(* Each message is received once.                                          *)

\* The nth call of u, a Send, has put its message into the buffer.
Copied(u, n) == n <= made[u] \/ (n = made[u] + 1 /\ pc[u] \in After)

Put == {m \in Nat : \E u \in Threads : \E n \in 1 .. Len(call[u]) :
                      call[u][n].op = "Send" /\ call[u][n].message = m /\ Copied(u, n)}

\* What was received was sent; what is in a full buffer was sent and not
\* received yet.
Once ==
  /\ got \in [Threads -> Seq(Nat)]
  /\ buffer \in Nat
  /\ M!DistinctMessages(call)
  /\ \A u \in Threads : \A n \in 1 .. Len(got[u]) : got[u][n] \in Put
  /\ bufferSet = 1 => /\ buffer \in Put
                      /\ \A u \in Threads : \A n \in 1 .. Len(got[u]) : got[u][n] # buffer
  /\ \A u, v \in Threads : \A n \in 1 .. Len(got[u]), m \in 1 .. Len(got[v]) :
       got[u][n] = got[v][m] => u = v /\ n = m

LEMMA CopiedStays ==
  ASSUME MailboxTyped, NEW t \in Threads, M!Step(t), NEW m \in Put
  PROVE  m \in Put'
<1>0. PICK u \in Threads : \E n \in 1 .. Len(call[u]) :
        call[u][n].op = "Send" /\ call[u][n].message = m /\ Copied(u, n)
  BY DEF Put
<1>1. PICK n \in 1 .. Len(call[u]) :
        call[u][n].op = "Send" /\ call[u][n].message = m /\ Copied(u, n)
  BY <1>0
<1>2. /\ call' = call
      /\ pc' = [pc EXCEPT ![t] = pc'[t]]
      /\ pc[t] # "V" => made' = made
      /\ pc[t] = "V" => made' = [made EXCEPT ![t] = @ + 1]
      /\ pc \in [Threads -> MailboxPlaces] /\ made \in [Threads -> Nat]
      /\ Len(call[u]) \in Nat
  BY CallGoes, LenProperties DEF MailboxTyped
<1>3. pc[t] = "bufferLeave" => pc'[t] = "V"
  BY DEF M!Step, M!AcquireBox, M!Meet, M!MeetWaitReturns, M!ReleaseBox, M!PSemaphore,
         M!AcquireBuffer, M!Copy, M!ReleaseBuffer, M!VSemaphore, M!Return, M!Go, MailboxTyped
<1>4. Copied(u, n)'
  <2>1. CASE u # t
    <3>1. made'[u] = made[u] /\ pc'[u] = pc[u]
      BY <1>2, <2>1
    <3>2. QED
      BY <1>1, <3>1 DEF Copied
  <2>2. CASE u = t /\ pc[t] # "V"
    <3>1. made'[t] = made[t] /\ (pc[t] \in After => pc'[t] \in After)
      BY <1>2, <1>3, <2>2 DEF After
    <3>2. QED
      BY <1>1, <2>2, <3>1 DEF Copied
  <2>3. CASE u = t /\ pc[t] = "V"
    <3>1. made'[t] = made[t] + 1 /\ made[t] \in Nat /\ n \in Nat
      BY <1>2, <2>3
    <3>2. QED
      BY <1>1, <2>3, <3>1 DEF Copied
  <2>4. QED
    BY <2>1, <2>2, <2>3
<1>5. QED
  BY <1>1, <1>2, <1>4 DEF Put

\* A sender puts its message into the buffer.
LEMMA SenderCopies ==
  ASSUME MailboxTyped, Once, NEW t \in Threads, M!Copy(t), t \in M!Senders
  PROVE  Once'
<1>1. /\ M!Step(t)
      /\ pc[t] = "buffer" /\ pc'[t] = "bufferLeave"
      /\ made' = made /\ call' = call /\ got' = got
      /\ buffer' = M!Current(t).message
      /\ t \notin M!Receivers
  BY SendsOrReceives DEF M!Copy, M!Go, M!Step, MailboxTyped
<1>2. PICK k \in 1 .. Len(call[t]) : k = made[t] + 1 /\ made[t] \in Nat
  <2>1. made[t] \in Nat /\ Len(call[t]) \in Nat /\ made[t] < Len(call[t])
    BY LenProperties DEF M!Senders, M!Calling, MailboxTyped
  <2>2. made[t] + 1 \in 1 .. Len(call[t])
    BY <2>1
  <2>3. QED
    BY <2>1, <2>2
<1>3. PICK m \in Nat : m = call[t][k].message /\ call[t][k].op = "Send" /\ buffer' = m
  <2>1. call[t] \in Seq([op : {"Send", "Receive"}, message : Nat])
    BY DEF MailboxTyped
  <2>2. call[t][k] \in [op : {"Send", "Receive"}, message : Nat]
    BY <2>1, ElementOfSeq
  <2>3. call[t][k].message \in Nat /\ call[t][k].op = "Send"
    BY <1>2, <2>2 DEF M!Senders, M!Current
  <2>4. QED
    BY <1>1, <1>2, <2>3 DEF M!Current
<1>4. m \in Put'
  <2>1. Copied(t, k)'
    BY <1>1, <1>2 DEF Copied, After
  <2>2. QED
    BY <1>1, <1>3, <2>1 DEF Put
<1>5. m \notin Put
  <2> SUFFICES ASSUME NEW u \in Threads, NEW n \in 1 .. Len(call[u]),
                      call[u][n].op = "Send", call[u][n].message = m,
                      Copied(u, n)
               PROVE  FALSE
    BY DEF Put
  <2>1. DOMAIN call[u] = 1 .. Len(call[u]) /\ DOMAIN call[t] = 1 .. Len(call[t])
    BY LenProperties DEF MailboxTyped
  <2>2. u = t /\ n = k
    <3>1. M!DistinctMessages(call)
      BY DEF Once
    <3>2. QED
      BY <1>3, <2>1, <3>1 DEF M!DistinctMessages
  <2>3. QED
    BY <1>1, <1>2, <2>2 DEF Copied, After
<1>6. \A u \in Threads : \A n \in 1 .. Len(got[u]) :
        got[u][n] \in Put /\ got[u][n] \in Put' /\ got[u][n] # m
  BY <1>1, <1>5, CopiedStays DEF Once
<1>7. /\ \A u \in Threads : \A n \in 1 .. Len(got'[u]) : got'[u][n] \in Put'
      /\ \A u \in Threads : \A n \in 1 .. Len(got'[u]) : got'[u][n] # buffer'
  BY <1>1, <1>3, <1>6
<1>8. /\ got' \in [Threads -> Seq(Nat)] /\ buffer' \in Nat
      /\ M!DistinctMessages(call')
      /\ buffer' \in Put'
  BY <1>1, <1>3, <1>4 DEF Once
<1>9. \A u, v \in Threads : \A n \in 1 .. Len(got'[u]), l \in 1 .. Len(got'[v]) :
        got'[u][n] = got'[v][l] => u = v /\ n = l
  <2>1. \A u, v \in Threads : \A n \in 1 .. Len(got[u]), l \in 1 .. Len(got[v]) :
          got[u][n] = got[v][l] => u = v /\ n = l
    BY DEF Once
  <2>2. QED
    BY <1>1, <2>1
<1>10. QED
  BY <1>7, <1>8, <1>9 DEF Once, M!DistinctMessages

\* A receiver takes the message out of the buffer.
LEMMA ReceiverCopies ==
  ASSUME MailboxTyped, Token, Once, NEW t \in Threads, M!Copy(t), t \notin M!Senders
  PROVE  Once'
<1>1. /\ M!Step(t)
      /\ pc[t] = "buffer"
      /\ call' = call
      /\ got' = [got EXCEPT ![t] = Append(@, buffer)]
      /\ bufferSet' = 0 /\ buffer' = buffer
  BY SendsOrReceives DEF M!Copy, M!Go, M!Step
<1>2. bufferSet = 1
  BY <1>1 DEF Token, Inside, Before
<1>3. /\ got \in [Threads -> Seq(Nat)] /\ buffer \in Nat
      /\ buffer \in Put
      /\ \A u \in Threads : \A n \in 1 .. Len(got[u]) : got[u][n] # buffer
      /\ \A u \in Threads : \A n \in 1 .. Len(got[u]) : got[u][n] \in Put
  BY <1>2 DEF Once
<1>4. /\ Append(got[t], buffer) \in Seq(Nat)
      /\ Len(Append(got[t], buffer)) = Len(got[t]) + 1
      /\ \A n \in 1 .. Len(got[t]) : Append(got[t], buffer)[n] = got[t][n]
      /\ Append(got[t], buffer)[Len(got[t]) + 1] = buffer
      /\ Len(got[t]) \in Nat
  BY <1>3, AppendProperties, LenProperties
<1>5. got' \in [Threads -> Seq(Nat)]
  BY <1>1, <1>3, <1>4
\* Where the messages are now: the old ones where they were, the new one last.
<1>6. ASSUME NEW u \in Threads, NEW n \in 1 .. Len(got'[u])
      PROVE  \/ n \in 1 .. Len(got[u]) /\ got'[u][n] = got[u][n]
             \/ u = t /\ n = Len(got[t]) + 1 /\ got'[u][n] = buffer
  <2>1. CASE u = t
    <3>1. got'[u] = Append(got[t], buffer)
      BY <1>1, <1>3, <2>1
    <3>2. n \in 1 .. Len(got[t]) \/ n = Len(got[t]) + 1
      BY <1>4, <3>1
    <3>3. QED
      BY <1>4, <2>1, <3>1, <3>2
  <2>2. CASE u # t
    BY <1>1, <1>3, <2>2
  <2>3. QED
    BY <2>1, <2>2
<1>7. ASSUME NEW u \in Threads, NEW n \in 1 .. Len(got'[u])
      PROVE  got'[u][n] \in Put'
  <2>1. got'[u][n] \in Put
    BY <1>3, <1>6
  <2>2. QED
    BY <1>1, <2>1, CopiedStays
<1>8. ASSUME NEW u \in Threads, NEW v \in Threads,
             NEW n \in 1 .. Len(got'[u]), NEW m \in 1 .. Len(got'[v]),
             got'[u][n] = got'[v][m]
      PROVE  u = v /\ n = m
  <2>1. CASE n \in 1 .. Len(got[u]) /\ got'[u][n] = got[u][n]
    <3>1. got'[v][m] # buffer
      BY <1>3, <1>8, <2>1
    <3>2. m \in 1 .. Len(got[v]) /\ got'[v][m] = got[v][m]
      BY <1>6, <3>1
    <3>3. got[u][n] = got[v][m]
      BY <1>8, <2>1, <3>2
    <3>4. QED
      BY <2>1, <3>2, <3>3 DEF Once
  <2>2. CASE u = t /\ n = Len(got[t]) + 1 /\ got'[u][n] = buffer
    <3>1. v = t /\ m = Len(got[t]) + 1
      BY <1>3, <1>6, <1>8, <2>2
    <3>2. QED
      BY <2>2, <3>1
  <2>3. QED
    BY <1>6, <2>1, <2>2
<1>9. M!DistinctMessages(call')
  BY <1>1 DEF Once
<1>10. QED
  BY <1>1, <1>3, <1>5, <1>7, <1>8, <1>9 DEF Once, M!DistinctMessages

LEMMA OnceInv ==
  ASSUME MailboxTyped, Token, Once, NEW t \in Threads, M!Step(t)
  PROVE  Once'
<1>1. CASE M!Copy(t)
  BY <1>1, SenderCopies, ReceiverCopies
<1>2. CASE ~M!Copy(t)
  <2>1. UNCHANGED <<call, got, buffer, bufferSet>>
    BY <1>2 DEF M!Step, M!AcquireBox, M!Meet, M!MeetWaitReturns, M!ReleaseBox, M!PSemaphore,
         M!AcquireBuffer, M!ReleaseBuffer, M!VSemaphore, M!Return, M!Go, M!bufferVars
  <2>2. \A u \in Threads : \A n \in 1 .. Len(got[u]) : got[u][n] \in Put'
    BY CopiedStays DEF Once
  <2>3. bufferSet = 1 => buffer \in Put'
    BY CopiedStays DEF Once
  <2>4. bufferSet' = 1 => buffer' \in Put'
    BY <2>1, <2>3 DEF Put
  <2>5. \A u \in Threads : \A n \in 1 .. Len(got'[u]) : got'[u][n] \in Put'
    BY <2>1, <2>2
  <2>6. M!DistinctMessages(call')
    BY <2>1 DEF Once
  <2>7. QED
    BY <2>1, <2>4, <2>5, <2>6 DEF Once, M!DistinctMessages
<1>3. QED
  BY <1>1, <1>2

-------------------------------------------------------------------------------
Balanced == /\ IsFiniteSet(M!Met("Send")) /\ IsFiniteSet(M!Met("Receive"))
            /\ Cardinality(M!Met("Send")) = Cardinality(M!Met("Receive"))

\* MetInPairs is inductive once it is known who is on the list; the semaphores
\* are a matter of their own.
MailboxInv == MailboxTyped /\ WaitersWait /\ OneKind /\ Balanced /\ Token /\ Once

LEMMA MailboxInit == M!MailboxAssumption /\ M!Init => MailboxInv
<1> SUFFICES ASSUME M!MailboxAssumption, M!Init PROVE MailboxInv
  OBVIOUS
<1>1. MailboxTyped
  <2>1. waitList \in [{"mailboxCV"} -> Seq(Elements(Threads))]
    BY EmptySeq DEF M!Init
  <2>2. /\ made \in [Threads -> Nat] /\ pc \in [Threads -> MailboxPlaces]
        /\ \A t \in Threads : pc[t] = "start"
    BY DEF M!Init, MailboxPlaces
  <2>3. QED
    BY <2>1, <2>2 DEF M!Init, MailboxTyped, M!MailboxAssumption
<1>2. M!Waiting = {} /\ WaitersWait
  <2>1. waitList["mailboxCV"] = <<>>
    BY DEF M!Init
  <2>2. Items(<<>>) = {} /\ Distinct(<<>>)
    BY DEF Items, Distinct
  <2>3. QED
    BY <2>1, <2>2, BoxItems DEF WaitersWait, Box
<1>3. OneKind
  BY <1>2, FS_EmptySet DEF OneKind, M!Init
<1>4. M!Met("Send") = {} /\ M!Met("Receive") = {}
  <2>1. ASSUME NEW op PROVE M!Met(op) = {}
    <3>1. ASSUME NEW c \in M!Calls(op) PROVE ~HasMet(c[1], c[2])
      <4>1. c[1] \in Threads /\ c[2] \in 1 .. Len(call[c[1]]) /\ Len(call[c[1]]) \in Nat
        BY <1>1, CallShape, LenProperties DEF MailboxTyped
      <4>2. made[c[1]] = 0 /\ pc[c[1]] = "start"
        BY <4>1 DEF M!Init
      <4>3. QED
        BY <4>1, <4>2 DEF HasMet
    <3>2. QED
      BY <3>1, MetShape
  <2>2. QED
    BY <2>1
<1>5. Balanced
  BY <1>4, FS_EmptySet DEF Balanced
<1>6. Token
  <2>1. Inside = {}
    BY DEF Inside, M!Init, Before, After
  <2>2. QED
    BY <2>1 DEF Token, M!Init
<1>7. Once
  <2>1. /\ got \in [Threads -> Seq(Nat)] /\ buffer \in Nat
        /\ \A u \in Threads : Len(got[u]) = 0
    BY EmptySeq DEF M!Init, M!NoMessage
  <2>2. bufferSet = 0 /\ M!DistinctMessages(call)
    BY DEF M!Init, M!MailboxAssumption
  <2>3. QED
    BY <2>1, <2>2 DEF Once
<1>8. QED
  BY <1>1, <1>2, <1>3, <1>5, <1>6, <1>7 DEF MailboxInv

LEMMA OnePair ==
  ASSUME MailboxTyped, WaitersWait, Balanced, NEW t \in Threads, M!Step(t), Wakes(t),
         NEW h \in M!Waiting, Partners(t, h)
  PROVE  Balanced'
<1>1. t \in M!Calling /\ h \in M!Calling
  BY CallGoes, WaitersAreThreads DEF WaitersWait, MailboxTyped
<1>2. /\ M!Senders \cap M!Receivers = {}
      /\ t \in M!Senders <=> Mark(t) \in M!Calls("Send")
      /\ h \in M!Senders <=> Mark(h) \in M!Calls("Send")
      /\ t \in M!Receivers <=> Mark(t) \in M!Calls("Receive")
      /\ h \in M!Receivers <=> Mark(h) \in M!Calls("Receive")
  BY <1>1, MarkShape, SendsOrReceives
<1>3. ASSUME NEW s \in {t, h}, NEW r \in {t, h}, s \in M!Senders, r \in M!Receivers
      PROVE  Balanced'
  <2>1. s # r
    BY <1>2, <1>3
  <2>2. M!Waiting' = M!Waiting \ {h}
    BY DEF Partners
  <2>3. /\ Mark(s) \in M!Calls("Send") /\ Mark(r) \notin M!Calls("Send")
        /\ Mark(r) \in M!Calls("Receive") /\ Mark(s) \notin M!Calls("Receive")
    BY <1>2, <1>3
  <2>4. M!Met("Send")' = M!Met("Send") \cup {Mark(s)} /\ Mark(s) \notin M!Met("Send")
    BY <2>1, <2>2, <2>3, BothMeet
  <2>5. M!Met("Receive")' = M!Met("Receive") \cup {Mark(r)} /\ Mark(r) \notin M!Met("Receive")
    BY <2>1, <2>2, <2>3, BothMeet
  <2>6. /\ IsFiniteSet(M!Met("Send")')
        /\ Cardinality(M!Met("Send")') = Cardinality(M!Met("Send")) + 1
    BY <2>4, FS_AddElement DEF Balanced
  <2>7. /\ IsFiniteSet(M!Met("Receive")')
        /\ Cardinality(M!Met("Receive")') = Cardinality(M!Met("Receive")) + 1
    BY <2>5, FS_AddElement DEF Balanced
  <2>8. QED
    BY <2>6, <2>7 DEF Balanced
<1>4. QED
  BY <1>3 DEF Partners

LEMMA MailboxStepInv ==
  ASSUME M!MailboxAssumption, MailboxInv, NEW t \in Threads, M!Step(t)
  PROVE  MailboxInv'
<1>0. MailboxTyped /\ WaitersWait /\ OneKind /\ Balanced /\ Token /\ Once
  BY DEF MailboxInv
<1>1. MailboxTyped' /\ WaitersWait' /\ Token' /\ Once'
  BY <1>0, TypedInv, TokenInv, OnceInv
<1>2. CASE Joins(t) \/ Passes(t)
  <2>1. M!Met("Send")' = M!Met("Send") /\ M!Met("Receive")' = M!Met("Receive")
    BY <1>0, <1>2, NobodyMeets
  <2>2. Balanced'
    BY <1>0, <2>1 DEF Balanced
  <2>3. OneKind'
    BY <1>0, <1>2, WaiterJoins, WaitersStay
  <2>4. QED
    BY <1>1, <2>2, <2>3 DEF MailboxInv
<1>3. CASE Wakes(t)
  <2>1. PICK h \in M!Waiting : Partners(t, h)
    BY <1>0, <1>3, WaiterIsWoken
  <2>2. OneKind'
    BY <1>0, <1>3, WaiterIsWoken
  <2>3. Balanced'
    BY <1>0, <1>3, <2>1, OnePair
  <2>4. QED
    BY <1>1, <2>2, <2>3 DEF MailboxInv
<1>4. QED
  BY <1>0, <1>2, <1>3, ThreeKinds

LEMMA MailboxRests ==
  ASSUME MailboxInv, UNCHANGED M!vars
  PROVE  MailboxInv'
<1>0. MailboxTyped /\ WaitersWait /\ OneKind /\ Balanced /\ Token /\ Once
  BY DEF MailboxInv
<1>1. /\ M!Waiting' = M!Waiting /\ Box' = Box /\ M!Calling' = M!Calling
      /\ M!Senders' = M!Senders /\ M!Receivers' = M!Receivers /\ Inside' = Inside
      /\ M!Met("Send")' = M!Met("Send") /\ M!Met("Receive")' = M!Met("Receive")
  BY DEF M!vars, M!Waiting, Box, M!Calling, M!Senders, M!Receivers, M!Current, Inside, M!Met,
         M!Returned, M!Calls
<1>2. MailboxTyped' /\ WaitersWait'
  BY <1>0, <1>1 DEF M!vars, MailboxTyped, WaitersWait
<1>3. OneKind'
  BY <1>0, <1>1 DEF M!vars, OneKind
<1>4. Balanced'
  BY <1>0, <1>1 DEF Balanced
<1>5. Token'
  BY <1>0, <1>1 DEF M!vars, Token
<1>6. Once'
  <2>1. Put' = Put
    BY DEF M!vars, Put, Copied
  <2>2. got' = got /\ buffer' = buffer /\ bufferSet' = bufferSet /\ call' = call
    BY DEF M!vars
  <2>3. M!DistinctMessages(call')
    BY <1>0, <2>2 DEF Once
  <2>4. QED
    BY <1>0, <2>1, <2>2, <2>3 DEF Once
<1>7. QED
  BY <1>2, <1>3, <1>4, <1>5, <1>6 DEF MailboxInv

\* What MessagesInPairs says of the mailbox.
LEMMA MailboxKeepsPairs ==
  ASSUME M!MailboxAssumption, MailboxInv
  PROVE  M!MetInPairs /\ M!BufferInTurn /\ M!NoDuplicate
<1>1. M!MetInPairs
  <2>1. /\ M!Senders \cap M!Receivers = {}
        /\ Cardinality({}) = 0 /\ Cardinality(M!Waiting) \in Nat
    BY SendsOrReceives, FS_EmptySet, WaitersAreFinite DEF MailboxInv
  <2>2. /\ Cardinality(M!Met("Send")) = Cardinality(M!Met("Receive"))
        /\ numItems \in Int
        /\ M!Waiting \subseteq M!Senders \/ M!Waiting \subseteq M!Receivers
    BY DEF MailboxInv, Balanced, MailboxTyped, OneKind
  <2>3. numItems = Cardinality(M!Waiting \cap M!Senders) - Cardinality(M!Waiting \cap M!Receivers)
    <3>1. CASE M!Waiting \subseteq M!Senders /\ numItems = Cardinality(M!Waiting)
      <4>1. M!Waiting \cap M!Senders = M!Waiting /\ M!Waiting \cap M!Receivers = {}
        BY <2>1, <3>1
      <4>2. /\ Cardinality(M!Waiting \cap M!Senders) = Cardinality(M!Waiting)
            /\ Cardinality(M!Waiting \cap M!Receivers) = 0
        BY <2>1, <4>1, Zenon
      <4>3. QED
        BY <2>2, <3>1, <4>2
    <3>2. CASE M!Waiting \subseteq M!Receivers /\ numItems = -Cardinality(M!Waiting)
      <4>1. M!Waiting \cap M!Receivers = M!Waiting /\ M!Waiting \cap M!Senders = {}
        BY <2>1, <3>2
      <4>2. /\ Cardinality(M!Waiting \cap M!Receivers) = Cardinality(M!Waiting)
            /\ Cardinality(M!Waiting \cap M!Senders) = 0
        BY <2>1, <4>1, Zenon
      <4>3. QED
        BY <2>1, <2>2, <3>2, <4>2
    <3>3. QED
      BY <3>1, <3>2 DEF MailboxInv, OneKind
  <2>4. /\ M!Cardinality(M!Met("Send")) = Cardinality(M!Met("Send"))
        /\ M!Cardinality(M!Met("Receive")) = Cardinality(M!Met("Receive"))
        /\ M!Cardinality(M!Waiting \cap M!Senders) = Cardinality(M!Waiting \cap M!Senders)
        /\ M!Cardinality(M!Waiting \cap M!Receivers) = Cardinality(M!Waiting \cap M!Receivers)
    BY SameSets
  <2>5. QED
    BY <2>2, <2>3, <2>4 DEF M!MetInPairs
<1>2. M!BufferInTurn
  BY DEF MailboxInv, Token, M!BufferInTurn, Inside, Before, M!Calling
<1>3. M!NoDuplicate
  <2>1. \A u \in Threads : DOMAIN got[u] = 1 .. Len(got[u])
    BY LenProperties DEF MailboxInv, Once
  <2>2. \A r \in M!Receipts : /\ r[1] \in Threads /\ r[2] \in 1 .. Len(got[r[1]])
                             /\ r = <<r[1], r[2]>>
    BY <2>1 DEF M!Receipts
  <2>3. \A u, v \in Threads : \A n \in 1 .. Len(got[u]), m \in 1 .. Len(got[v]) :
          got[u][n] = got[v][m] => u = v /\ n = m
    BY DEF MailboxInv, Once
  <2>4. ASSUME NEW r \in M!Receipts, NEW s \in M!Receipts, got[r[1]][r[2]] = got[s[1]][s[2]]
        PROVE  r = s
    <3>1. r[1] = s[1] /\ r[2] = s[2]
      BY <2>2, <2>3, <2>4
    <3>2. QED
      BY <2>2, <3>1
  <2>5. QED
    BY <2>4 DEF M!NoDuplicate
<1>4. QED
  BY <1>1, <1>2, <1>3

-------------------------------------------------------------------------------
(* The whales.                                                             *)

\* m is the least of the counters c.
Least(m, c) == (\E k \in W!Kinds : m = c[k]) /\ \A k \in W!Kinds : m <= c[k]

TripletsOf(c) == CHOOSE n \in Range(c) : \A k \in W!Kinds : n <= c[k]

LEMMA TripletsIsLeast ==
  ASSUME NEW c \in [W!Kinds -> Nat]
  PROVE  TripletsOf(c) \in Nat /\ Least(TripletsOf(c), c)
<1>1. \E m \in Nat : Least(m, c)
  <2>1. CASE c["Male"] <= c["Female"] /\ c["Male"] <= c["Matchmaker"]
    BY <2>1 DEF Least, W!Kinds
  <2>2. CASE c["Female"] <= c["Male"] /\ c["Female"] <= c["Matchmaker"]
    BY <2>2 DEF Least, W!Kinds
  <2>3. CASE c["Matchmaker"] <= c["Male"] /\ c["Matchmaker"] <= c["Female"]
    BY <2>3 DEF Least, W!Kinds
  <2>4. QED
    BY <2>1, <2>2, <2>3 DEF W!Kinds
<1>2. \E n \in Range(c) : \A k \in W!Kinds : n <= c[k]
  BY <1>1 DEF Least, Range
<1>3. TripletsOf(c) \in Range(c) /\ \A k \in W!Kinds : TripletsOf(c) <= c[k]
  BY <1>2 DEF TripletsOf
<1>4. QED
  BY <1>3 DEF Least, Range

LEMMA TripletsNow ==
  /\ count \in [W!Kinds -> Nat] => W!Triplets \in Nat /\ Least(W!Triplets, count)
  /\ count' \in [W!Kinds -> Nat] => W!Triplets' \in Nat /\ Least(W!Triplets', count')
<1>1. W!Triplets = TripletsOf(count) /\ W!Triplets' = TripletsOf(count')
  BY DEF W!Triplets, TripletsOf, W!Range, Range
<1>2. QED
  BY <1>1, TripletsIsLeast

LEMMA LeastIsUnique ==
  ASSUME NEW c \in [W!Kinds -> Nat], NEW m \in Nat, NEW n \in Nat, Least(m, c), Least(n, c)
  PROVE  m = n
<1>1. m <= n /\ n <= m
  BY DEF Least
<1>2. QED
  BY <1>1

\* Who has been matched and left the list; who has counted itself with Done.
Past(k) == {t \in Threads : /\ kind[t] = k
                            /\ \/ pc[t] \in {"leaving", "gone"}
                               \/ pc[t] = "waiting" /\ t \notin Items(waitList[k])}
Done(k) == {t \in Threads : kind[t] = k /\ pc[t] \in {"leaving", "gone"}}

WhaleTyped == /\ count \in [W!Kinds -> Nat]
              /\ waitList \in [W!Kinds -> Seq(Elements(Threads))]
              /\ kind \in [Threads -> W!Kinds \cup {NoKind}]
              /\ pc \in [Threads -> {"out", "in", "waiting", "leaving", "gone"}]

\* Who is on a list waits for its kind.
Listed == \A k \in W!Kinds :
            /\ Distinct(waitList[k])
            /\ \A t \in Items(waitList[k]) : t \in Threads /\ kind[t] = k /\ pc[t] = "waiting"

\* Each triplet took one of each kind off its list or at the end of its wait.
Thirds == /\ \A k \in W!Kinds : Cardinality(Past(k)) = W!Triplets
          /\ tripletsMade = Cardinality(Done("Male")) + Cardinality(Done("Female"))
                              + Cardinality(Done("Matchmaker"))

\* The counters bound nothing by themselves: the lists must hold the threads
\* that wait for their lengths to mean anything.
WhaleInv == WhaleTyped /\ Listed /\ W!SurplusWaits /\ Thirds

LEMMA PastFinite ==
  ASSUME W!WhaleAssumption, NEW k
  PROVE  /\ IsFiniteSet(Past(k)) /\ IsFiniteSet(Done(k))
         /\ Cardinality(Past(k)) \in Nat /\ Cardinality(Done(k)) \in Nat
         /\ Cardinality(Done(k)) <= Cardinality(Past(k))
<1>1. IsFiniteSet(Threads)
  BY SameSets DEF W!WhaleAssumption
<1>2. Past(k) \subseteq Threads /\ Done(k) \subseteq Past(k)
  BY DEF Past, Done
<1>3. IsFiniteSet(Past(k))
  BY <1>1, <1>2, FS_Subset
<1>4. QED
  BY <1>2, <1>3, FS_Subset, FS_CardinalityType

LEMMA WhaleInit ==
  ASSUME W!WhaleAssumption, W!Init
  PROVE  WhaleInv
<1>1. count \in [W!Kinds -> Nat] /\ Least(0, count)
  BY DEF W!Init, Least, W!Kinds
<1>2. W!Triplets = 0
  BY <1>1, TripletsNow, LeastIsUnique
<1>3. /\ waitList \in [W!Kinds -> Seq(Elements(Threads))]
      /\ \A k \in W!Kinds : waitList[k] = <<>>
  BY EmptySeq DEF W!Init
<1>4. W!SurplusWaits
  BY <1>2 DEF W!Init, W!SurplusWaits
<1>5. Listed
  <2>1. Items(<<>>) = {} /\ Distinct(<<>>)
    BY DEF Items, Distinct
  <2>2. QED
    BY <1>3, <2>1 DEF Listed
<1>6. \A k \in W!Kinds : Past(k) = {} /\ Done(k) = {}
  BY DEF W!Init, Past, Done
<1>7. Thirds
  <2>1. \A k \in W!Kinds : Cardinality(Past(k)) = 0 /\ Cardinality(Done(k)) = 0
    BY <1>6, FS_EmptySet
  <2>2. QED
    BY <1>2, <2>1 DEF Thirds, W!Kinds, W!Init
<1>8. QED
  BY <1>1, <1>3, <1>4, <1>5, <1>7 DEF W!Init, WhaleInv, WhaleTyped, W!WhaleAssumption

\* A whale that lacks a partner makes no triplet and queues up.
LEMMA WaitIsSurplus ==
  ASSUME W!WhaleAssumption, WhaleInv, NEW t \in Threads, NEW k \in W!Kinds, kind[t] = k,
         W!WaitForMatch(t)
  PROVE  /\ count' \in [W!Kinds -> Nat]
         /\ waitList' \in [W!Kinds -> Seq(Elements(Threads))]
         /\ waitList' = [waitList EXCEPT ![k] = SortedInsert(@, t, Priority[t])]
         /\ W!Triplets' = W!Triplets
         /\ W!SurplusWaits'
<1>0. /\ count \in [W!Kinds -> Nat]
      /\ waitList \in [W!Kinds -> Seq(Elements(Threads))]
      /\ W!Triplets \in Nat /\ Least(W!Triplets, count)
      /\ \A j \in W!Kinds : Len(waitList[j]) = count[j] - W!Triplets
  BY TripletsNow DEF WhaleInv, WhaleTyped, W!SurplusWaits
<1>1. /\ count' = [count EXCEPT ![k] = @ + 1]
      /\ count' \in [W!Kinds -> Nat]
      /\ \E other \in W!Kinds \ {k} : count[other] < count[k] + 1
      /\ waitList' = [waitList EXCEPT ![k] = SortedInsert(@, t, Priority[t])]
  <2>1. /\ count' = [count EXCEPT ![k] = @ + 1]
        /\ W!Unmatched(k, count')
        /\ waitList' = [waitList EXCEPT ![k] = W!SortedInsert(@, t, Priority[t])]
    BY DEF W!WaitForMatch, W!Wait
  <2>2. waitList' = [waitList EXCEPT ![k] = SortedInsert(@, t, Priority[t])]
    <3>1. W!SortedInsert(waitList[k], t, Priority[t]) = SortedInsert(waitList[k], t, Priority[t])
      BY SameInsert
    <3>2. QED
      BY <2>1, <3>1
  <2>3. count' \in [W!Kinds -> Nat]
    BY <1>0, <2>1
  <2>4. \E other \in W!Kinds \ {k} : count[other] < count[k] + 1
    BY <1>0, <2>1 DEF W!Unmatched
  <2>5. QED
    BY <2>1, <2>2, <2>3, <2>4
<1>2. /\ SortedInsert(waitList[k], t, Priority[t]) \in Seq(Elements(Threads))
      /\ Len(SortedInsert(waitList[k], t, Priority[t])) = Len(waitList[k]) + 1
  BY <1>0, <1>1, InsertShape DEF W!WhaleAssumption
<1>3. Least(W!Triplets, count')
  <2>1. PICK other \in W!Kinds \ {k} : count[other] < count[k] + 1
    BY <1>1
  <2>2. \A j \in W!Kinds : W!Triplets <= count'[j]
    BY <1>0, <1>1 DEF Least
  <2>3. PICK j \in W!Kinds : W!Triplets = count[j]
    BY <1>0 DEF Least
  <2>4. CASE j # k
    BY <1>0, <1>1, <2>2, <2>3, <2>4 DEF Least
  <2>5. CASE j = k
    <3>1. W!Triplets = count[other]
      BY <1>0, <2>1, <2>3, <2>5, SMTT(40) DEF Least
    <3>2. QED
      BY <1>0, <1>1, <2>1, <2>2, <3>1 DEF Least
  <2>6. QED
    BY <2>4, <2>5
<1>4. W!Triplets' = W!Triplets
  <2>1. W!Triplets' \in Nat /\ Least(W!Triplets', count')
    BY <1>1, TripletsNow
  <2>2. QED
    BY <1>0, <1>1, <1>3, <2>1, LeastIsUnique
<1>5. \A j \in W!Kinds : /\ Len(waitList'[j]) = count'[j] - W!Triplets'
                         /\ waitList'[j] \in Seq(Elements(Threads))
  BY <1>0, <1>1, <1>2, <1>4, SMTT(40)
<1>6. QED
  BY <1>0, <1>1, <1>2, <1>4, <1>5 DEF W!SurplusWaits

\* The last of a triplet raises the least counter; one of each other kind goes.
LEMMA CompleteIsTriplet ==
  ASSUME W!WhaleAssumption, WhaleInv, NEW t \in Threads, NEW k \in W!Kinds, kind[t] = k,
         W!Complete(t)
  PROVE  /\ count' \in [W!Kinds -> Nat]
         /\ waitList' \in [W!Kinds -> Seq(Elements(Threads))]
         /\ waitList'[k] = waitList[k]
         /\ \A j \in W!Kinds \ {k} : waitList[j] # <<>> /\ waitList'[j] = Tail(waitList[j])
         /\ W!Triplets' = W!Triplets + 1
         /\ W!SurplusWaits'
<1>0. /\ count \in [W!Kinds -> Nat]
      /\ waitList \in [W!Kinds -> Seq(Elements(Threads))]
      /\ W!Triplets \in Nat /\ Least(W!Triplets, count)
      /\ \A j \in W!Kinds : Len(waitList[j]) = count[j] - W!Triplets
  BY TripletsNow DEF WhaleInv, WhaleTyped, W!SurplusWaits
<1>1. /\ count' = [count EXCEPT ![k] = @ + 1]
      /\ count' \in [W!Kinds -> Nat]
      /\ \A other \in W!Kinds \ {k} : count[other] >= count[k] + 1
      /\ \A j \in W!Kinds : waitList'[j] = IF j = k THEN waitList[j] ELSE W!Signal1(waitList[j])
      /\ waitList' = [j \in W!Kinds |-> waitList'[j]]
  BY <1>0 DEF W!Complete, W!Go, W!Unmatched
<1>2. W!Triplets = count[k] /\ Least(W!Triplets + 1, count')
  <2>0. PICK j \in W!Kinds : W!Triplets = count[j]
    BY <1>0 DEF Least
  <2>1. W!Triplets = count[k]
    <3>1. W!Triplets <= count[k] /\ count[j] \in Nat /\ count[k] \in Nat
      BY <1>0, <1>1 DEF Least
    <3>2. j # k => count[j] >= count[k] + 1
      BY <1>1
    <3>3. QED
      BY <2>0, <3>1, <3>2
  <2>2. QED
    BY <1>0, <1>1, <2>1 DEF Least
<1>3. W!Triplets' = W!Triplets + 1
  <2>1. W!Triplets' \in Nat /\ Least(W!Triplets', count')
    BY <1>1, TripletsNow
  <2>2. QED
    BY <1>0, <1>1, <1>2, <2>1, LeastIsUnique
<1>4. ASSUME NEW j \in W!Kinds \ {k}
      PROVE  /\ waitList[j] # <<>> /\ waitList'[j] = Tail(waitList[j])
             /\ waitList'[j] \in Seq(Elements(Threads))
             /\ Len(waitList'[j]) = count'[j] - W!Triplets'
  <2>1. Len(waitList[j]) # 0 /\ waitList[j] \in Seq(Elements(Threads))
    BY <1>0, <1>1, <1>2
  <2>2. waitList[j] # <<>> /\ waitList'[j] = Tail(waitList[j])
    BY <1>1, <2>1 DEF W!Signal1
  <2>3. /\ Tail(waitList[j]) \in Seq(Elements(Threads))
        /\ Len(Tail(waitList[j])) = Len(waitList[j]) - 1
    BY <2>1, HeadTailProperties
  <2>4. /\ Len(waitList[j]) = count[j] - W!Triplets
        /\ count'[j] = count[j]
        /\ count[j] \in Nat /\ W!Triplets \in Nat
    BY <1>0, <1>1
  <2>5. QED
    BY <1>3, <2>2, <2>3, <2>4
<1>5. /\ waitList'[k] = waitList[k] /\ waitList'[k] \in Seq(Elements(Threads))
      /\ Len(waitList'[k]) = count'[k] - W!Triplets'
  BY <1>0, <1>1, <1>3
<1>6. QED
  BY <1>1, <1>3, <1>4, <1>5 DEF W!SurplusWaits

\* What all steps have in common.
LEMMA WhaleGoes ==
  ASSUME WhaleTyped, NEW t \in Threads, W!Step(t)
  PROVE  /\ kind[t] \in W!Kinds /\ kind' = kind
         /\ pc' = [pc EXCEPT ![t] = pc'[t]]
         /\ pc' \in [Threads -> {"out", "in", "waiting", "leaving", "gone"}]
  BY DEF WhaleTyped, W!Step, W!Come, W!WaitForMatch, W!Complete, W!Matched, W!Leave, W!Go

\* Of the other kinds only the lists matter.
LEMMA OthersStay ==
  ASSUME WhaleTyped, NEW t \in Threads, W!Step(t), NEW j \in W!Kinds, j # kind[t]
  PROVE  /\ Done(j)' = Done(j)
         /\ Items(waitList'[j]) = Items(waitList[j]) => Past(j)' = Past(j)
<1>1. \A u \in Threads : kind'[u] = j <=> kind[u] = j
  BY WhaleGoes
<1>2. \A u \in Threads : kind[u] = j => pc'[u] = pc[u]
  BY WhaleGoes DEF WhaleTyped
<1>3. QED
  BY <1>1, <1>2 DEF Done, Past

\* A step that touches no list and makes no triplet.
LEMMA QuietWhale ==
  ASSUME W!WhaleAssumption, WhaleInv, NEW t \in Threads, W!Step(t),
         UNCHANGED <<count, waitList>>,
         \/ /\ tripletsMade' = tripletsMade
            /\ pc[t] \in {"leaving", "gone"} <=> pc'[t] \in {"leaving", "gone"}
            /\ pc[t] # "waiting" /\ pc'[t] # "waiting"
         \/ /\ tripletsMade' = tripletsMade + 1
            /\ pc[t] = "waiting" /\ pc'[t] = "leaving"
            /\ t \notin Items(waitList[kind[t]])
  PROVE  WhaleInv'
<1>0. /\ WhaleTyped /\ Listed /\ W!SurplusWaits /\ Thirds
      /\ pc \in [Threads -> {"out", "in", "waiting", "leaving", "gone"}]
  BY DEF WhaleInv, WhaleTyped
<1>1. PICK k \in W!Kinds : kind[t] = k
  BY <1>0, WhaleGoes
<1>2. /\ kind' = kind /\ pc' = [pc EXCEPT ![t] = pc'[t]]
      /\ pc' \in [Threads -> {"out", "in", "waiting", "leaving", "gone"}]
  BY <1>0, WhaleGoes
<1>3. W!Triplets' = W!Triplets
  BY DEF W!Triplets
<1>4. WhaleTyped' /\ W!SurplusWaits'
  BY <1>0, <1>2, <1>3 DEF WhaleTyped, W!SurplusWaits
<1>5. Listed'
  <2>1. \A j \in W!Kinds : t \notin Items(waitList[j])
    BY <1>0, <1>1 DEF Listed
  <2>2. \A j \in W!Kinds : \A u \in Items(waitList[j]) :
          u \in Threads /\ kind[u] = j /\ pc'[u] = "waiting"
    BY <1>0, <1>2, <2>1 DEF Listed
  <2>3. QED
    BY <1>0, <1>2, <2>2 DEF Listed
<1>6. \A j \in W!Kinds : Past(j)' = Past(j)
  <2>1. ASSUME NEW u \in Threads, NEW j \in W!Kinds PROVE u \in Past(j)' <=> u \in Past(j)
    <3>1. CASE u # t
      <4>1. pc'[u] = pc[u]
        BY <1>0, <1>2, <3>1
      <4>2. QED
        BY <1>2, <4>1 DEF Past
    <3>2. CASE u = t
      BY <1>0, <1>1, <1>2, <3>2 DEF Past
    <3>3. QED
      BY <3>1, <3>2
  <2>2. \A j \in W!Kinds : Past(j) \subseteq Threads /\ Past(j)' \subseteq Threads
    BY DEF Past
  <2>3. QED
    BY <2>1, <2>2
<1>7. \A j \in W!Kinds \ {k} : Done(j)' = Done(j)
  BY <1>0, <1>1, OthersStay
<1>8. tripletsMade' = Cardinality(Done("Male"))' + Cardinality(Done("Female"))'
                        + Cardinality(Done("Matchmaker"))'
  <2>1. CASE /\ tripletsMade' = tripletsMade
             /\ pc[t] \in {"leaving", "gone"} <=> pc'[t] \in {"leaving", "gone"}
    <3>1. Done(k)' = Done(k)
      BY <1>0, <1>2, <2>1 DEF Done
    <3>2. \A j \in W!Kinds : Done(j)' = Done(j)
      BY <1>7, <3>1
    <3>3. QED
      BY <1>0, <2>1, <3>2 DEF Thirds, W!Kinds
  <2>2. CASE /\ tripletsMade' = tripletsMade + 1
             /\ pc[t] = "waiting" /\ pc'[t] = "leaving"
    <3>1. Done(k)' = Done(k) \cup {t} /\ t \notin Done(k)
      BY <1>0, <1>1, <1>2, <2>2 DEF Done
    <3>2. Cardinality(Done(k)') = Cardinality(Done(k)) + 1
      BY <3>1, PastFinite, FS_AddElement
    <3>3. \A j \in W!Kinds : Cardinality(Done(j)) \in Nat
      BY PastFinite
    <3>4. QED
      BY <1>0, <1>7, <2>2, <3>2, <3>3 DEF Thirds, W!Kinds
  <2>3. QED
    BY <2>1, <2>2
<1>9. Thirds'
  BY <1>0, <1>3, <1>6, <1>8 DEF Thirds
<1>10. QED
  BY <1>4, <1>5, <1>9 DEF WhaleInv

LEMMA WaiterIsListed ==
  ASSUME W!WhaleAssumption, WhaleInv, NEW t \in Threads, W!Step(t), W!WaitForMatch(t)
  PROVE  WhaleInv'
<1>0. /\ WhaleTyped /\ Listed /\ Thirds
      /\ pc \in [Threads -> {"out", "in", "waiting", "leaving", "gone"}]
  BY DEF WhaleInv, WhaleTyped
<1>1. PICK k \in W!Kinds : kind[t] = k
  BY <1>0, WhaleGoes
<1>2. /\ kind' = kind /\ pc' = [pc EXCEPT ![t] = "waiting"] /\ pc[t] = "in"
      /\ pc' \in [Threads -> {"out", "in", "waiting", "leaving", "gone"}]
      /\ tripletsMade' = tripletsMade
  BY <1>0 DEF W!WaitForMatch, W!Go
<1>3. /\ count' \in [W!Kinds -> Nat]
      /\ waitList' \in [W!Kinds -> Seq(Elements(Threads))]
      /\ waitList' = [waitList EXCEPT ![k] = SortedInsert(@, t, Priority[t])]
      /\ W!Triplets' = W!Triplets
      /\ W!SurplusWaits'
  BY <1>1, WaitIsSurplus
<1>4. WhaleTyped'
  BY <1>0, <1>2, <1>3 DEF WhaleTyped
<1>5. \A j \in W!Kinds : t \notin Items(waitList[j])
  BY <1>0, <1>2 DEF Listed
<1>6. /\ Items(waitList'[k]) = Items(waitList[k]) \cup {t}
      /\ Distinct(waitList'[k])
      /\ \A j \in W!Kinds \ {k} : waitList'[j] = waitList[j]
  <2>1. /\ waitList[k] \in Seq(Elements(Threads)) /\ Priority[t] \in Int
        /\ Distinct(waitList[k])
        /\ waitList'[k] = SortedInsert(waitList[k], t, Priority[t])
        /\ \A j \in W!Kinds \ {k} : waitList'[j] = waitList[j]
    BY <1>0, <1>3 DEF WhaleTyped, Listed, W!WhaleAssumption
  <2>2. QED
    BY <1>5, <2>1, InsertItems, InsertDistinct
<1>7. Listed'
  <2>1. ASSUME NEW j \in W!Kinds, NEW u \in Items(waitList'[j])
        PROVE  u \in Threads /\ kind'[u] = j /\ pc'[u] = "waiting"
    <3>1. u \in Items(waitList[j]) \/ (u = t /\ j = k)
      BY <1>6, <2>1
    <3>2. QED
      BY <1>0, <1>1, <1>2, <3>1 DEF Listed
  <2>2. \A j \in W!Kinds : Distinct(waitList'[j])
    BY <1>0, <1>6 DEF Listed
  <2>3. QED
    BY <2>1, <2>2 DEF Listed
<1>8. ASSUME NEW j \in W!Kinds PROVE Past(j)' = Past(j) /\ Done(j)' = Done(j)
  <2>1. ASSUME NEW u \in Threads
        PROVE  (u \in Past(j)' <=> u \in Past(j)) /\ (u \in Done(j)' <=> u \in Done(j))
    <3>1. CASE u # t
      <4>1. pc'[u] = pc[u] /\ (u \in Items(waitList'[j]) <=> u \in Items(waitList[j]))
        BY <1>0, <1>2, <1>6, <3>1
      <4>2. QED
        BY <1>2, <4>1 DEF Past, Done
    <3>2. CASE u = t
      <4>1. pc[t] = "in" /\ pc'[t] = "waiting" /\ kind'[t] = k /\ t \in Items(waitList'[k])
        BY <1>0, <1>1, <1>2, <1>6
      <4>2. QED
        BY <1>1, <3>2, <4>1 DEF Past, Done
    <3>3. QED
      BY <3>1, <3>2
  <2>2. /\ Past(j) \subseteq Threads /\ Past(j)' \subseteq Threads
        /\ Done(j) \subseteq Threads /\ Done(j)' \subseteq Threads
    BY DEF Past, Done
  <2>3. QED
    BY <2>1, <2>2
<1>9. Thirds'
  BY <1>0, <1>2, <1>3, <1>8 DEF Thirds, W!Kinds
<1>10. QED
  BY <1>3, <1>4, <1>7, <1>9 DEF WhaleInv

\* The last of a triplet goes past with the first of each other list.
LEMMA TripletGoes ==
  ASSUME W!WhaleAssumption, WhaleInv, NEW t \in Threads, W!Step(t), W!Complete(t)
  PROVE  WhaleInv'
<1>0. /\ WhaleTyped /\ Listed /\ Thirds
      /\ pc \in [Threads -> {"out", "in", "waiting", "leaving", "gone"}]
      /\ waitList \in [W!Kinds -> Seq(Elements(Threads))]
  BY DEF WhaleInv, WhaleTyped
<1>1. PICK k \in W!Kinds : kind[t] = k
  BY <1>0, WhaleGoes
<1>2. /\ kind' = kind /\ pc' = [pc EXCEPT ![t] = "leaving"] /\ pc[t] = "in"
      /\ pc' \in [Threads -> {"out", "in", "waiting", "leaving", "gone"}]
      /\ tripletsMade' = tripletsMade + 1
  BY <1>0 DEF W!Complete, W!Go
<1>3. /\ count' \in [W!Kinds -> Nat]
      /\ waitList' \in [W!Kinds -> Seq(Elements(Threads))]
      /\ waitList'[k] = waitList[k]
      /\ \A j \in W!Kinds \ {k} : waitList[j] # <<>> /\ waitList'[j] = Tail(waitList[j])
      /\ W!Triplets' = W!Triplets + 1
      /\ W!SurplusWaits'
  BY <1>1, CompleteIsTriplet
<1>4. WhaleTyped'
  BY <1>0, <1>2, <1>3 DEF WhaleTyped
<1>5. \A j \in W!Kinds : t \notin Items(waitList[j])
  BY <1>0, <1>2 DEF Listed
<1>6. ASSUME NEW j \in W!Kinds \ {k}
      PROVE  \E h \in Items(waitList[j]) : /\ Items(waitList'[j]) = Items(waitList[j]) \ {h}
                                           /\ Distinct(waitList'[j])
  <2> DEFINE h == Head(waitList[j]).item
  <2>1. waitList[j] \in Seq(Elements(Threads)) /\ waitList[j] # <<>> /\ Distinct(waitList[j])
    BY <1>0, <1>3 DEF Listed
  <2>2. /\ h \in Items(waitList[j])
        /\ Items(waitList[j]) = Items(Tail(waitList[j])) \cup {h}
        /\ Distinct(Tail(waitList[j])) /\ h \notin Items(Tail(waitList[j]))
    BY <2>1, RemoveProperties
  <2> HIDE DEF h
  <2>3. Items(Tail(waitList[j])) = Items(waitList[j]) \ {h}
    BY <2>2
  <2>4. QED
    BY <1>3, <2>2, <2>3
<1>7. Listed'
  <2>1. \A j \in W!Kinds : /\ Items(waitList'[j]) \subseteq Items(waitList[j])
                          /\ Distinct(waitList'[j])
    BY <1>0, <1>3, <1>6 DEF Listed
  <2>2. \A j \in W!Kinds : \A u \in Items(waitList'[j]) :
          u \in Threads /\ kind[u] = j /\ pc'[u] = "waiting"
    BY <1>0, <1>2, <1>5, <2>1 DEF Listed
  <2>3. QED
    BY <1>2, <2>1, <2>2 DEF Listed
<1>8. Past(k)' = Past(k) \cup {t} /\ t \notin Past(k)
  <2>1. Items(waitList'[k]) = Items(waitList[k])
    BY <1>3
  <2>2. \A u \in Threads \ {t} : pc'[u] = pc[u]
    BY <1>0, <1>2
  <2>3. pc'[t] = "leaving"
    BY <1>0, <1>2
  <2>4. QED
    BY <1>1, <1>2, <2>1, <2>2, <2>3 DEF Past
<1>9. Done(k)' = Done(k) \cup {t} /\ t \notin Done(k)
  BY <1>0, <1>1, <1>2 DEF Done
<1>10. ASSUME NEW j \in W!Kinds \ {k}
       PROVE  /\ \E h : Past(j)' = Past(j) \cup {h} /\ h \notin Past(j)
              /\ Done(j)' = Done(j)
  <2>1. PICK h \in Items(waitList[j]) : Items(waitList'[j]) = Items(waitList[j]) \ {h}
    BY <1>6
  <2>2. h \in Threads /\ kind[h] = j /\ pc[h] = "waiting" /\ h # t
    BY <1>0, <1>5 DEF Listed
  <2>3. \A u \in Threads : kind[u] = j => pc'[u] = pc[u]
    BY <1>0, <1>1, <1>2
  <2>4. h \notin Past(j)
    BY <2>2 DEF Past
  <2>5. Past(j)' = Past(j) \cup {h}
    <3>1. \A u \in Threads : u \in Past(j)' <=> u \in Past(j) \/ u = h
      BY <1>2, <2>1, <2>2, <2>3 DEF Past
    <3>2. Past(j) \subseteq Threads /\ Past(j)' \subseteq Threads
      BY DEF Past
    <3>3. QED
      BY <2>2, <3>1, <3>2
  <2>6. Done(j)' = Done(j)
    BY <1>2, <2>3 DEF Done
  <2>7. QED
    BY <2>4, <2>5, <2>6
<1>11. \A j \in W!Kinds : /\ Cardinality(Past(j)') = Cardinality(Past(j)) + 1
                          /\ IsFiniteSet(Done(j)) /\ Cardinality(Done(j)) \in Nat
  <2>1. ASSUME NEW j \in W!Kinds
        PROVE  /\ IsFiniteSet(Past(j)) /\ IsFiniteSet(Done(j)) /\ Cardinality(Done(j)) \in Nat
               /\ \E h : Past(j)' = Past(j) \cup {h} /\ h \notin Past(j)
    BY <1>8, <1>10, PastFinite
  <2>2. QED
    BY <2>1, FS_AddElement
<1>12. Cardinality(Done(k)') = Cardinality(Done(k)) + 1
  BY <1>9, <1>11, FS_AddElement
<1>13. Thirds'
  <2>1. \A j \in W!Kinds : Cardinality(Past(j)') = W!Triplets'
    BY <1>0, <1>3, <1>11 DEF Thirds
  <2>2. tripletsMade' = Cardinality(Done("Male")') + Cardinality(Done("Female")')
                          + Cardinality(Done("Matchmaker")')
    BY <1>0, <1>2, <1>10, <1>11, <1>12 DEF Thirds, W!Kinds
  <2>3. QED
    BY <2>1, <2>2 DEF Thirds
<1>14. QED
  BY <1>3, <1>4, <1>7, <1>13 DEF WhaleInv

LEMMA WhaleStepInv ==
  ASSUME W!WhaleAssumption, WhaleInv, NEW t \in Threads, W!Step(t)
  PROVE  WhaleInv'
<1>1. CASE W!Come(t) \/ W!Matched(t) \/ W!Leave(t)
  <2>1. kind[t] \in W!Kinds /\ pc \in [Threads -> {"out", "in", "waiting", "leaving", "gone"}]
    BY WhaleGoes DEF WhaleInv, WhaleTyped
  <2>2. UNCHANGED <<count, waitList>>
    BY <1>1 DEF W!Come, W!Matched, W!Leave, W!Acquire, W!Release, W!ReturnFromWait
  <2>3. CASE W!Come(t) \/ W!Leave(t)
    BY <2>1, <2>2, <2>3, QuietWhale DEF W!Come, W!Leave, W!Go
  <2>4. CASE W!Matched(t)
    BY <2>1, <2>2, <2>4, QuietWhale, SameItems DEF W!Matched, W!Go, W!ReturnFromWait
  <2>5. QED
    BY <1>1, <2>3, <2>4
<1>2. QED
  BY <1>1, WaiterIsListed, TripletGoes DEF W!Step

LEMMA WhaleRests ==
  ASSUME WhaleInv, UNCHANGED W!vars
  PROVE  WhaleInv'
<1>1. W!Triplets' = W!Triplets
  BY DEF W!vars, W!Triplets
<1>2. \A k \in W!Kinds : Past(k)' = Past(k) /\ Done(k)' = Done(k)
  BY DEF W!vars, Past, Done
<1>3. WhaleTyped' /\ Listed' /\ W!SurplusWaits'
  BY <1>1 DEF WhaleInv, W!vars, WhaleTyped, Listed, W!SurplusWaits
<1>4. Thirds'
  BY <1>1, <1>2 DEF WhaleInv, W!vars, Thirds, W!Kinds
<1>5. QED
  BY <1>3, <1>4 DEF WhaleInv

\* What WhalesInTriplets says of the whales.
LEMMA WhaleKeepsTriplets ==
  ASSUME W!WhaleAssumption, WhaleInv
  PROVE  W!SurplusWaits /\ W!OnlyTriplets
<1>1. \A k \in W!Kinds : /\ Cardinality(Past(k)) = W!Triplets
                         /\ Cardinality(Done(k)) \in Nat /\ Cardinality(Past(k)) \in Nat
                         /\ Cardinality(Done(k)) <= W!Triplets
  BY PastFinite DEF WhaleInv, Thirds
<1>2. W!Triplets \in Nat /\ tripletsMade \in Nat /\ tripletsMade <= 3 * W!Triplets
  BY <1>1 DEF WhaleInv, Thirds, W!Kinds
<1>3. W!tripletsCounter <= W!Triplets
  BY <1>2 DEF W!tripletsCounter
<1>4. \A k \in W!Kinds :
        W!Cardinality({t \in Threads : kind[t] = k /\ pc[t] \in {"leaving", "gone"}})
          <= W!Triplets
  BY <1>1, SameSets DEF Done
<1>5. QED
  BY <1>2, <1>3, <1>4 DEF WhaleInv, W!OnlyTriplets

-------------------------------------------------------------------------------
(* Join and Finish.                                                        *)

JoinPlaces == {"new", "run", "joining", "joinWait", "joinLeave",
               "finish", "finishing", "finishWait", "finishLeave", "dead", "deleted"}
InJoin == {"joining", "joinWait", "joinLeave"}
InFinish == {"finish", "finishing", "finishWait", "finishLeave", "dead", "deleted"}

JoinTyped == /\ owner \in [JoinThreads -> JoinThreads \cup {NoThread}]
             /\ join \in [JoinThreads -> BOOLEAN]
             /\ joinCalled \in [JoinThreads -> BOOLEAN]
             /\ threadFinished \in [JoinThreads -> BOOLEAN]
             /\ finishedJoining \in [JoinThreads -> BOOLEAN]
             /\ pc \in [JoinThreads -> JoinPlaces]
             /\ todo \in [JoinThreads -> Seq({"Fork", "Join"} \X JoinThreads)]

\* t is inside Join and has the object of c in its hands.
Joining(t, c) == pc[t] \in InJoin /\ Head(todo[t]) = <<"Join", c>>

\* Who is where in its procedure.
Underway == \A t \in JoinThreads : /\ pc[t] \in InJoin => todo[t] # <<>>
                                   /\ pc[t] \in InFinish => todo[t] = <<>>

\* Between its calls of the monitor the parent has the lock, and the child
\* cannot get past it before finishedJoining is set.
Parents == \A t, c \in JoinThreads :
             Joining(t, c) => /\ t # c /\ join[c] /\ joinCalled[c]
                              /\ pc[t] # "joinWait" => owner[c] = t
                              /\ IF pc[t] = "joinLeave" THEN ~J!Gone(c) ELSE ~finishedJoining[c]

\* joinCalled lets one parent in.
OneParent == \A t, u, c \in JoinThreads : Joining(t, c) /\ Joining(u, c) => t = u

Children == \A c \in JoinThreads :
              /\ finishedJoining[c] => threadFinished[c] /\ join[c]
              /\ join[c] /\ threadFinished[c] => todo[c] = <<>>
              /\ join[c] /\ J!Gone(c) => finishedJoining[c]

JoinInv == JoinTyped /\ Underway /\ Parents /\ OneParent /\ Children

\* A procedure goes on with its next call.
LEMMA NextCall ==
  ASSUME JoinTyped, NEW t \in JoinThreads, todo[t] # <<>>, J!Done(t)
  PROVE  todo' \in [JoinThreads -> Seq({"Fork", "Join"} \X JoinThreads)]
<1>1. Tail(todo[t]) \in Seq({"Fork", "Join"} \X JoinThreads)
  BY HeadTailProperties DEF JoinTyped
<1>2. QED
  BY <1>1 DEF JoinTyped, J!Done

LEMMA JoinTypedInv ==
  ASSUME JoinTyped, Underway, NEW t \in JoinThreads, J!Step(t) \/ J!Delete(t)
  PROVE  JoinTyped'
<1> USE DEF JoinTyped, Underway, JoinPlaces, J!At, J!Does, J!Goto, J!Abort, J!fields, J!Acquire,
            J!Release, J!Holds, J!Wait, J!ReturnFromWait, J!Signal
<1>1. ASSUME NEW c \in JoinThreads, J!Fork(t, c)
      PROVE  JoinTyped'
  BY <1>1, NextCall DEF J!Fork
<1>2. ASSUME NEW c \in JoinThreads,
             J!JoinFails(t, c) \/ J!JoinReturnsEarly(t, c) \/ J!JoinDeleted(t, c)
      PROVE  JoinTyped'
  BY <1>2, NextCall DEF J!JoinFails, J!JoinReturnsEarly, J!JoinDeleted
<1>3. ASSUME NEW c \in JoinThreads, J!JoinEnters(t, c)
      PROVE  JoinTyped'
  BY <1>3, NextCall DEF J!JoinEnters
<1>4. ASSUME NEW c \in JoinThreads, J!JoinWaits(t, c) \/ J!JoinWaitReturns(t, c)
      PROVE  JoinTyped'
  <2>1. owner' \in [JoinThreads -> JoinThreads \cup {NoThread}]
    BY <1>4 DEF J!JoinWaits, J!JoinWaitReturns
  <2>2. pc' \in [JoinThreads -> JoinPlaces]
    BY <1>4 DEF J!JoinWaits, J!JoinWaitReturns
  <2>3. QED
    BY <1>4, <2>1, <2>2 DEF J!JoinWaits, J!JoinWaitReturns
<1>5. ASSUME NEW c \in JoinThreads, J!JoinSeesFinish(t, c)
      PROVE  JoinTyped'
  BY <1>5, NextCall DEF J!JoinSeesFinish
<1>6. ASSUME NEW c \in JoinThreads, J!JoinLeaves(t, c)
      PROVE  JoinTyped'
  BY <1>6, NextCall DEF J!JoinLeaves
<1>7. ASSUME J!FinishCalled(t)
      PROVE  JoinTyped'
  <2>1. owner' \in [JoinThreads -> JoinThreads \cup {NoThread}]
    BY <1>7 DEF J!FinishCalled
  <2>2. pc' \in [JoinThreads -> JoinPlaces]
    BY <1>7 DEF J!FinishCalled
  <2>3. QED
    BY <1>7, <2>1, <2>2 DEF J!FinishCalled
<1>8. ASSUME J!FinishSignals(t)
      PROVE  JoinTyped'
  BY <1>8 DEF J!FinishSignals
<1>9. ASSUME J!FinishWaits(t)
      PROVE  JoinTyped'
  BY <1>9 DEF J!FinishWaits
<1>10. ASSUME J!FinishWaitReturns(t)
      PROVE  JoinTyped'
  BY <1>10 DEF J!FinishWaitReturns
<1>11. ASSUME J!FinishReleases(t) \/ J!Die(t) \/ J!Delete(t)
      PROVE  JoinTyped'
  <2>1. owner' \in [JoinThreads -> JoinThreads \cup {NoThread}]
    BY <1>11 DEF J!FinishReleases, J!Die, J!Delete
  <2>2. pc' \in [JoinThreads -> JoinPlaces]
    BY <1>11 DEF J!FinishReleases, J!Die, J!Delete
  <2>3. QED
    BY <1>11, <2>1, <2>2 DEF J!FinishReleases, J!Die, J!Delete
<1>12. QED
  BY <1>1, <1>2, <1>3, <1>4, <1>5, <1>6, <1>7, <1>8, <1>9, <1>10, <1>11 DEF J!Step

LEMMA UnderwayInv ==
  ASSUME JoinTyped, Underway, NEW t \in JoinThreads, J!Step(t) \/ J!Delete(t)
  PROVE  Underway'
<1> USE DEF JoinTyped, Underway, JoinPlaces, InJoin, InFinish, J!At, J!Does, J!Goto, J!Done,
            J!Abort, J!fields
<1>1. ASSUME NEW c \in JoinThreads, J!Fork(t, c)
      PROVE  Underway'
  BY <1>1 DEF J!Fork
<1>2. ASSUME NEW c \in JoinThreads,
             J!JoinFails(t, c) \/ J!JoinReturnsEarly(t, c) \/ J!JoinDeleted(t, c)
      PROVE  Underway'
  BY <1>2 DEF J!JoinFails, J!JoinReturnsEarly, J!JoinDeleted
<1>3. ASSUME NEW c \in JoinThreads, J!JoinEnters(t, c)
      PROVE  Underway'
  BY <1>3 DEF J!JoinEnters
<1>4. ASSUME NEW c \in JoinThreads, J!JoinWaits(t, c) \/ J!JoinWaitReturns(t, c)
      PROVE  Underway'
  BY <1>4 DEF J!JoinWaits, J!JoinWaitReturns
<1>5. ASSUME NEW c \in JoinThreads, J!JoinSeesFinish(t, c)
      PROVE  Underway'
  BY <1>5 DEF J!JoinSeesFinish
<1>6. ASSUME NEW c \in JoinThreads, J!JoinLeaves(t, c)
      PROVE  Underway'
  BY <1>6 DEF J!JoinLeaves
<1>7. ASSUME J!FinishCalled(t)
      PROVE  Underway'
  BY <1>7 DEF J!FinishCalled
<1>8. ASSUME J!FinishSignals(t)
      PROVE  Underway'
  BY <1>8 DEF J!FinishSignals
<1>9. ASSUME J!FinishWaits(t)
      PROVE  Underway'
  BY <1>9 DEF J!FinishWaits
<1>10. ASSUME J!FinishWaitReturns(t)
      PROVE  Underway'
  BY <1>10 DEF J!FinishWaitReturns
<1>11. ASSUME J!FinishReleases(t) \/ J!Die(t) \/ J!Delete(t)
      PROVE  Underway'
  BY <1>11 DEF J!FinishReleases, J!Die, J!Delete
<1>12. QED
  BY <1>1, <1>2, <1>3, <1>4, <1>5, <1>6, <1>7, <1>8, <1>9, <1>10, <1>11 DEF J!Step

\* Who is inside Join has been there, or enters it now.
LEMMA StaysInJoin ==
  ASSUME JoinTyped, Underway, NEW t \in JoinThreads, J!Step(t) \/ J!Delete(t),
         NEW u \in JoinThreads, NEW d \in JoinThreads, Joining(u, d)'
  PROVE  Joining(u, d) \/ (u = t /\ J!JoinEnters(t, d))
<1> USE DEF JoinTyped, Underway, JoinPlaces, Joining, InJoin, J!At, J!Does, J!Goto, J!Done,
            J!Abort, J!fields
<1>1. ASSUME NEW c \in JoinThreads, J!Fork(t, c)
      PROVE  Joining(u, d) \/ (u = t /\ J!JoinEnters(t, d))
  BY <1>1 DEF J!Fork
<1>2. ASSUME NEW c \in JoinThreads,
             J!JoinFails(t, c) \/ J!JoinReturnsEarly(t, c) \/ J!JoinDeleted(t, c)
      PROVE  Joining(u, d) \/ (u = t /\ J!JoinEnters(t, d))
  BY <1>2 DEF J!JoinFails, J!JoinReturnsEarly, J!JoinDeleted
<1>3. ASSUME NEW c \in JoinThreads, J!JoinEnters(t, c)
      PROVE  Joining(u, d) \/ (u = t /\ J!JoinEnters(t, d))
  <2>1. CASE u # t
    BY <1>3, <2>1 DEF J!JoinEnters
  <2>2. CASE u = t
    <3>1. todo' = todo /\ Head(todo[t]) = <<"Join", c>>
      BY <1>3 DEF J!JoinEnters
    <3>2. c = d
      BY <2>2, <3>1
    <3>3. QED
      BY <1>3, <2>2, <3>2
  <2>3. QED
    BY <2>1, <2>2
<1>4. ASSUME NEW c \in JoinThreads, J!JoinWaits(t, c) \/ J!JoinWaitReturns(t, c)
      PROVE  Joining(u, d) \/ (u = t /\ J!JoinEnters(t, d))
  BY <1>4 DEF J!JoinWaits, J!JoinWaitReturns
<1>5. ASSUME NEW c \in JoinThreads, J!JoinSeesFinish(t, c)
      PROVE  Joining(u, d) \/ (u = t /\ J!JoinEnters(t, d))
  BY <1>5 DEF J!JoinSeesFinish
<1>6. ASSUME NEW c \in JoinThreads, J!JoinLeaves(t, c)
      PROVE  Joining(u, d) \/ (u = t /\ J!JoinEnters(t, d))
  BY <1>6 DEF J!JoinLeaves
<1>7. ASSUME J!FinishCalled(t)
      PROVE  Joining(u, d) \/ (u = t /\ J!JoinEnters(t, d))
  BY <1>7 DEF J!FinishCalled
<1>8. ASSUME J!FinishSignals(t)
      PROVE  Joining(u, d) \/ (u = t /\ J!JoinEnters(t, d))
  BY <1>8 DEF J!FinishSignals
<1>9. ASSUME J!FinishWaits(t)
      PROVE  Joining(u, d) \/ (u = t /\ J!JoinEnters(t, d))
  BY <1>9 DEF J!FinishWaits
<1>10. ASSUME J!FinishWaitReturns(t)
      PROVE  Joining(u, d) \/ (u = t /\ J!JoinEnters(t, d))
  BY <1>10 DEF J!FinishWaitReturns
<1>11. ASSUME J!FinishReleases(t) \/ J!Die(t) \/ J!Delete(t)
      PROVE  Joining(u, d) \/ (u = t /\ J!JoinEnters(t, d))
  BY <1>11 DEF J!FinishReleases, J!Die, J!Delete
<1>12. QED
  BY <1>1, <1>2, <1>3, <1>4, <1>5, <1>6, <1>7, <1>8, <1>9, <1>10, <1>11 DEF J!Step

LEMMA ChildrenInv ==
  ASSUME JoinTyped, Underway, Parents, Children, NEW t \in JoinThreads, J!Step(t) \/ J!Delete(t)
  PROVE  Children'
<1> USE DEF JoinTyped, Underway, JoinPlaces, Joining, InJoin, InFinish, Parents, Children, J!Gone,
            J!At, J!Does, J!Goto, J!Done, J!Abort, J!fields
<1>1. ASSUME NEW c \in JoinThreads, J!Fork(t, c)
      PROVE  Children'
  BY <1>1 DEF J!Fork
<1>2. ASSUME NEW c \in JoinThreads,
             J!JoinFails(t, c) \/ J!JoinReturnsEarly(t, c) \/ J!JoinDeleted(t, c)
      PROVE  Children'
  BY <1>2 DEF J!JoinFails, J!JoinReturnsEarly, J!JoinDeleted
<1>3. ASSUME NEW c \in JoinThreads, J!JoinEnters(t, c)
      PROVE  Children'
  BY <1>3 DEF J!JoinEnters
<1>4. ASSUME NEW c \in JoinThreads, J!JoinWaits(t, c) \/ J!JoinWaitReturns(t, c)
      PROVE  Children'
  BY <1>4 DEF J!JoinWaits, J!JoinWaitReturns
<1>5. ASSUME NEW c \in JoinThreads, J!JoinSeesFinish(t, c)
      PROVE  Children'
  BY <1>5 DEF J!JoinSeesFinish
<1>6. ASSUME NEW c \in JoinThreads, J!JoinLeaves(t, c)
      PROVE  Children'
  BY <1>6 DEF J!JoinLeaves
<1>7. ASSUME J!FinishCalled(t)
      PROVE  Children'
  BY <1>7 DEF J!FinishCalled
<1>8. ASSUME J!FinishSignals(t)
      PROVE  Children'
  BY <1>8 DEF J!FinishSignals
<1>9. ASSUME J!FinishWaits(t)
      PROVE  Children'
  BY <1>9 DEF J!FinishWaits
<1>10. ASSUME J!FinishWaitReturns(t)
      PROVE  Children'
  BY <1>10 DEF J!FinishWaitReturns
<1>11. ASSUME J!FinishReleases(t) \/ J!Die(t) \/ J!Delete(t)
      PROVE  Children'
  BY <1>11 DEF J!FinishReleases, J!Die, J!Delete
<1>12. QED
  BY <1>1, <1>2, <1>3, <1>4, <1>5, <1>6, <1>7, <1>8, <1>9, <1>10, <1>11 DEF J!Step

LEMMA OneParentInv ==
  ASSUME JoinTyped, Underway, Parents, OneParent, NEW t \in JoinThreads, J!Step(t) \/ J!Delete(t)
  PROVE  OneParent'
<1>1. ASSUME NEW u \in JoinThreads, NEW v \in JoinThreads, NEW d \in JoinThreads,
             Joining(u, d)', Joining(v, d)'
      PROVE  u = v
  <2>1. /\ Joining(u, d) \/ (u = t /\ ~joinCalled[d])
        /\ Joining(v, d) \/ (v = t /\ ~joinCalled[d])
    BY <1>1, StaysInJoin DEF J!JoinEnters
  <2>2. Joining(u, d) \/ Joining(v, d) => joinCalled[d]
    BY DEF Parents
  <2>3. QED
    BY <2>1, <2>2 DEF OneParent
<1>2. QED
  BY <1>1 DEF OneParent

\* What a parent inside Join has, no step takes away.
LEMMA ParentKeeps ==
  ASSUME JoinTyped, Underway, Parents, OneParent, Children,
         NEW t \in JoinThreads, J!Step(t) \/ J!Delete(t),
         NEW u \in JoinThreads, NEW d \in JoinThreads, Joining(u, d), Joining(u, d)'
  PROVE  /\ u # d /\ join'[d] /\ joinCalled'[d]
         /\ pc'[u] # "joinWait" => owner'[d] = u
         /\ IF pc'[u] = "joinLeave" THEN ~J!Gone(d)' ELSE ~finishedJoining'[d]
<1> USE DEF JoinTyped, Underway, InJoin, JoinPlaces, J!At, J!Does, J!Goto, J!Done, J!Abort,
            J!fields
<1>0. /\ u # d /\ join[d] /\ joinCalled[d]
      /\ pc[u] # "joinWait" => owner[d] = u
      /\ IF pc[u] = "joinLeave" THEN ~J!Gone(d) ELSE ~finishedJoining[d]
      /\ NoThread \notin JoinThreads
  BY ThreadTestAssumption DEF Parents
<1>1. ASSUME NEW c \in JoinThreads, J!Fork(t, c)
      PROVE  /\ u # d /\ join'[d] /\ joinCalled'[d]
             /\ pc'[u] # "joinWait" => owner'[d] = u
             /\ IF pc'[u] = "joinLeave" THEN ~J!Gone(d)' ELSE ~finishedJoining'[d]
  BY <1>1, <1>0 DEF J!Fork, Joining, J!Gone, InFinish, J!Acquire, J!Release, J!Holds, J!Wait,
          J!ReturnFromWait, J!Signal
<1>2. ASSUME NEW c \in JoinThreads,
             J!JoinFails(t, c) \/ J!JoinReturnsEarly(t, c) \/ J!JoinDeleted(t, c)
      PROVE  /\ u # d /\ join'[d] /\ joinCalled'[d]
             /\ pc'[u] # "joinWait" => owner'[d] = u
             /\ IF pc'[u] = "joinLeave" THEN ~J!Gone(d)' ELSE ~finishedJoining'[d]
  BY <1>2, <1>0 DEF J!JoinFails, J!JoinReturnsEarly, J!JoinDeleted, Joining, J!Gone, InFinish,
          J!Acquire, J!Release, J!Holds, J!Wait, J!ReturnFromWait, J!Signal
<1>3. ASSUME NEW c \in JoinThreads, J!JoinEnters(t, c)
      PROVE  /\ u # d /\ join'[d] /\ joinCalled'[d]
             /\ pc'[u] # "joinWait" => owner'[d] = u
             /\ IF pc'[u] = "joinLeave" THEN ~J!Gone(d)' ELSE ~finishedJoining'[d]
  BY <1>3, <1>0 DEF J!JoinEnters, Joining, J!Gone, InFinish, J!Acquire, J!Release, J!Holds, J!Wait,
          J!ReturnFromWait, J!Signal
<1>4. ASSUME NEW c \in JoinThreads, J!JoinWaits(t, c) \/ J!JoinWaitReturns(t, c)
      PROVE  /\ u # d /\ join'[d] /\ joinCalled'[d]
             /\ pc'[u] # "joinWait" => owner'[d] = u
             /\ IF pc'[u] = "joinLeave" THEN ~J!Gone(d)' ELSE ~finishedJoining'[d]
  BY <1>4, <1>0 DEF J!JoinWaits, J!JoinWaitReturns, Joining, J!Gone, InFinish, J!Acquire,
          J!Release, J!Holds, J!Wait, J!ReturnFromWait, J!Signal
<1>5. ASSUME NEW c \in JoinThreads, J!JoinSeesFinish(t, c)
      PROVE  /\ u # d /\ join'[d] /\ joinCalled'[d]
             /\ pc'[u] # "joinWait" => owner'[d] = u
             /\ IF pc'[u] = "joinLeave" THEN ~J!Gone(d)' ELSE ~finishedJoining'[d]
  <2>1. /\ Joining(t, c) /\ pc[t] = "joining" /\ pc'[t] = "joinLeave"
        /\ todo' = todo /\ owner' = owner /\ join' = join /\ joinCalled' = joinCalled
        /\ \A v \in JoinThreads \ {t} : pc'[v] = pc[v]
        /\ \A v \in JoinThreads \ {c} : finishedJoining'[v] = finishedJoining[v]
    BY <1>5 DEF J!JoinSeesFinish, Joining, J!Signal
  <2>2. CASE u = t
    <3>1. d = c
      BY <1>0, <2>1, <2>2 DEF Joining
    <3>2. ~J!Gone(c)
      BY <1>0, <2>1, <2>2, <3>1 DEF Children
    <3>3. QED
      BY <1>0, <2>1, <2>2, <3>1, <3>2 DEF J!Gone
  <2>3. CASE u # t
    <3>1. d # c
      BY <1>0, <2>1, <2>3 DEF OneParent
    <3>2. pc'[u] = pc[u] /\ finishedJoining'[d] = finishedJoining[d]
      BY <2>1, <2>3, <3>1
    <3>3. ~J!Gone(d) => ~J!Gone(d)'
      BY <2>1 DEF J!Gone
    <3>4. QED
      BY <1>0, <2>1, <3>2, <3>3
  <2>4. QED
    BY <2>2, <2>3
<1>6. ASSUME NEW c \in JoinThreads, J!JoinLeaves(t, c)
      PROVE  /\ u # d /\ join'[d] /\ joinCalled'[d]
             /\ pc'[u] # "joinWait" => owner'[d] = u
             /\ IF pc'[u] = "joinLeave" THEN ~J!Gone(d)' ELSE ~finishedJoining'[d]
  BY <1>6, <1>0 DEF J!JoinLeaves, Joining, J!Gone, InFinish, J!Acquire, J!Release, J!Holds, J!Wait,
          J!ReturnFromWait, J!Signal
<1>7. ASSUME J!FinishCalled(t)
      PROVE  /\ u # d /\ join'[d] /\ joinCalled'[d]
             /\ pc'[u] # "joinWait" => owner'[d] = u
             /\ IF pc'[u] = "joinLeave" THEN ~J!Gone(d)' ELSE ~finishedJoining'[d]
  BY <1>7, <1>0 DEF J!FinishCalled, Joining, J!Gone, InFinish, J!Acquire, J!Release, J!Holds,
          J!Wait, J!ReturnFromWait, J!Signal
<1>8. ASSUME J!FinishSignals(t)
      PROVE  /\ u # d /\ join'[d] /\ joinCalled'[d]
             /\ pc'[u] # "joinWait" => owner'[d] = u
             /\ IF pc'[u] = "joinLeave" THEN ~J!Gone(d)' ELSE ~finishedJoining'[d]
  BY <1>8, <1>0 DEF J!FinishSignals, Joining, J!Gone, InFinish, J!Acquire, J!Release, J!Holds,
          J!Wait, J!ReturnFromWait, J!Signal
<1>9. ASSUME J!FinishWaits(t)
      PROVE  /\ u # d /\ join'[d] /\ joinCalled'[d]
             /\ pc'[u] # "joinWait" => owner'[d] = u
             /\ IF pc'[u] = "joinLeave" THEN ~J!Gone(d)' ELSE ~finishedJoining'[d]
  BY <1>9, <1>0 DEF J!FinishWaits, Joining, J!Gone, InFinish, J!Acquire, J!Release, J!Holds,
          J!Wait, J!ReturnFromWait, J!Signal
<1>10. ASSUME J!FinishWaitReturns(t)
      PROVE  /\ u # d /\ join'[d] /\ joinCalled'[d]
             /\ pc'[u] # "joinWait" => owner'[d] = u
             /\ IF pc'[u] = "joinLeave" THEN ~J!Gone(d)' ELSE ~finishedJoining'[d]
  BY <1>10, <1>0 DEF J!FinishWaitReturns, Joining, J!Gone, InFinish, J!Acquire, J!Release, J!Holds,
          J!Wait, J!ReturnFromWait, J!Signal
<1>11. ASSUME J!FinishReleases(t) \/ J!Die(t) \/ J!Delete(t)
      PROVE  /\ u # d /\ join'[d] /\ joinCalled'[d]
             /\ pc'[u] # "joinWait" => owner'[d] = u
             /\ IF pc'[u] = "joinLeave" THEN ~J!Gone(d)' ELSE ~finishedJoining'[d]
  BY <1>11, <1>0 DEF J!FinishReleases, J!Die, J!Delete, Joining, J!Gone, InFinish, J!Acquire,
          J!Release, J!Holds, J!Wait, J!ReturnFromWait, J!Signal
<1>12. QED
  BY <1>1, <1>2, <1>3, <1>4, <1>5, <1>6, <1>7, <1>8, <1>9, <1>10, <1>11 DEF J!Step

LEMMA ParentsInv ==
  ASSUME JoinTyped, Underway, Parents, OneParent, Children,
         NEW t \in JoinThreads, J!Step(t) \/ J!Delete(t)
  PROVE  Parents'
<1>1. ASSUME NEW u \in JoinThreads, NEW d \in JoinThreads, Joining(u, d)'
      PROVE  /\ u # d /\ join'[d] /\ joinCalled'[d]
             /\ pc'[u] # "joinWait" => owner'[d] = u
             /\ IF pc'[u] = "joinLeave" THEN ~J!Gone(d)' ELSE ~finishedJoining'[d]
  <2>1. CASE Joining(u, d)
    BY <1>1, <2>1, ParentKeeps
  <2>2. CASE u = t /\ J!JoinEnters(t, d)
    BY <2>2 DEF J!JoinEnters, J!Acquire, J!At, J!Goto, JoinTyped, Children
  <2>3. QED
    BY <1>1, <2>1, <2>2, StaysInJoin
<1>2. QED
  BY <1>1 DEF Parents

LEMMA JoinInit ==
  ASSUME J!JoinAssumption, J!Init
  PROVE  JoinInv
<1>1. /\ \A t \in JoinThreads : pc[t] \in {"run", "new"} /\ ~finishedJoining[t]
      /\ \A t \in JoinThreads : threadFinished[t] => ~join[t]
  BY DEF J!Init
<1>2. JoinTyped
  <2>1. join \in [JoinThreads -> BOOLEAN] /\ threadFinished \in [JoinThreads -> BOOLEAN]
    <3>1. PICK marked : join = [t \in JoinThreads |-> t \in marked]
      BY DEF J!Init
    <3>2. join \in [JoinThreads -> BOOLEAN]
      BY <3>1
    <3>3. QED
      BY <3>2 DEF J!Init
  <2>2. pc \in [JoinThreads -> JoinPlaces]
    BY DEF J!Init, JoinPlaces
  <2>3. todo \in [JoinThreads -> Seq({"Fork", "Join"} \X JoinThreads)]
    BY DEF J!Init, J!JoinAssumption
  <2>4. QED
    BY <2>1, <2>2, <2>3 DEF J!Init, JoinTyped
<1>3. Underway /\ Parents /\ OneParent
  BY <1>1 DEF Underway, Parents, OneParent, Joining, InJoin, InFinish
<1>4. Children
  BY <1>1 DEF Children, J!Gone
<1>5. QED
  BY <1>2, <1>3, <1>4 DEF JoinInv

LEMMA JoinStepInv ==
  ASSUME JoinInv, NEW t \in JoinThreads, J!Step(t) \/ J!Delete(t)
  PROVE  JoinInv'
<1>1. JoinTyped /\ Underway /\ Parents /\ OneParent /\ Children
  BY DEF JoinInv
<1>2. JoinTyped' /\ Underway' /\ Children'
  BY <1>1, JoinTypedInv, UnderwayInv, ChildrenInv
<1>3. Parents' /\ OneParent'
  BY <1>1, ParentsInv, OneParentInv
<1>4. QED
  BY <1>2, <1>3 DEF JoinInv

LEMMA JoinRests ==
  ASSUME JoinInv, UNCHANGED J!vars
  PROVE  JoinInv'
<1> USE DEF JoinInv, J!vars, J!fields
<1>1. JoinTyped' /\ Underway'
  BY DEF JoinTyped, Underway
<1>2. Parents' /\ Children'
  BY DEF Parents, Children, Joining, J!Gone
<1>3. OneParent'
  BY DEF OneParent, Joining
<1>4. QED
  BY <1>1, <1>2, <1>3

\* What JoinRendezvous says of Join and Finish.
LEMMA JoinKeepsRendezvous == JoinInv => J!Rendezvous /\ J!JoinedObjectLives
<1> SUFFICES ASSUME JoinInv PROVE J!Rendezvous /\ J!JoinedObjectLives
  OBVIOUS
<1>1. J!Rendezvous
  BY DEF JoinInv, Children, J!Rendezvous
<1>2. ASSUME NEW t \in JoinThreads, NEW c \in JoinThreads, Joining(t, c) PROVE ~J!Gone(c)
  BY <1>2 DEF JoinInv, Parents, Children
<1>3. J!JoinedObjectLives
  BY <1>2 DEF J!JoinedObjectLives, Joining, InJoin
<1>4. QED
  BY <1>1, <1>3

-------------------------------------------------------------------------------
(* The parts together.                                                     *)

TestInv == /\ part = "Join" => JoinInv
           /\ part = "Mailbox" => MailboxInv
           /\ part = "Whale" => WhaleInv

LEMMA TestInit == Init => TestInv
<1> SUFFICES ASSUME Init PROVE TestInv
  OBVIOUS
<1> USE PartsAssumption
<1>1. CASE part = "Join"
  BY <1>1, JoinInit DEF Init, TestInv
<1>2. CASE part = "Mailbox"
  BY <1>2, MailboxInit DEF Init, TestInv
<1>3. CASE part = "Whale"
  BY <1>3, WhaleInit DEF Init, TestInv
<1>4. QED
  BY <1>1, <1>2, <1>3 DEF TestInv

LEMMA TestNext == TestInv /\ [Next]_vars => TestInv'
<1> SUFFICES ASSUME TestInv, [Next]_vars PROVE TestInv'
  OBVIOUS
<1> USE PartsAssumption
<1>1. ASSUME NEW t, JoinStep(t) PROVE TestInv'
  <2>1. part = "Join" /\ part' = "Join" /\ t \in JoinThreads /\ J!Step(t)
    BY <1>1 DEF JoinStep, RunsJoin
  <2>2. QED
    BY <2>1, JoinStepInv DEF TestInv
<1>2. CASE JoinDelete
  <2>1. part = "Join" /\ part' = "Join" /\ \E t \in JoinThreads : J!Delete(t)
    BY <1>2 DEF JoinDelete, RunsJoin
  <2>2. QED
    BY <2>1, JoinStepInv DEF TestInv
<1>3. ASSUME NEW t \in Threads, MailboxStep(t) PROVE TestInv'
  <2>1. part = "Mailbox" /\ part' = "Mailbox" /\ M!Step(t)
    BY <1>3 DEF MailboxStep, RunsMailbox
  <2>2. QED
    BY <2>1, MailboxStepInv DEF TestInv
<1>4. ASSUME NEW t \in Threads, WhaleStep(t) PROVE TestInv'
  <2>1. part = "Whale" /\ part' = "Whale" /\ W!Step(t)
    BY <1>4 DEF WhaleStep, RunsWhale
  <2>2. QED
    BY <2>1, WhaleStepInv DEF TestInv
<1>5. ASSUME NEW t \in Threads, SynchStep(t) PROVE TestInv'
  BY <1>5 DEF SynchStep, RunsSynch, TestInv
<1>6. CASE UNCHANGED vars
  <2>1. part' = part /\ UNCHANGED J!vars /\ UNCHANGED M!vars /\ UNCHANGED W!vars
    BY <1>6 DEF vars, joinVars, mailboxVars, whaleVars, J!vars, J!fields, M!vars, W!vars
  <2>2. QED
    BY <2>1, JoinRests, MailboxRests, WhaleRests DEF TestInv
<1>7. QED
  BY <1>1, <1>2, <1>3, <1>4, <1>5, <1>6 DEF Next, Step

\* The part of threadtest.cc that runs keeps its invariant.
THEOREM TestInvariant == Spec => []TestInv
  BY TestInit, TestNext, PTL DEF Spec

\* Thread::Join and Thread::Finish: a child made with join = 1 goes away only
\* after its parent has learnt that its procedure is done, and no parent has a
\* Thread object in its hands that is gone, whatever the threads of a test do.
THEOREM JoinMeetsFinish == Spec => []JoinRendezvous
<1>1. TestInv => JoinRendezvous
  BY JoinKeepsRendezvous DEF TestInv, JoinRendezvous
<1>2. QED
  BY <1>1, TestInvariant, PTL

\* Mailbox::Send and Receive let threads past mailboxCV in pairs only, one of
\* each kind; the loops on bufferSet in front of the copy never turn; and no
\* message is received twice, in whatever order the calls come and the locks
\* are got.
THEOREM MessagesMeetInPairs == Spec => []MessagesInPairs
<1>1. TestInv => MessagesInPairs
  BY PartsAssumption, MailboxKeepsPairs DEF TestInv, MessagesInPairs
<1>2. QED
  BY <1>1, TestInvariant, PTL

\* Male, Female and Matchmaker: whatever whales come, exactly those wait that
\* no triplet can take, and no more are counted or leave than triplets were
\* made.
THEOREM WhalesMeetInTriplets == Spec => []WhalesInTriplets
<1>1. TestInv => WhalesInTriplets
  BY PartsAssumption, WhaleKeepsTriplets DEF TestInv, WhalesInTriplets
<1>2. QED
  BY <1>1, TestInvariant, PTL

-------------------------------------------------------------------------------
(* The priorities.  While nobody has run, the ready list is what main has  *)
(* forked so far, sorted; two sorted lists of the same threads with        *)
(* different keys are the same.                                            *)

\* A list of threads in an order is the only sorted one.
LEMMA SortedIsUnique ==
  ASSUME NEW T, NEW list \in Seq(Elements(T)), NEW order \in Seq(T),
         Len(list) = Len(order), Sorted(list), Distinct(list),
         Items(list) = Range(order),
         NEW key, \A k \in 1 .. Len(list) : list[k].key = key[list[k].item],
         \A j, k \in 1 .. Len(order) : j < k => key[order[j]] < key[order[k]]
  PROVE  [k \in DOMAIN list |-> list[k].item] = order
<1>1. /\ DOMAIN list = 1 .. Len(list) /\ Len(list) \in Nat
      /\ \A k \in 1 .. Len(list) : list[k].key \in Int
  BY ElementTypes
<1>2. DOMAIN order = 1 .. Len(order)
  OBVIOUS
<1> DEFINE differ == {k \in 1 .. Len(list) : list[k].item # order[k]}
<1>3. ASSUME differ # {} PROVE FALSE
  <2>1. PICK k \in differ : \A j \in differ : k <= j
    BY <1>1, <1>3, LeastNatural, differ \in SUBSET Nat
  <2>2. k \in 1 .. Len(list) /\ \A j \in 1 .. k - 1 : list[j].item = order[j]
    BY <2>1, <1>1
  <2>3. PICK n \in 1 .. Len(list) : list[n].item = order[k]
    <3>1. order[k] \in Items(list)
      BY <2>2, <1>2 DEF Range
    <3>2. QED
      BY <3>1, <1>1 DEF Items
  <2>4. PICK j \in 1 .. Len(order) : order[j] = list[k].item
    <3>1. list[k].item \in Range(order)
      BY <2>2, <1>1 DEF Items
    <3>2. QED
      BY <3>1, <1>2 DEF Range
  <2>5. list[k].item # order[k]
    BY <2>1
  <2>6. n > k
    <3>1. n # k
      BY <2>3, <2>5
    <3>2. ASSUME n < k PROVE FALSE
      <4>1. list[n].item = order[n]
        BY <3>2, <2>2, <1>1
      <4>2. key[order[n]] < key[order[k]] /\ order[n] = order[k]
        BY <4>1, <2>3, <3>2, <2>2
      <4>3. list[n].key < list[n].key
        BY <4>2, <2>3
      <4>4. QED
        BY <4>3, <1>1
    <3>3. QED
      BY <3>1, <3>2, <2>2, <1>1
  <2>7. j > k
    <3>1. j # k
      BY <2>4, <2>5
    <3>2. ASSUME j < k PROVE FALSE
      <4>1. list[j].item = order[j] /\ j \in 1 .. Len(list) /\ j # k
        BY <3>2, <2>2, <1>1
      <4>2. list[j].item # list[k].item
        BY <4>1, <2>2, <1>1 DEF Distinct
      <4>3. QED
        BY <4>1, <4>2, <2>4
    <3>3. QED
      BY <3>1, <3>2, <2>2, <1>1
  <2>8. list[k].key <= list[n].key
    BY <2>6, <2>2, <2>3, <1>1 DEF Sorted
  <2>9. list[n].key < list[k].key
    <3>1. key[order[k]] < key[order[j]]
      BY <2>7, <2>2
    <3>2. list[n].key = key[order[k]] /\ list[k].key = key[order[j]]
      BY <2>2, <2>3, <2>4
    <3>3. QED
      BY <3>1, <3>2
  <2>10. QED
    BY <2>8, <2>9, <2>2, <2>3, <1>1
<1>4. QED
  BY <1>1, <1>2, <1>3

\* How many threads main has forked, and which.
Forked == Len(test.fork) - Len(forks)
ForkedThreads == {test.fork[k] : k \in 1 .. Forked}

KeyOf(t) == -test.priority[t]

\* All that main has forked are on the list, in the order of their priorities.
ReadyByPriority ==
  /\ Items(readyList) = ForkedThreads
  /\ Distinct(readyList) /\ Sorted(readyList)
  /\ \A k \in 1 .. Len(readyList) : readyList[k].key = KeyOf(readyList[k].item)

\* A test that forks each of its threads once.
ForksOnce(x) == /\ x.fork \in Seq(Threads) /\ x.priority \in [Threads -> Int]
                /\ \A j, k \in 1 .. Len(x.fork) : j # k => x.fork[j] # x.fork[k]

PriorityInv ==
  /\ readyList \in Seq(Elements(Threads))
  /\ forks \in Seq(Threads) /\ Len(forks) <= Len(test.fork)
  /\ \A k \in 1 .. Len(forks) : forks[k] = test.fork[Forked + k]
  /\ Len(readyList) <= Forked
  /\ Len(readyList) = Forked => ReadyByPriority

LEMMA SynchInsert ==
  ASSUME NEW list, NEW item, NEW key
  PROVE  S!SortedInsert(list, item, key) = SortedInsert(list, item, key)
<1>1. S!Place(list, key) = Place(list, key)
  BY DEF S!Place, Place
<1>2. S!Element(item, key) = Element(item, key)
  BY DEF S!Element, Element
<1>3. QED
  BY <1>1, <1>2 DEF S!SortedInsert, SortedInsert, S!InsertAt, InsertAt

\* Main forks the next thread.
LEMMA ForkKeepsOrder ==
  ASSUME ForksOnce(test), PriorityInv, NEW t, S!Fork(t)
  PROVE  PriorityInv'
<1> DEFINE new == SortedInsert(readyList, t, -test.priority[t])
<1>1. /\ forks # <<>> /\ t = Head(forks) /\ forks' = Tail(forks) /\ test' = test
      /\ readyList' = new
  BY SynchInsert DEF S!Fork
<1>2. /\ test.fork \in Seq(Threads) /\ Len(test.fork) \in Nat /\ Len(forks) \in Nat
      /\ Len(readyList) \in Nat /\ Len(forks) > 0
  BY <1>1 DEF ForksOnce, PriorityInv
<1>3. t \in Threads /\ t = test.fork[Forked + 1] /\ Forked + 1 \in 1 .. Len(test.fork)
  <2>1. t = forks[1] /\ 1 \in 1 .. Len(forks)
    BY <1>1, <1>2
  <2>2. QED
    BY <2>1, <1>2 DEF PriorityInv, Forked
<1>4. /\ Forked' = Forked + 1 /\ Forked \in Nat
      /\ forks' \in Seq(Threads) /\ Len(forks') = Len(forks) - 1
      /\ \A k \in 1 .. Len(forks') : forks'[k] = forks[k + 1]
  <2>1. forks' \in Seq(Threads) /\ Len(forks') = Len(forks) - 1
        /\ \A k \in 1 .. Len(forks') : forks'[k] = forks[k + 1]
    BY <1>1, <1>2 DEF PriorityInv
  <2>2. QED
    BY <2>1, <1>1, <1>2 DEF Forked, PriorityInv
<1>5. -test.priority[t] \in Int
  BY <1>3 DEF ForksOnce
<1> DEFINE p == Place(readyList, -test.priority[t])
<1>6. /\ new \in Seq(Elements(Threads)) /\ Len(new) = Len(readyList) + 1
      /\ \A k \in 1 .. Len(readyList) + 1 :
           new[k] = IF k < p THEN readyList[k]
                    ELSE IF k = p THEN Element(t, -test.priority[t])
                    ELSE readyList[k - 1]
      /\ Items(new) = Items(readyList) \cup {t}
      /\ p \in 1 .. Len(readyList) + 1
  <2>1. readyList \in Seq(Elements(Threads)) /\ t \in Threads /\ -test.priority[t] \in Int
    BY <1>3, <1>5 DEF PriorityInv
  <2>2. /\ new \in Seq(Elements(Threads)) /\ Len(new) = Len(readyList) + 1
        /\ \A k \in 1 .. Len(readyList) + 1 :
             new[k] = IF k < p THEN readyList[k]
                      ELSE IF k = p THEN Element(t, -test.priority[t])
                      ELSE readyList[k - 1]
    BY <2>1, InsertShape
  <2>3. Items(new) = Items(readyList) \cup {t}
    BY <2>1, InsertItems
  <2>4. p \in 1 .. Len(readyList) + 1
    BY <2>1, PlaceProperties
  <2>5. QED
    BY <2>2, <2>3, <2>4
<1> HIDE DEF new, p
<1>7. ASSUME Len(new) = Forked' PROVE ReadyByPriority'
  <2>1. ReadyByPriority
    BY <1>6, <1>7, <1>4, <1>2 DEF PriorityInv
  <2>2. ForkedThreads' = ForkedThreads \cup {t}
    <3>1. ForkedThreads' = {test.fork[k] : k \in 1 .. Forked + 1}
      BY <1>1, <1>4 DEF ForkedThreads
    <3>2. 1 .. Forked + 1 = (1 .. Forked) \cup {Forked + 1}
      BY <1>4
    <3>3. {test.fork[k] : k \in (1 .. Forked) \cup {Forked + 1}}
            = {test.fork[k] : k \in 1 .. Forked} \cup {test.fork[Forked + 1]}
      OBVIOUS
    <3>4. QED
      BY <3>1, <3>2, <3>3, <1>3 DEF ForkedThreads
  <2>3. t \notin ForkedThreads
    <3>1. \A k \in 1 .. Forked : k \in 1 .. Len(test.fork) /\ k # Forked + 1
      BY <1>3, <1>4, <1>2
    <3>2. QED
      BY <3>1, <1>3 DEF ForkedThreads, ForksOnce
  <2>4. Distinct(new) /\ Sorted(new)
    <3>1. /\ readyList \in Seq(Elements(Threads)) /\ t \in Threads /\ -test.priority[t] \in Int
          /\ Distinct(readyList) /\ Sorted(readyList) /\ t \notin Items(readyList)
      BY <2>1, <2>3, <1>3, <1>5 DEF ReadyByPriority, PriorityInv
    <3>2. Distinct(new)
      BY <3>1, InsertDistinct DEF new
    <3>3. Sorted(new)
      BY <3>1, InsertSorted DEF new
    <3>4. QED
      BY <3>2, <3>3
  <2>5. ASSUME NEW k \in 1 .. Len(new) PROVE new[k].key = KeyOf(new[k].item)
    <3>1. /\ p \in 1 .. Len(readyList) + 1
          /\ new[k] = IF k < p THEN readyList[k]
                      ELSE IF k = p THEN Element(t, -test.priority[t])
                      ELSE readyList[k - 1]
      BY <2>5, <1>6
    <3>2. CASE k = p
      BY <3>1, <3>2 DEF Element, KeyOf
    <3>3. CASE k < p
      <4>1. k \in 1 .. Len(readyList) /\ new[k] = readyList[k]
        BY <3>1, <3>3, <2>5, <1>2
      <4>2. QED
        BY <4>1, <2>1 DEF ReadyByPriority
    <3>4. CASE k > p
      <4>1. k - 1 \in 1 .. Len(readyList) /\ new[k] = readyList[k - 1]
        BY <3>1, <3>4, <2>5, <1>2, <1>6
      <4>2. QED
        BY <4>1, <2>1 DEF ReadyByPriority
    <3>5. QED
      BY <3>1, <3>2, <3>3, <3>4, <1>6, <1>2, <2>5
  <2>6. Items(new) = ForkedThreads'
    BY <1>6, <2>1, <2>2 DEF ReadyByPriority
  <2>7. QED
    BY <2>4, <2>5, <2>6, <1>1 DEF ReadyByPriority, KeyOf
<1>8. \A k \in 1 .. Len(forks') : forks'[k] = test.fork[Forked' + k]
  <2>1. TAKE k \in 1 .. Len(forks')
  <2>2. k \in Nat /\ k + 1 \in 1 .. Len(forks) /\ forks'[k] = forks[k + 1]
    BY <1>4, <1>2
  <2>3. forks[k + 1] = test.fork[Forked + (k + 1)]
    BY <2>2 DEF PriorityInv
  <2>4. Forked + (k + 1) = Forked' + k
    BY <2>2, <1>4
  <2>5. QED
    BY <2>2, <2>3, <2>4
<1>9. QED
  BY <1>1, <1>2, <1>4, <1>6, <1>7, <1>8 DEF PriorityInv

\* A thread that runs leaves the list, which then is shorter than what was
\* forked for ever.
LEMMA SynchKeepsOrder ==
  ASSUME ForksOnce(test), PriorityInv, NEW t, S!Step(t)
  PROVE  PriorityInv'
<1>1. CASE S!Fork(t)
  BY <1>1, ForkKeepsOrder
<1>2. CASE S!Start(t)
  <2>1. /\ readyList # <<>> /\ readyList' = Tail(readyList) /\ UNCHANGED <<test, forks>>
    BY <1>2 DEF S!Start
  <2>2. readyList' \in Seq(Elements(Threads)) /\ Len(readyList') = Len(readyList) - 1
        /\ Len(readyList) \in Nat
    BY <2>1 DEF PriorityInv
  <2>3. Forked' = Forked /\ Forked \in Int
    BY <2>1 DEF Forked, PriorityInv, ForksOnce
  <2>4. Len(readyList') < Forked'
    BY <2>2, <2>3 DEF PriorityInv
  <2>5. forks' = forks /\ test' = test
    BY <2>1
  <2>6. forks' \in Seq(Threads) /\ Len(forks') <= Len(test'.fork)
    BY <2>5 DEF PriorityInv
  <2>7. \A k \in 1 .. Len(forks') : forks'[k] = test'.fork[Forked' + k]
    BY <2>3, <2>5 DEF PriorityInv
  <2>8. Len(readyList') <= Forked' /\ Len(readyList') # Forked'
    BY <2>2, <2>3, <2>4
  <2>9. QED
    BY <2>2, <2>6, <2>7, <2>8 DEF PriorityInv
<1>3. CASE S!Call(t)
  <2>1. UNCHANGED <<test, forks, readyList>>
    BY <1>3 DEF S!Call
  <2>2. QED
    BY <2>1 DEF PriorityInv, Forked, ReadyByPriority, ForkedThreads, KeyOf
<1>4. QED
  BY <1>1, <1>2, <1>3 DEF S!Step

\* The two tests the comments announce an order for are of part Synch, and fork
\* each of their threads once.
LEMMA WhereTestsAre ==
  /\ \A n \in {38, 39} : n \notin DOMAIN JoinTests
  /\ \A n \in {38, 39} : n \notin DOMAIN MailboxTests
  /\ \A n \in {38, 39} : n \notin DOMAIN WhaleTests
  /\ 38 \in DOMAIN SynchTests /\ 39 \in DOMAIN SynchTests
  /\ SynchTests[38] = PriorityTest1 /\ SynchTests[39] = PriorityTest2
<1>1. \A n \in {38, 39} : n \notin DOMAIN JoinTests
  BY DEF JoinTests
<1>2. \A n \in {38, 39} : n \notin DOMAIN MailboxTests
  BY DEF MailboxTests
<1>3. \A n \in {38, 39} : n \notin DOMAIN WhaleTests
  BY DEF WhaleTests
<1>4. 38 \in DOMAIN SynchTests /\ 39 \in DOMAIN SynchTests
  BY DEF SynchTests
<1>5. SynchTests[38] = PriorityTest1
  BY DEF SynchTests
<1>6. SynchTests[39] = PriorityTest2
  BY DEF SynchTests
<1>7. QED
  BY <1>1, <1>2, <1>3, <1>4, <1>5, <1>6

LEMMA PriorityTestsFork == ForksOnce(PriorityTest1) /\ ForksOnce(PriorityTest2)
<1>1. /\ PriorityTest1.fork \in Seq(Threads) /\ PriorityTest1.priority \in [Threads -> Int]
      /\ PriorityTest2.fork \in Seq(Threads) /\ PriorityTest2.priority \in [Threads -> Int]
  <2>1. /\ PriorityTest1 \in {SynchTests[n] : n \in DOMAIN SynchTests}
        /\ PriorityTest2 \in {SynchTests[n] : n \in DOMAIN SynchTests}
    BY WhereTestsAre
  <2>2. {SynchTests[n] : n \in DOMAIN SynchTests}
           \subseteq [fork : Seq(Threads), priority : [Threads -> Int],
                      procedure : [Threads -> Seq(S!Calls)]]
    BY PartsAssumption DEF S!SynchTestAssumption
  <2>3. QED
    BY <2>1, <2>2
<1>2. \A j, k \in 1 .. Len(PriorityTest1.fork) :
        j # k => PriorityTest1.fork[j] # PriorityTest1.fork[k]
  <2>1. PriorityTest1.fork = [k \in 1 .. 6 |-> k]
    BY DEF PriorityTest1, InOrder
  <2>2. Len(PriorityTest1.fork) = 6
    BY <2>1, <1>1
  <2>3. QED
    BY <2>1, <2>2
<1>3. \A j, k \in 1 .. Len(PriorityTest2.fork) :
        j # k => PriorityTest2.fork[j] # PriorityTest2.fork[k]
  <2>1. PriorityTest2.fork = <<3, 4, 1, 5, 6, 2, 8, 7>>
    BY DEF PriorityTest2
  <2>2. QED
    BY <2>1
<1>4. QED
  BY <1>1, <1>2, <1>3 DEF ForksOnce

\* The invariant of the priority tests.
PriorityTestInv ==
  testnum \in {38, 39} => /\ part = "Synch"
                          /\ test = IF testnum = 38 THEN PriorityTest1 ELSE PriorityTest2
                          /\ PriorityInv

LEMMA PriorityTestInit == Init => PriorityTestInv
<1> SUFFICES ASSUME Init, testnum \in {38, 39}
             PROVE  /\ part = "Synch"
                    /\ test = IF testnum = 38 THEN PriorityTest1 ELSE PriorityTest2
                    /\ PriorityInv
  BY DEF PriorityTestInv
<1>1. part = "Synch" /\ S!Init /\ test = SynchTests[testnum]
  BY WhereTestsAre DEF Init
<1>2. test = IF testnum = 38 THEN PriorityTest1 ELSE PriorityTest2
  BY <1>1, WhereTestsAre
<1>3. ForksOnce(test)
  BY <1>2, PriorityTestsFork
<1>4. forks = test.fork /\ readyList = <<>> /\ Forked = 0 /\ test.fork \in Seq(Threads)
  BY <1>1, <1>3 DEF S!Init, Forked, ForksOnce
<1>5. readyList \in Seq(Elements(Threads)) /\ Len(readyList) = 0
  BY <1>4
<1>6. \A k \in 1 .. Len(forks) : forks[k] = test.fork[Forked + k]
  BY <1>4
<1>7. ReadyByPriority
  BY <1>4, <1>5 DEF ReadyByPriority, ForkedThreads, Items, Distinct, Sorted
<1>8. QED
  BY <1>1, <1>2, <1>4, <1>5, <1>6, <1>7 DEF PriorityInv

LEMMA PriorityTestNext == PriorityTestInv /\ [Next]_vars => PriorityTestInv'
<1> SUFFICES ASSUME PriorityTestInv, [Next]_vars, testnum' \in {38, 39}
             PROVE  /\ part' = "Synch"
                    /\ test' = IF testnum' = 38 THEN PriorityTest1 ELSE PriorityTest2
                    /\ PriorityInv'
  BY DEF PriorityTestInv
<1>1. testnum' = testnum /\ part' = part
  BY DEF Next, Step, JoinDelete, JoinStep, MailboxStep, WhaleStep, SynchStep, RunsJoin,
         RunsMailbox, RunsWhale, RunsSynch, vars
<1>2. /\ part = "Synch" /\ PriorityInv /\ ForksOnce(test)
      /\ test = IF testnum = 38 THEN PriorityTest1 ELSE PriorityTest2
  BY <1>1, PriorityTestsFork DEF PriorityTestInv
<1>3. ASSUME NEW t \in Threads, SynchStep(t) PROVE PriorityInv' /\ test' = test
  <2>1. S!Step(t)
    BY <1>3 DEF SynchStep
  <2>2. test' = test
    BY <2>1 DEF S!Step, S!Fork, S!Start, S!Call
  <2>3. QED
    BY <2>1, <2>2, <1>2, SynchKeepsOrder
<1>4. CASE UNCHANGED vars
  BY <1>2, <1>4 DEF vars, synchVars, PriorityInv, Forked, ReadyByPriority, ForkedThreads, KeyOf
<1>5. (\E t \in Threads : SynchStep(t)) \/ UNCHANGED vars
  BY <1>2 DEF Next, Step, JoinDelete, JoinStep, MailboxStep, WhaleStep, RunsJoin,
         RunsMailbox, RunsWhale
<1>6. QED
  BY <1>1, <1>2, <1>3, <1>4, <1>5

\* Everybody on the list is in the order of the priorities.
LEMMA FullListInOrder ==
  ASSUME ForksOnce(test), PriorityInv, NEW order \in Seq(Threads),
         Len(order) = Len(test.fork), Range(order) = Range(test.fork),
         \A j, k \in 1 .. Len(order) :
           j < k => test.priority[order[k]] < test.priority[order[j]]
  PROVE  S!ReadyInOrder(order)
<1> SUFFICES ASSUME Len(readyList) = Len(order)
             PROVE  [k \in DOMAIN readyList |-> readyList[k].item] = order
  BY DEF S!ReadyInOrder
<1> DEFINE key == [t \in Threads |-> -test.priority[t]]
<1>1. /\ readyList \in Seq(Elements(Threads)) /\ test.fork \in Seq(Threads)
      /\ test.priority \in [Threads -> Int]
      /\ Len(test.fork) \in Nat /\ Len(forks) \in Nat /\ Len(readyList) \in Nat
  BY DEF ForksOnce, PriorityInv
<1>2. Forked = Len(readyList) /\ Forked = Len(test.fork)
  BY <1>1 DEF PriorityInv, Forked
<1>3. ReadyByPriority
  BY <1>2 DEF PriorityInv
<1>4. Items(readyList) = Range(order)
  <2>1. DOMAIN test.fork = 1 .. Len(test.fork)
    BY <1>1
  <2>2. ForkedThreads = Range(test.fork)
    BY <2>1, <1>2 DEF ForkedThreads, Range
  <2>3. QED
    BY <2>2, <1>3 DEF ReadyByPriority
<1>5. ASSUME NEW k \in 1 .. Len(readyList)
      PROVE  readyList[k].key = key[readyList[k].item]
  <2>1. readyList[k].item \in Threads
    BY <1>1, ElementTypes
  <2>2. QED
    BY <2>1, <1>3 DEF ReadyByPriority, KeyOf
<1>6. ASSUME NEW j \in 1 .. Len(order), NEW k \in 1 .. Len(order), j < k
      PROVE  key[order[j]] < key[order[k]]
  <2>1. order[j] \in Threads /\ order[k] \in Threads
    OBVIOUS
  <2>2. test.priority[order[k]] < test.priority[order[j]]
    BY <1>6
  <2>3. /\ key[order[j]] = -test.priority[order[j]] /\ test.priority[order[j]] \in Int
        /\ key[order[k]] = -test.priority[order[k]] /\ test.priority[order[k]] \in Int
    BY <2>1, <1>1
  <2>4. QED
    BY <2>2, <2>3
<1>7. Sorted(readyList) /\ Distinct(readyList)
  BY <1>3 DEF ReadyByPriority
<1> HIDE DEF key
<1>8. QED
  BY <1>1, <1>4, <1>5, <1>6, <1>7, SortedIsUnique

LEMMA PriorityTest1InOrder ==
  ASSUME test = PriorityTest1, PriorityInv
  PROVE  S!ReadyInOrder(<<4, 5, 3, 6, 1, 2>>)
<1> DEFINE order == <<4, 5, 3, 6, 1, 2>>
<1>1. ForksOnce(test)
  BY PriorityTestsFork
<1>2. test.fork = [k \in 1 .. 6 |-> k] /\ test.fork \in Seq(Threads) /\ Len(test.fork) = 6
  <2>1. test.fork = [k \in 1 .. 6 |-> k]
    BY DEF PriorityTest1, InOrder
  <2>2. QED
    BY <1>1, <2>1 DEF ForksOnce
<1>3. 1 .. 6 \subseteq Threads
  BY <1>2
<1>4. order \in Seq(Threads) /\ Len(order) = 6
  BY <1>3
<1>5. Range(order) = Range(test.fork)
  BY <1>2 DEF Range
<1>6. \A t \in 1 .. 6 : test.priority[t] = <<-1, -8, 6, 10, 8, 0>>[t]
  BY <1>3 DEF PriorityTest1, These
<1>7. /\ test.priority[4] = 10 /\ test.priority[5] = 8 /\ test.priority[3] = 6
      /\ test.priority[6] = 0 /\ test.priority[1] = -1 /\ test.priority[2] = -8
  BY <1>6
<1>8. \A j, k \in 1 .. Len(order) :
        j < k => test.priority[order[k]] < test.priority[order[j]]
  BY <1>4, <1>7
<1>9. QED
  BY <1>1, <1>2, <1>4, <1>5, <1>8, FullListInOrder

LEMMA PriorityTest2InOrder ==
  ASSUME test = PriorityTest2, PriorityInv
  PROVE  S!ReadyInOrder(<<1, 4, 5, 3, 2, 8, 7, 6>>)
<1> DEFINE order == <<1, 4, 5, 3, 2, 8, 7, 6>>
<1>1. ForksOnce(test)
  BY PriorityTestsFork
<1>2. test.fork = <<3, 4, 1, 5, 6, 2, 8, 7>> /\ test.fork \in Seq(Threads) /\ Len(test.fork) = 8
  <2>1. test.fork = <<3, 4, 1, 5, 6, 2, 8, 7>>
    BY DEF PriorityTest2
  <2>2. QED
    BY <1>1, <2>1 DEF ForksOnce
<1>3. 1 .. 8 \subseteq Threads
  <2>1. \A k \in 1 .. 8 : test.fork[k] \in Threads
    BY <1>2
  <2>2. /\ test.fork[1] = 3 /\ test.fork[2] = 4 /\ test.fork[3] = 1 /\ test.fork[4] = 5
        /\ test.fork[5] = 6 /\ test.fork[6] = 2 /\ test.fork[7] = 8 /\ test.fork[8] = 7
    BY <1>2
  <2>3. /\ 1 \in Threads /\ 2 \in Threads /\ 3 \in Threads /\ 4 \in Threads
        /\ 5 \in Threads /\ 6 \in Threads /\ 7 \in Threads /\ 8 \in Threads
    BY <2>1, <2>2
  <2>4. QED
    BY <2>3
<1>4. order \in Seq(Threads) /\ Len(order) = 8
  BY <1>3
<1>5. Range(order) = Range(test.fork)
  BY <1>2 DEF Range
<1>6. \A t \in 1 .. 8 : test.priority[t] = <<12, 5, 6, 10, 9, -1, 3, 4>>[t]
  BY <1>3 DEF PriorityTest2, These
<1>7. /\ test.priority[1] = 12 /\ test.priority[4] = 10 /\ test.priority[5] = 9
      /\ test.priority[3] = 6 /\ test.priority[2] = 5 /\ test.priority[8] = 4
      /\ test.priority[7] = 3 /\ test.priority[6] = -1
  BY <1>6
<1>8. \A j, k \in 1 .. Len(order) :
        j < k => test.priority[order[k]] < test.priority[order[j]]
  BY <1>4, <1>7
<1>9. QED
  BY <1>1, <1>2, <1>4, <1>5, <1>8, FullListInOrder

\* PriorityTest1 and PriorityTest2: when everybody is on the ready list and
\* nobody has run, the list has the order that the comments at threadtest.cc:562
\* and 624 announce, wherever SortedInsert had to put each thread.
THEOREM ReadyListByPriority == Spec => []PriorityOrder
<1>1. PriorityTestInv => PriorityOrder
  <2> SUFFICES ASSUME PriorityTestInv PROVE PriorityOrder
    OBVIOUS
  <2>1. CASE testnum = 38
    <3>1. test = PriorityTest1 /\ PriorityInv
      BY <2>1 DEF PriorityTestInv
    <3>2. QED
      BY <2>1, <3>1, PriorityTest1InOrder DEF PriorityOrder
  <2>2. CASE testnum = 39
    <3>1. test = PriorityTest2 /\ PriorityInv
      BY <2>2 DEF PriorityTestInv
    <3>2. QED
      BY <2>2, <3>1, PriorityTest2InOrder DEF PriorityOrder
  <2>3. QED
    BY <2>1, <2>2 DEF PriorityOrder
<1>2. QED
  BY <1>1, PriorityTestInit, PriorityTestNext, PTL DEF Spec
===============================================================================
