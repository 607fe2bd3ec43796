------------------------------- MODULE Mailbox --------------------------------
(***************************************************************************)
(* The mailbox of threads/synch.cc: senders and receivers meet in pairs    *)
(* under boxLock and mailboxCV, and then hand messages over one at a time  *)
(* through buffer, which the semaphores empty and full and bufferLock      *)
(* protect.                                                                *)
(*                                                                         *)
(* Each thread makes the calls of its program, a sequence of Send(message) *)
(* and Receive.  Locks and conditions are those of Monitor, semaphores     *)
(* those of AbstractSemaphore.                                             *)
(***************************************************************************)
EXTENDS Monitor, FiniteSets

CONSTANTS Threads,
          Programs  \* the calls the threads may make

Send(message) == [op |-> "Send", message |-> message]

NoMessage == 0

Receive == [op |-> "Receive", message |-> NoMessage]

\* The code never looks at a message: it stands for the Send that carries it.
DistinctMessages(calls) ==
  \A t, u \in Threads : \A n \in DOMAIN calls[t], m \in DOMAIN calls[u] :
    /\ calls[t][n].op = "Send" /\ calls[u][m].op = "Send"
    /\ calls[t][n].message = calls[u][m].message
    => t = u /\ n = m

\* What the constants are; ThreadTest assumes it of its own.
MailboxAssumption == /\ IsFiniteSet(Threads)
                     /\ NoThread \notin Threads
                     /\ Priority \in [Threads -> Int]
                     /\ Programs \subseteq
                          [Threads -> Seq([op : {"Send", "Receive"}, message : Nat])]
                     /\ \A calls \in Programs : DistinctMessages(calls)

VARIABLES numItems,   \* senders minus receivers that have come, while they wait
          buffer, bufferSet,
          empty, full,  \* the values of the semaphores
          call,         \* the calls of each thread
          made,         \* how many of them have returned
          pc,           \* how far it got in the next one
          got           \* the messages each thread received
vars == <<owner, waitList, numItems, buffer, bufferSet, empty, full, call, made, pc, got>>
boxVars == <<numItems>>
bufferVars == <<buffer, bufferSet, got>>
semaphores == <<empty, full>>

Init == /\ owner = [l \in {"boxLock", "bufferLock"} |-> NoThread]
        /\ waitList = [c \in {"mailboxCV"} |-> <<>>]
        /\ numItems = 0
        /\ buffer = NoMessage
        /\ bufferSet = 0
        /\ empty = 1
        /\ full = 0
        /\ call \in Programs
        /\ made = [t \in Threads |-> 0]
        /\ pc = [t \in Threads |-> "start"]
        /\ got = [t \in Threads |-> <<>>]

Calling == {t \in Threads : made[t] < Len(call[t])}

Current(t) == call[t][made[t] + 1]

\* The threads whose next call, or the one they are in, is a Send or a Receive.
Senders == {t \in Calling : Current(t).op = "Send"}
Receivers == {t \in Calling : Current(t).op = "Receive"}

Go(t, from, to) == /\ t \in Calling
                   /\ pc[t] = from
                   /\ pc' = [pc EXCEPT ![t] = to]
                   /\ UNCHANGED <<call, made>>

-------------------------------------------------------------------------------
AcquireBox(t) ==
  /\ Go(t, "start", "box")
  /\ Acquire(t, "boxLock")
  /\ UNCHANGED <<boxVars, bufferVars, semaphores>>

\* Slip: a sender waits when a receiver is left over, not when none is.
MeetOffByOne(t) ==
  /\ numItems' = IF t \in Senders THEN numItems + 1 ELSE numItems - 1
  /\ \/ /\ IF t \in Senders THEN numItems' > 1 ELSE numItems' < 0
        /\ Go(t, "box", "boxWait")
        /\ Wait(t, "boxLock", "mailboxCV")
     \/ /\ IF t \in Senders THEN numItems' <= 1 ELSE numItems' >= 0
        /\ Go(t, "box", "boxLeave")
        /\ Signal(t, "boxLock", "mailboxCV")
  /\ UNCHANGED <<bufferVars, semaphores>>

\* Count oneself, then wait for a partner or wake the one that waits.
Meet(t) ==
  /\ numItems' = IF t \in Senders THEN numItems + 1 ELSE numItems - 1
  /\ \/ /\ IF t \in Senders THEN numItems' > 0 ELSE numItems' < 0
        /\ Go(t, "box", "boxWait")
        /\ Wait(t, "boxLock", "mailboxCV")
     \/ /\ IF t \in Senders THEN numItems' <= 0 ELSE numItems' >= 0
        /\ Go(t, "box", "boxLeave")
        /\ Signal(t, "boxLock", "mailboxCV")
  /\ UNCHANGED <<bufferVars, semaphores>>

MeetWaitReturns(t) ==
  /\ Go(t, "boxWait", "boxLeave")
  /\ ReturnFromWait(t, "boxLock", "mailboxCV")
  /\ UNCHANGED <<boxVars, bufferVars, semaphores>>

ReleaseBox(t) ==
  /\ Go(t, "boxLeave", "P")
  /\ Release(t, "boxLock")
  /\ UNCHANGED <<boxVars, bufferVars, semaphores>>

\* Slip: the sender does not wait for the buffer to be emptied.
PSemaphoreUnchecked(t) ==
  /\ Go(t, "P", "acquire")
  /\ \/ t \in Senders /\ empty' = empty - 1 /\ UNCHANGED full
     \/ t \in Receivers /\ full > 0 /\ full' = full - 1 /\ UNCHANGED empty
  /\ UNCHANGED <<owner, waitList, boxVars, bufferVars>>

\* A sender waits for empty, a receiver for full.
PSemaphore(t) ==
  /\ Go(t, "P", "acquire")
  /\ \/ t \in Senders /\ empty > 0 /\ empty' = empty - 1 /\ UNCHANGED full
     \/ t \in Receivers /\ full > 0 /\ full' = full - 1 /\ UNCHANGED empty
  /\ UNCHANGED <<owner, waitList, boxVars, bufferVars>>

AcquireBuffer(t) ==
  /\ Go(t, "acquire", "buffer")
  /\ Acquire(t, "bufferLock")
  /\ UNCHANGED <<boxVars, bufferVars, semaphores>>

\* The copy.  The loops on bufferSet in front of it never turn (BufferInTurn),
\* so nobody ever waits on bufferCV and its Signal finds no one.
Copy(t) ==
  /\ Go(t, "buffer", "bufferLeave")
  /\ \/ /\ t \in Senders
        /\ buffer' = Current(t).message
        /\ bufferSet' = 1
        /\ UNCHANGED got
     \/ /\ t \in Receivers
        /\ got' = [got EXCEPT ![t] = Append(@, buffer)]
        /\ bufferSet' = 0
        /\ UNCHANGED buffer
  /\ UNCHANGED <<owner, waitList, boxVars, semaphores>>

ReleaseBuffer(t) ==
  /\ Go(t, "bufferLeave", "V")
  /\ Release(t, "bufferLock")
  /\ UNCHANGED <<boxVars, bufferVars, semaphores>>

\* The last step of a call.
Return(t) == /\ t \in Calling
             /\ pc[t] = "V"
             /\ pc' = [pc EXCEPT ![t] = "start"]
             /\ made' = [made EXCEPT ![t] = @ + 1]
             /\ UNCHANGED call

\* Slip: the receiver gives back full in the place of empty.
VSemaphoreFullOnly(t) ==
  /\ Return(t)
  /\ full' = full + 1
  /\ UNCHANGED <<owner, waitList, boxVars, bufferVars, empty>>

VSemaphore(t) ==
  /\ Return(t)
  /\ \/ t \in Senders /\ full' = full + 1 /\ UNCHANGED empty
     \/ t \in Receivers /\ empty' = empty + 1 /\ UNCHANGED full
  /\ UNCHANGED <<owner, waitList, boxVars, bufferVars>>

Step(t) == \/ AcquireBox(t) \/ Meet(t) \/ MeetWaitReturns(t) \/ ReleaseBox(t)
           \/ PSemaphore(t) \/ AcquireBuffer(t) \/ Copy(t) \/ ReleaseBuffer(t)
           \/ VSemaphore(t)

Next == \E t \in Threads : Step(t)

Spec == Init /\ [][Next]_vars
-------------------------------------------------------------------------------
Waiting == Items(waitList["mailboxCV"])

\* The calls of a kind: the nth of thread t.
Calls(op) ==
  {c \in UNION {{t} \X DOMAIN call[t] : t \in Threads} : call[c[1]][c[2]].op = op}

Returned(op) == {c \in Calls(op) : c[2] <= made[c[1]]}

\* Those that are past the meeting.
Met(op) == Returned(op) \cup {c \in Calls(op) : /\ c[2] = made[c[1]] + 1
                                               /\ pc[c[1]] \notin {"start", "box"}
                                               /\ c[1] \notin Waiting}

\* Nobody goes on without a partner: as many Sends as Receives have been let
\* past the box, and only one of the two kinds is waiting there.
MetInPairs ==
  /\ Cardinality(Met("Send")) = Cardinality(Met("Receive"))
  /\ Waiting \subseteq Senders \/ Waiting \subseteq Receivers
  /\ numItems = Cardinality(Waiting \cap Senders) - Cardinality(Waiting \cap Receivers)

\* The buffer is written only when it is empty and read only when it is full:
\* no message is overwritten before it was received.
BufferInTurn ==
  \A t \in Calling : pc[t] = "buffer" => bufferSet = (IF t \in Senders THEN 0 ELSE 1)

\* The places of the messages received: the nth of thread t.
Receipts == UNION {{t} \X DOMAIN got[t] : t \in Threads}

\* No message is received twice.
NoDuplicate ==
  \A r, s \in Receipts : got[r[1]][r[2]] = got[s[1]][s[2]] => r = s

\* The calls that returned are in pairs, and their messages are the ones
\* received.  Nobody is left who could meet another: the threads at rest all
\* have a call of the same kind to make, or none.
PairsFinished ==
  /\ {call[c[1]][c[2]].message : c \in Returned("Send")} = {got[r[1]][r[2]] : r \in Receipts}
  /\ Cardinality(Returned("Send")) = Cardinality(Returned("Receive"))
  /\ Calling = Waiting
===============================================================================
