------------------------------ MODULE PostOffice ------------------------------
(***************************************************************************)
(* Machines that send one another mail: the post office of network/post.cc *)
(* over the simulated network of machine/network.cc.                       *)
(*                                                                         *)
(* A machine's clients call Send and Receive.  Send holds sendLock until   *)
(* the interrupt of the network says that the packet is on its way, or     *)
(* lost.  The network polls the machine's socket for packets and keeps one *)
(* packet until the postal worker takes it and puts it in a mailbox, which *)
(* is a synchronized list (module SynchList).                              *)
(***************************************************************************)
EXTENDS SynchList

CONSTANTS Machines,
          Boxes,          \* the numbers of the mailboxes on each machine
          Host,           \* the machine of each thread
          Worker,         \* the postal worker of each machine
          Systems,        \* the calls the clients may make
          Reliabilities   \* of the network: "all" packets arrive, or "some"

ASSUME PostOfficeAssumption ==
  /\ Host \in [Threads -> Machines]
  /\ Worker \in [Machines -> Threads]
  /\ \A m \in Machines : Host[Worker[m]] = m
  /\ Boxes \subseteq Nat
  /\ Lists = Machines \X Boxes
  /\ Reliabilities \subseteq {"all", "some"}

VARIABLES system,            \* the calls the clients make
          up,                \* the machines that have not called Halt
          reliability,
          socket,            \* the packets in the socket of each machine
          inbox,             \* Network::inbox, or NoPacket when inHdr.length is 0
          sending,           \* how many NetworkSendDone interrupts are scheduled
          messageAvailable, messageSent,  \* values of the semaphores
          sent,              \* the packets each machine put in another's socket, in order
          aborted            \* machines where an ASSERT failed
deviceVars == <<socket, inbox, sending, sent>>
semaphores == <<messageAvailable, messageSent>>
parameters == <<system, reliability>>
vars == <<listVars, pc, todo, up, parameters, deviceVars, semaphores, aborted>>

NoPacket == NULL
NoList == <<0, 0>>
sendLock(m) == <<m, -1>>
Clients == Threads \ Range(Worker)

\* All the calls of all clients.  What a client puts on a list itself is not
\* the mail of a machine: mailboxes are filled by the postal worker alone.
Calls == UNION {Range(s[t]) : s \in Systems, t \in Clients}

ASSUME SystemsAssumption ==
  /\ Systems \subseteq [Clients -> Seq(Calls)]
  /\ \A call \in Calls : call.op = "Append" =>
       /\ call.list \in Lists
       /\ call.item # NULL
       /\ call.item.from \notin Machines

\* A mail with its headers: pktHdr.from and pktHdr.to, mailHdr.from and
\* mailHdr.to, and the data.
Mail(from, to, box, replyBox, data) ==
  [from |-> from, to |-> to, box |-> box, replyBox |-> replyBox, data |-> data]

\* The calls of a client.  Reply answers the last mail it received.
Send(to, box, replyBox, data) ==
  [op |-> "Send", list |-> <<to, box>>, replyBox |-> replyBox, data |-> data]
Reply(data) == [op |-> "Reply", list |-> NoList, data |-> data]
Receive(m, box) == RemoveFrom(<<m, box>>)
Halt == [op |-> "Halt", list |-> NoList]

\* What main does with -o: send to box 0 of the other machine, wait for its
\* message, acknowledge it, wait for the acknowledgement in box 1, halt.
MailTest(m, farAddr) ==
  <<Send(farAddr, 0, 1, "Hello there!"), Receive(m, 0), Reply("Got it!"), Receive(m, 1), Halt>>

Init == /\ SynchListInit
        /\ owner = [l \in Lists \cup {sendLock(m) : m \in Machines} |-> NoThread]
        /\ waitList = [l \in Lists |-> <<>>]
        /\ pc = [t \in Threads |-> "out"]
        /\ system \in Systems
        /\ todo = [t \in Threads |-> IF t \in Clients THEN system[t] ELSE <<>>]
        /\ up = Machines
        /\ reliability \in Reliabilities
        /\ socket = [m \in Machines |-> <<>>]
        /\ inbox = [m \in Machines |-> NoPacket]
        /\ sending = [m \in Machines |-> 0]
        /\ messageAvailable = [m \in Machines |-> 0]
        /\ messageSent = [m \in Machines |-> 0]
        /\ sent = [m \in Machines |-> <<>>]
        /\ aborted = {}

Runs(m) == m \in up /\ m \notin aborted

At(t, place) == Runs(Host[t]) /\ pc[t] = place

CallsSend(t) == todo[t] # <<>> /\ Head(todo[t]).op \in {"Send", "Reply"}

\* The mail that a call of Send or Reply is about.
Outgoing(t) ==
  LET call == Head(todo[t])
      last == got[t][Len(got[t])]
  IN  IF call.op = "Send"
      THEN Mail(Host[t], call.list[1], call.list[2], call.replyBox, call.data)
      ELSE Mail(Host[t], last.from, last.replyBox, 1, call.data)

-------------------------------------------------------------------------------
\* Slip: Send does without sendLock.
SendUnlocked(t) ==
  /\ At(t, "out") /\ CallsSend(t)
  /\ Goto(t, "locked")
  /\ UNCHANGED <<owner, waitList, list, todo, got, removed, up, parameters, deviceVars, semaphores, aborted>>

\* Send up to sendLock->Acquire.
SendAcquires(t) ==
  /\ At(t, "out") /\ CallsSend(t)
  /\ Acquire(t, sendLock(Host[t]))
  /\ Goto(t, "locked")
  /\ UNCHANGED <<list, todo, got, removed, up, parameters, deviceVars, semaphores, aborted>>

\* The packet is put in the socket of the other machine; sendto fails when
\* nobody has its name.
SendToSocket(m, mail) ==
  \/ /\ mail.to \in up
     /\ socket' = [socket EXCEPT ![mail.to] = Append(@, mail)]
     /\ sent' = [sent EXCEPT ![m] = Append(@, mail)]
     /\ UNCHANGED aborted
  \/ /\ mail.to \notin up
     /\ aborted' = aborted \cup {m}
     /\ UNCHANGED <<socket, sent>>

\* Network::Send: the interrupt is scheduled whether or not the packet is lost.
NetworkSend(t) ==
  LET m == Host[t]
  IN  /\ At(t, "locked")
      /\ sending' = [sending EXCEPT ![m] = @ + 1]
      /\ \/ reliability = "some" /\ UNCHANGED <<socket, sent, aborted>>
         \/ SendToSocket(m, Outgoing(t))
      /\ Goto(t, "sent")
      /\ UNCHANGED <<listVars, todo, up, parameters, inbox, semaphores>>

\* messageSent->P.
SendWaits(t) ==
  /\ At(t, "sent")
  /\ messageSent[Host[t]] > 0
  /\ messageSent' = [messageSent EXCEPT ![Host[t]] = @ - 1]
  /\ Goto(t, "unlock")
  /\ UNCHANGED <<listVars, todo, up, parameters, deviceVars, messageAvailable, aborted>>

SendReleases(t) ==
  /\ At(t, "unlock")
  /\ Release(t, sendLock(Host[t]))
  /\ Goto(t, "out")
  /\ Return(t)
  /\ UNCHANGED <<list, got, removed, up, parameters, deviceVars, semaphores, aborted>>

\* Interrupt::Halt, at the end of MailTest.
HaltMachine(t) ==
  /\ At(t, "out")
  /\ todo[t] # <<>> /\ Head(todo[t]) = Halt
  /\ up' = up \ {Host[t]}
  /\ UNCHANGED <<listVars, pc, todo, parameters, deviceVars, semaphores, aborted>>

\* The calls on the mailboxes.
UseBox(t) == /\ Runs(Host[t])
             /\ \E l \in Lists : ListStep(t, l)
             /\ UNCHANGED <<up, parameters, deviceVars, semaphores, aborted>>

\* PostalDelivery: messageAvailable->P.
WorkerWaits(t) ==
  LET m == Host[t]
  IN  /\ t = Worker[m] /\ At(t, "out") /\ todo[t] = <<>>
      /\ messageAvailable[m] > 0
      /\ messageAvailable' = [messageAvailable EXCEPT ![m] = @ - 1]
      /\ Goto(t, "collect")
      /\ UNCHANGED <<listVars, todo, up, parameters, deviceVars, messageSent, aborted>>

\* Network::Receive, and on to the mailbox.
WorkerCollects(t) ==
  LET m == Host[t]
  IN  /\ At(t, "collect")
      /\ inbox[m] # NoPacket
      /\ todo' = [todo EXCEPT ![t] = <<AppendTo(<<m, inbox[m].box>>, inbox[m])>>]
      /\ inbox' = [inbox EXCEPT ![m] = NoPacket]
      /\ Goto(t, "out")
      /\ UNCHANGED <<listVars, up, parameters, socket, sending, sent, semaphores, aborted>>

-------------------------------------------------------------------------------
PollSocket(m) == socket[m] # <<>>

ReadFromSocket(m) == /\ inbox' = [inbox EXCEPT ![m] = Head(socket[m])]
                     /\ socket' = [socket EXCEPT ![m] = Tail(@)]

\* Slip: the poll does not look whether a packet is already buffered.
PollOverwrites(m) ==
  /\ Runs(m)
  /\ PollSocket(m)
  /\ ReadFromSocket(m)
  /\ messageAvailable' = [messageAvailable EXCEPT ![m] = @ + 1]
  /\ UNCHANGED <<listVars, pc, todo, up, parameters, sending, sent, messageSent, aborted>>

\* The interrupt of NetworkReadPoll finds a packet: CheckPktAvail, with
\* IncomingPacket at its end.
CheckPktAvail(m) ==
  /\ Runs(m)
  /\ inbox[m] = NoPacket
  /\ PollSocket(m)
  /\ ReadFromSocket(m)
  /\ messageAvailable' = [messageAvailable EXCEPT ![m] = @ + 1]
  /\ UNCHANGED <<listVars, pc, todo, up, parameters, sending, sent, messageSent, aborted>>

\* Slip: a lost packet has no interrupt.
SendDoneIfDelivered(m) ==
  /\ Runs(m)
  /\ sending[m] > 0
  /\ sending' = [sending EXCEPT ![m] = @ - 1]
  /\ messageSent' = IF sent[m] = <<>> THEN messageSent ELSE [messageSent EXCEPT ![m] = @ + 1]
  /\ UNCHANGED <<listVars, pc, todo, up, parameters, socket, inbox, sent, messageAvailable, aborted>>

\* The interrupt of NetworkSendDone: SendDone and PacketSent.
SendDone(m) ==
  /\ Runs(m)
  /\ sending[m] > 0
  /\ sending' = [sending EXCEPT ![m] = @ - 1]
  /\ messageSent' = [messageSent EXCEPT ![m] = @ + 1]
  /\ UNCHANGED <<listVars, pc, todo, up, parameters, socket, inbox, sent, messageAvailable, aborted>>

Step(t) == \/ SendAcquires(t) \/ NetworkSend(t) \/ SendWaits(t) \/ SendReleases(t)
           \/ HaltMachine(t) \/ UseBox(t) \/ WorkerWaits(t) \/ WorkerCollects(t)

Interrupts(m) == CheckPktAvail(m) \/ SendDone(m)

Next == (\E t \in Threads : Step(t)) \/ (\E m \in Machines : Interrupts(m))

Spec == Init /\ [][Next]_vars

\* A runnable thread runs sooner or later (see Scheduler), and the network
\* polls and ends its sends again and again.
FairSpec == /\ Spec
            /\ \A t \in Threads : WF_vars(Step(t))
            /\ \A m \in Machines : WF_vars(Interrupts(m))
-------------------------------------------------------------------------------
\* Of a sequence of mails, those from machine m to list l.
Between(m, l, mails) ==
  LET kept[i \in 0 .. Len(mails)] ==
        IF i = 0 THEN <<>>
        ELSE IF mails[i].from = m /\ <<mails[i].to, mails[i].box>> = l
             THEN Append(kept[i - 1], mails[i])
             ELSE kept[i - 1]
  IN  kept[Len(mails)]

\* The mail in the hands of the postal worker of machine m that is not on the
\* list yet.
InHand(m) == LET t == Worker[m]
             IN  IF todo[t] # <<>> /\ pc[t] # "leaving" THEN <<Head(todo[t]).item>> ELSE <<>>

Buffered(m) == IF inbox[m] = NoPacket THEN <<>> ELSE <<inbox[m]>>

\* Nothing is lost, doubled or reordered behind the network: the mails of a
\* machine that were put in another's socket for one of its boxes are, in this
\* order, those received from the box, those in it, the one the postal worker
\* carries, the one the network has buffered, and those in the socket.
MailConserved ==
  \A m, n \in Machines : \A b \in Boxes :
    LET l == <<n, b>>
        path == removed[l] \o list[l] \o InHand(n) \o Buffered(n) \o socket[n]
    IN  Between(m, l, sent[m]) = Between(m, l, path)

\* What ASSERT(sendBusy == FALSE) of Network::Send and the two semaphores are
\* for: a machine sends one packet at a time, the thread that takes messageSent
\* is the one whose packet was sent, and messageAvailable counts the packet
\* buffered or about to be collected.
OneAtATime ==
  \A m \in Machines \ aborted :
    LET at(place) == {t \in Threads : Host[t] = m /\ pc[t] = place}
    IN  /\ sending[m] + messageSent[m] = Cardinality(at("sent"))
        /\ Cardinality(at("sent")) <= 1
        /\ messageAvailable[m] + Cardinality(at("collect")) = Len(Buffered(m))

\* Machines halt only at the end of MailTest.
Polite == \A t \in Clients : Halt \in Range(system[t]) =>
            \E farAddr \in Machines : system[t] = MailTest(Host[t], farAddr)

\* Everything comes to rest: all mail that reached a machine is in the boxes,
\* a client waits only for mail that never came, and no Send hangs, although
\* its packet be lost.  Machines that run MailTest are not stopped by a failed
\* assertion, the other being there for whoever sends to it, and when no packet
\* is lost they all halt.
MailArrives ==
  <>[](/\ \A m \in up \ aborted : socket[m] = <<>> /\ inbox[m] = NoPacket
       /\ \A t \in Threads : Runs(Host[t]) => ~CallsSend(t) /\ ListRested(t)
       /\ Polite => /\ aborted = {}
                    /\ reliability = "all" =>
                         \A t \in Clients : Halt \in Range(system[t]) => Host[t] \notin up)
===============================================================================
