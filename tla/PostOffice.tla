----------------------------- MODULE PostOffice -----------------------------
(***************************************************************************)
(* Mail between Nachos machines: the simulated network (machine/network.cc)*)
(* over UNIX sockets, the post office with its postal worker               *)
(* (network/post.cc), and programs such as Kernel::NetworkTest on top.     *)
(*                                                                         *)
(* A mailbox is a SynchList, used by its contract (module SynchList):      *)
(* Append adds at the end, RemoveFront takes the first item or waits.      *)
(* Locks and semaphores are used by theirs (module Synch).  The code       *)
(* between two such calls is one step; every machine is a process of its   *)
(* own.  Messages keep their addresses; text and lengths are left out (the *)
(* length of a packet is never 0, as the MailHeader is part of it, so      *)
(* inHdr.length # 0 is inbox # NULL here).                                 *)
(***************************************************************************)
EXTENDS Naturals, Sequences

CONSTANTS
    Host,
    Box,            \* the mailboxes of a post office
    Client,         \* threads that use it
    Home,           \* the host of each client
    Program,        \* what each client does, a sequence of operations
    Reliability,    \* chanceToWork, in percent
    NULL

Operation ==
    [op : {"send"}, to : Host, box : Box, reply : Box]
      \cup [op : {"receive"}, box : Box]
      \cup [op : {"reply"}, reply : Box]    \* to the sender of the mail received last

ASSUME PostAssumption ==
    /\ Home \in [Client -> Host]
    /\ \A c \in Client : Program[c] \in Seq(Operation)
    \* a reply goes to the sender of some mail that was received before
    /\ \A c \in Client : \A i \in 1..Len(Program[c]) :
         Program[c][i].op = "reply" => \E j \in 1..(i - 1) : Program[c][j].op = "receive"
    /\ Reliability \in 0..100
    /\ NULL \notin Client

(* PacketHeader and MailHeader; id says which Send it is from. *)
Mail == [from : Host, to : Host, box : Box, reply : Box, id : Client \X Nat]

ASSUME NoMailIsNull == NULL \notin Mail

VARIABLES
    \* PostOfficeOutput and NetworkOutput of each host
    sendLock, messageSent, sendBusy, sendPending,
    \* the sockets, NetworkInput and PostOfficeInput of each host
    socket, inbox, messageAvailable, carried, boxes,
    \* the clients: next operation, place in it, mail received last
    ip, pc, last,
    \* history: transmitted to a host, received from its boxes, packets lost
    sent, received, lost

outVars == << sendLock, messageSent, sendBusy, sendPending >>
inVars == << socket, inbox, messageAvailable, carried, boxes >>
clientVars == << ip, pc, last >>
histVars == << sent, received, lost >>
vars == << outVars, inVars, clientVars, histVars >>

TypeOK ==
    /\ sendLock \in [Host -> Client \cup {NULL}]
    /\ messageSent \in [Host -> {0, 1}]
    /\ sendBusy \in [Host -> BOOLEAN]
    /\ sendPending \in [Host -> BOOLEAN]
    /\ socket \in [Host -> Seq(Mail)]
    /\ inbox \in [Host -> Mail \cup {NULL}]
    /\ messageAvailable \in [Host -> {0, 1}]
    /\ carried \in [Host -> Mail \cup {NULL}]
    /\ boxes \in [Host -> [Box -> Seq(Mail)]]
    /\ ip \in [Client -> Nat]
    /\ pc \in [Client -> {"ready", "acquire", "send", "wait", "release"}]
    /\ last \in [Client -> Mail \cup {NULL}]
    /\ sent \in [Host -> Seq(Mail)]
    /\ received \in [Host -> [Box -> Seq(Mail)]]
    /\ lost \in BOOLEAN

(* The constructors; polling of the sockets has started. *)
AssignNameToSocket == socket = [h \in Host |-> << >>]   \* what was left in it is gone
NetworkInputInit ==
    /\ AssignNameToSocket
    /\ inbox = [h \in Host |-> NULL]
NetworkOutputInit ==
    /\ sendBusy = [h \in Host |-> FALSE]
    /\ sendPending = [h \in Host |-> FALSE]
MailBoxInit == boxes = [h \in Host |-> [b \in Box |-> << >>]]
PostOfficeInputInit ==
    /\ NetworkInputInit /\ MailBoxInit
    /\ messageAvailable = [h \in Host |-> 0]
    /\ carried = [h \in Host |-> NULL]
PostOfficeOutputInit ==
    /\ NetworkOutputInit
    /\ messageSent = [h \in Host |-> 0]
    /\ sendLock = [h \in Host |-> NULL]

Init ==
    /\ PostOfficeInputInit /\ PostOfficeOutputInit
    /\ ip = [c \in Client |-> 1]
    /\ pc = [c \in Client |-> "ready"]
    /\ last = [c \in Client |-> NULL]
    /\ sent = [h \in Host |-> << >>]
    /\ received = [h \in Host |-> [b \in Box |-> << >>]]
    /\ lost = FALSE

-----------------------------------------------------------------------------
(* PostOfficeOutput::Send, and NetworkOutput.                              *)

Current(c) == Program[c][ip[c]]
Running(c) == ip[c] <= Len(Program[c])

(* The mail of the operation c is at, with the headers Send fills in. *)
Outgoing(c) ==
    [from |-> Home[c], reply |-> Current(c).reply, id |-> << c, ip[c] >>,
     to |-> IF Current(c).op = "reply" THEN last[c].from ELSE Current(c).to,
     box |-> IF Current(c).op = "reply" THEN last[c].reply ELSE Current(c).box]

StartSend(c) ==
    /\ pc[c] = "ready" /\ Running(c)
    /\ Current(c).op \in {"send", "reply"}
    /\ pc' = [pc EXCEPT ![c] = "acquire"]
    /\ UNCHANGED << outVars, inVars, ip, last, histVars >>

Acquire(c) ==
    /\ pc[c] = "acquire"
    /\ sendLock[Home[c]] = NULL
    /\ sendLock' = [sendLock EXCEPT ![Home[c]] = c]
    /\ pc' = [pc EXCEPT ![c] = "send"]
    /\ UNCHANGED << messageSent, sendBusy, sendPending, inVars, ip, last, histVars >>

(* SendToSocket. *)
Transmit(mail) ==
    /\ socket' = [socket EXCEPT ![mail.to] = Append(@, mail)]
    /\ sent' = [sent EXCEPT ![mail.to] = Append(@, mail)]
    /\ UNCHANGED lost

Lose == lost' = TRUE /\ UNCHANGED << socket, sent >>

(* Mutant: a dropped packet gives no interrupt. *)
NetworkSendSilentLoss(c) ==
    /\ pc[c] = "send"
    /\ \/ /\ Reliability > 0
          /\ Transmit(Outgoing(c))
          /\ sendPending' = [sendPending EXCEPT ![Home[c]] = TRUE]
       \/ Reliability < 100 /\ Lose /\ UNCHANGED sendPending
    /\ pc' = [pc EXCEPT ![c] = "wait"]
    /\ UNCHANGED << sendLock, messageSent, sendBusy, inbox, messageAvailable, carried, boxes,
                    ip, last, received >>

(* NetworkOutput::Send: the interrupt is scheduled whether the packet goes *)
(* out or not.                                                             *)
NetworkSend(c) ==
    /\ pc[c] = "send"
    /\ sendPending' = [sendPending EXCEPT ![Home[c]] = TRUE]
    /\ \/ Reliability > 0 /\ Transmit(Outgoing(c))
       \/ Reliability < 100 /\ Lose
    /\ pc' = [pc EXCEPT ![c] = "wait"]
    /\ UNCHANGED << sendLock, messageSent, sendBusy, inbox, messageAvailable, carried, boxes,
                    ip, last, received >>

WaitSent(c) ==
    /\ pc[c] = "wait"
    /\ messageSent[Home[c]] > 0
    /\ messageSent' = [messageSent EXCEPT ![Home[c]] = @ - 1]
    /\ pc' = [pc EXCEPT ![c] = "release"]
    /\ UNCHANGED << sendLock, sendBusy, sendPending, inVars, ip, last, histVars >>

Release(c) ==
    /\ pc[c] = "release"
    /\ sendLock' = [sendLock EXCEPT ![Home[c]] = NULL]
    /\ pc' = [pc EXCEPT ![c] = "ready"]
    /\ ip' = [ip EXCEPT ![c] = @ + 1]
    /\ UNCHANGED << messageSent, sendBusy, sendPending, inVars, last, histVars >>

(* PostOfficeOutput::CallBack. *)
CallBackOut(h) == messageSent' = [messageSent EXCEPT ![h] = @ + 1]

(* The send interrupt: NetworkOutput::CallBack, which calls the post office. *)
SendDone(h) ==
    /\ sendPending[h]
    /\ sendPending' = [sendPending EXCEPT ![h] = FALSE]
    /\ sendBusy' = [sendBusy EXCEPT ![h] = FALSE]
    /\ CallBackOut(h)
    /\ UNCHANGED << sendLock, inVars, clientVars, histVars >>

-----------------------------------------------------------------------------
(* NetworkInput and PostOfficeInput.                                       *)

(* PollSocket and ReadFromSocket. *)
PollSocket(h) == socket[h] # << >>
ReadFromSocket(h) ==
    /\ inbox' = [inbox EXCEPT ![h] = Head(socket[h])]
    /\ socket' = [socket EXCEPT ![h] = Tail(@)]

(* PostOfficeInput::CallBack. *)
CallBackIn(h) == messageAvailable' = [messageAvailable EXCEPT ![h] = @ + 1]

(* Mutant: a packet is read although one is still buffered. *)
PacketArrivesOver(h) ==
    /\ PollSocket(h)
    /\ ReadFromSocket(h)
    /\ messageAvailable' = [messageAvailable EXCEPT ![h] = 1]
    /\ UNCHANGED << outVars, carried, boxes, clientVars, histVars >>

(* NetworkInput::CallBack, when it finds a packet and its buffer is free;  *)
(* otherwise the poll changes nothing.  It then calls the post office.     *)
PacketArrives(h) ==
    /\ inbox[h] = NULL
    /\ PollSocket(h)
    /\ ReadFromSocket(h)
    /\ CallBackIn(h)
    /\ UNCHANGED << outVars, carried, boxes, clientVars, histVars >>

(* The postal worker: P, then NetworkInput::Receive ... *)
Collect(h) ==
    /\ carried[h] = NULL
    /\ messageAvailable[h] > 0
    /\ messageAvailable' = [messageAvailable EXCEPT ![h] = @ - 1]
    /\ carried' = [carried EXCEPT ![h] = inbox[h]]
    /\ inbox' = [inbox EXCEPT ![h] = NULL]
    /\ UNCHANGED << outVars, socket, boxes, clientVars, histVars >>

(* ... and MailBox::Put. *)
Put(h) ==
    /\ carried[h] # NULL
    /\ boxes' = [boxes EXCEPT ![h][carried[h].box] = Append(@, carried[h])]
    /\ carried' = [carried EXCEPT ![h] = NULL]
    /\ UNCHANGED << outVars, socket, inbox, messageAvailable, clientVars, histVars >>

(* PostOfficeInput::Receive, MailBox::Get. *)
Receive(c) ==
    LET h == Home[c]
        b == Current(c).box
    IN  /\ pc[c] = "ready" /\ Running(c)
        /\ Current(c).op = "receive"
        /\ boxes[h][b] # << >>
        /\ last' = [last EXCEPT ![c] = Head(boxes[h][b])]
        /\ received' = [received EXCEPT ![h][b] = Append(@, Head(boxes[h][b]))]
        /\ boxes' = [boxes EXCEPT ![h][b] = Tail(@)]
        /\ ip' = [ip EXCEPT ![c] = @ + 1]
        /\ UNCHANGED << outVars, socket, inbox, messageAvailable, carried, pc, sent, lost >>

-----------------------------------------------------------------------------
ClientStep(c) ==
    StartSend(c) \/ Acquire(c) \/ NetworkSend(c) \/ WaitSent(c) \/ Release(c) \/ Receive(c)
Worker(h) == Collect(h) \/ Put(h)

Next ==
    \/ \E c \in Client : ClientStep(c)
    \/ \E h \in Host : SendDone(h) \/ PacketArrives(h) \/ Worker(h)

Spec == Init /\ [][Next]_vars

(* Scheduled interrupts come, polls go on, ready threads run. *)
Fairness ==
    /\ \A c \in Client : WF_vars(ClientStep(c))
    /\ \A h \in Host : WF_vars(SendDone(h)) /\ WF_vars(PacketArrives(h)) /\ WF_vars(Worker(h))

FairSpec == Spec /\ Fairness

-----------------------------------------------------------------------------
(* "Only one message can be sent to the network at any one time"           *)
(* (post.cc:320): nothing is on its way out when a client gets to send,    *)
(* and no wake-up is left over.  NetworkOutput::Send relies on it, though  *)
(* its own test of sendBusy could never tell.  While a client waits, the   *)
(* interrupt of its packet is still to come or has given its wake-up.      *)
OneSendAtATime ==
    \A c \in Client :
        /\ pc[c] = "send" => ~sendPending[Home[c]] /\ messageSent[Home[c]] = 0
        /\ pc[c] = "wait" => messageSent[Home[c]] = IF sendPending[Home[c]] THEN 0 ELSE 1

(* The postal worker is called exactly while a packet is buffered: it is   *)
(* never told of a packet that is not there, and none waits unannounced.   *)
WorkerIsTold ==
    \A h \in Host : messageAvailable[h] = IF inbox[h] = NULL THEN 0 ELSE 1

(* The interrupts of the network and the threads that wait for them are in *)
(* step, in both directions.                                               *)
WakeupsExact == OneSendAtATime /\ WorkerIsTold

Held(m) == IF m = NULL THEN << >> ELSE << m >>

(* What has been transmitted to h and is in no box yet: in the worker's    *)
(* hands, in the device and in the socket, and how much is in a box.       *)
UnderWay(h) == Held(carried[h]) \o Held(inbox[h]) \o socket[h]
Done(h) == Len(sent[h]) - Len(UnderWay(h))

(* The mails are those among the first n transmitted that are addressed to *)
(* box b, each once and in the order of transmission: at gives their places*)
(* there.                                                                  *)
ExactlyThoseFor(mails, b, transmitted, n) ==
    \E at \in [1..Len(mails) -> 1..n] :
        /\ \A i, j \in 1..Len(mails) : i < j => at[i] < at[j]
        /\ \A i \in 1..Len(mails) : mails[i] = transmitted[at[i]]
        /\ \A k \in 1..n : transmitted[k].box = b <=> \E i \in 1..Len(mails) : at[i] = k

(* Mail the network did not drop arrives once, in the box it was sent to,  *)
(* in the order of transmission: what is under way was transmitted last,   *)
(* and of the rest each box got what was sent to it.                       *)
MailInOrder ==
    \A h \in Host :
        /\ Done(h) >= 0
        /\ \A k \in 1..Len(UnderWay(h)) : UnderWay(h)[k] = sent[h][Done(h) + k]
        /\ \A b \in Box : ExactlyThoseFor(received[h][b] \o boxes[h][b], b, sent[h], Done(h))

(* Mail arrives once and in order, and every wake-up belongs to one packet.*)
MailExact == WakeupsExact /\ MailInOrder

(* Every Send returns, also when the packet is dropped (post.cc:336).      *)
SendsReturn == \A c \in Client : pc[c] = "acquire" ~> pc[c] = "ready"

(* If the network loses nothing, both sides of Kernel::NetworkTest, and    *)
(* every program that waits for no more than it is sent, finish; and every *)
(* Send returns even if packets are lost.                                  *)
ProgramsFinish == SendsReturn /\ <>(lost \/ \A c \in Client : ~Running(c))
=============================================================================
