---------------------------- MODULE MCPostOffice ----------------------------
(* Programs for PostOffice. *)
EXTENDS PostOffice

Send(to, box, reply) == [op |-> "send", to |-> to, box |-> box, reply |-> reply]
ReceiveFrom(box) == [op |-> "receive", box |-> box]
Reply(reply) == [op |-> "reply", reply |-> reply]

(* Kernel::NetworkTest on host 0 and on host 1: a message to box 0 of the  *)
(* other, its message, an acknowledgement, its acknowledgement in box 1.   *)
NetworkTest(hostName) ==
    << Send(1 - hostName, 0, 1), ReceiveFrom(0), Reply(1), ReceiveFrom(1) >>

(* Next to it client 2 of host 0 writes twice to box 2 of host 1.          *)
Clients == 0..2
HomeOf == [c \in Clients |-> c % 2]
Programs ==
    [c \in Clients |->
       IF c \in {0, 1} THEN NetworkTest(c) ELSE << Send(1, 2, 2), Send(1, 2, 1) >>]
=============================================================================
