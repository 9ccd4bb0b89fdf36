-------------------------- MODULE PostOfficeProofs --------------------------
(***************************************************************************)
(* Proofs about PostOffice, for any number of hosts, boxes and clients, any*)
(* programs and a network that may lose any packets.                       *)
(***************************************************************************)
EXTENDS PostOffice, SequenceTheorems, TLAPS

(* A client is between Acquire and Release exactly while it holds the lock *)
(* of its host, and nothing is left over when nobody waits.                *)
SendInv ==
    /\ \A c \in Client : pc[c] \in {"send", "wait", "release"} <=> sendLock[Home[c]] = c
    /\ OneSendAtATime
    /\ \A h \in Host : (\A c \in Client : Home[c] = h => pc[c] # "wait")
                         => ~sendPending[h] /\ messageSent[h] = 0

(* A client inside Send is at an operation that sends, and one that has    *)
(* received something has the header to reply to.                          *)
ClientInv ==
    \A c \in Client :
        /\ ip[c] > 0
        /\ pc[c] # "ready" => Running(c) /\ Current(c).op \in {"send", "reply"}
        /\ last[c] = NULL => \A j \in 1..(ip[c] - 1) : Program[c][j].op # "receive"

PInv == TypeOK /\ SendInv /\ ClientInv /\ WorkerIsTold /\ MailInOrder

USE PostAssumption, NoMailIsNull

-----------------------------------------------------------------------------
(* Sequences of mails. *)

LEMMA TransmitKeeps ==
    ASSUME NEW m \in Seq(Mail), NEW b \in Box, NEW all \in Seq(Mail), NEW x \in Mail,
           NEW n \in 0..Len(all), ExactlyThoseFor(m, b, all, n)
    PROVE  ExactlyThoseFor(m, b, Append(all, x), n)
  <1>1. \A k \in 1..n : Append(all, x)[k] = all[k]
    BY AppendProperties
  <1>2. PICK at \in [1..Len(m) -> 1..n] :
            /\ \A i, j \in 1..Len(m) : i < j => at[i] < at[j]
            /\ \A i \in 1..Len(m) : m[i] = all[at[i]]
            /\ \A k \in 1..n : all[k].box = b <=> \E i \in 1..Len(m) : at[i] = k
    BY Zenon DEF ExactlyThoseFor
  <1>3. \A i \in 1..Len(m) : at[i] \in 1..n
    BY <1>2, Zenon
  <1>4. \A i \in 1..Len(m) : m[i] = Append(all, x)[at[i]]
    BY <1>1, <1>2, <1>3
  <1>5. \A k \in 1..n : Append(all, x)[k].box = b <=> \E i \in 1..Len(m) : at[i] = k
    BY <1>1, <1>2
  <1> QED  BY <1>2, <1>4, <1>5, Zenon DEF ExactlyThoseFor

LEMMA PutElsewhere ==
    ASSUME NEW m \in Seq(Mail), NEW b \in Box, NEW all \in Seq(Mail),
           NEW n \in Nat, n + 1 <= Len(all), all[n + 1].box # b,
           ExactlyThoseFor(m, b, all, n)
    PROVE  ExactlyThoseFor(m, b, all, n + 1)
  <1>1. PICK at \in [1..Len(m) -> 1..n] :
            /\ \A i, j \in 1..Len(m) : i < j => at[i] < at[j]
            /\ \A i \in 1..Len(m) : m[i] = all[at[i]]
            /\ \A k \in 1..n : all[k].box = b <=> \E i \in 1..Len(m) : at[i] = k
    BY Zenon DEF ExactlyThoseFor
  <1>2. at \in [1..Len(m) -> 1..(n + 1)]
    BY <1>1
  <1>3. \A i \in 1..Len(m) : at[i] # n + 1
    BY <1>1
  <1>4. \A k \in 1..(n + 1) : k \in 1..n \/ k = n + 1
    OBVIOUS
  <1>5. \A k \in 1..(n + 1) : all[k].box = b <=> \E i \in 1..Len(m) : at[i] = k
    BY <1>1, <1>3, <1>4
  <1> QED  BY <1>1, <1>2, <1>5, Zenon DEF ExactlyThoseFor

LEMMA PutHere ==
    ASSUME NEW m \in Seq(Mail), NEW b \in Box, NEW all \in Seq(Mail), NEW x \in Mail,
           NEW n \in Nat, n + 1 <= Len(all), x = all[n + 1], x.box = b,
           ExactlyThoseFor(m, b, all, n)
    PROVE  ExactlyThoseFor(Append(m, x), b, all, n + 1)
  <1>1. PICK at \in [1..Len(m) -> 1..n] :
            /\ \A i, j \in 1..Len(m) : i < j => at[i] < at[j]
            /\ \A i \in 1..Len(m) : m[i] = all[at[i]]
            /\ \A k \in 1..n : all[k].box = b <=> \E i \in 1..Len(m) : at[i] = k
    BY Zenon DEF ExactlyThoseFor
  <1>2. PICK l \in Nat : l = Len(m)
    BY LenProperties
  <1>3. /\ Len(Append(m, x)) = l + 1
        /\ \A i \in 1..l : Append(m, x)[i] = m[i]
        /\ Append(m, x)[l + 1] = x
    BY <1>2, AppendProperties
  <1>4. PICK new : new = [i \in 1..(l + 1) |-> IF i = l + 1 THEN n + 1 ELSE at[i]]
    BY Zenon
  <1>5. /\ new[l + 1] = n + 1
        /\ \A i \in 1..l : new[i] = at[i] /\ at[i] \in 1..n
    BY <1>1, <1>2, <1>4
  <1>6. \A i \in 1..(l + 1) : i \in 1..l \/ i = l + 1
    BY <1>2
  <1>7. new \in [1..(l + 1) -> 1..(n + 1)]
    <2>1. \A i \in 1..(l + 1) : new[i] \in 1..(n + 1)
      BY <1>5, <1>6
    <2> QED  BY <1>4, <2>1
  <1>8. \A i, j \in 1..(l + 1) : i < j => new[i] < new[j]
    <2> SUFFICES ASSUME NEW i \in 1..(l + 1), NEW j \in 1..(l + 1), i < j
                 PROVE  new[i] < new[j]
      OBVIOUS
    <2>1. i \in 1..l
      OBVIOUS
    <2>2. CASE j = l + 1
      BY <1>5, <2>1, <2>2
    <2>3. CASE j \in 1..l
      BY <1>1, <1>2, <1>5, <2>1, <2>3
    <2> QED  BY <1>6, <2>2, <2>3
  <1>9. \A i \in 1..(l + 1) : Append(m, x)[i] = all[new[i]]
    BY <1>1, <1>2, <1>3, <1>5, <1>6
  <1>10. \A k \in 1..(n + 1) : all[k].box = b <=> \E i \in 1..(l + 1) : new[i] = k
    <2> SUFFICES ASSUME NEW k \in 1..(n + 1)
                 PROVE  all[k].box = b <=> \E i \in 1..(l + 1) : new[i] = k
      BY Zenon
    <2>1. l + 1 \in 1..(l + 1) /\ \A i \in 1..l : i \in 1..(l + 1)
      OBVIOUS
    <2>2. CASE k = n + 1
      BY <1>5, <2>1, <2>2
    <2>3. CASE k \in 1..n
      <3>a. all[k].box = b <=> \E i \in 1..l : at[i] = k
        BY <1>1, <1>2, <2>3, Zenon
      <3>1. all[k].box = b <=> \E i \in 1..l : new[i] = k
        BY <1>5, <3>a, Zenon
      <3>2. new[l + 1] # k
        BY <1>5, <2>3
      <3> QED  BY <1>6, <2>1, <3>1, <3>2, Zenon
    <2> QED  BY <2>2, <2>3
  <1>11. PICK am : am = Append(m, x) /\ Len(am) = l + 1
    BY <1>3, Zenon
  <1>12. /\ new \in [1..Len(am) -> 1..(n + 1)]
         /\ \A i, j \in 1..Len(am) : i < j => new[i] < new[j]
         /\ \A i \in 1..Len(am) : am[i] = all[new[i]]
         /\ \A k \in 1..(n + 1) : all[k].box = b <=> \E i \in 1..Len(am) : new[i] = k
    BY <1>7, <1>8, <1>9, <1>10, <1>11, Zenon
  <1>13. ExactlyThoseFor(am, b, all, n + 1)
    BY <1>12, Zenon DEF ExactlyThoseFor
  <1> QED  BY <1>11, <1>13

(* Held(c) \o Held(i) \o s, when its parts change. *)
LEMMA HeldTypes ==
    ASSUME NEW c \in Mail \cup {NULL}, NEW i \in Mail \cup {NULL}, NEW s \in Seq(Mail)
    PROVE  /\ Held(c) \in Seq(Mail) /\ Held(i) \in Seq(Mail)
           /\ Held(c) \o Held(i) \in Seq(Mail)
           /\ Held(c) \o Held(i) \o s \in Seq(Mail)
           /\ Len(Held(c) \o Held(i) \o s) \in Nat
  <1>1. Held(c) \in Seq(Mail) /\ Held(i) \in Seq(Mail)
    BY DEF Held
  <1>2. Held(c) \o Held(i) \in Seq(Mail)
    BY <1>1, ConcatProperties
  <1>3. Held(c) \o Held(i) \o s \in Seq(Mail)
    BY <1>2, ConcatProperties
  <1> QED  BY <1>1, <1>2, <1>3, LenProperties

LEMMA ConcatAppend ==
    ASSUME NEW p \in Seq(Mail), NEW s \in Seq(Mail), NEW x \in Mail
    PROVE  p \o Append(s, x) = Append(p \o s, x)
  <1>1. << x >> \in Seq(Mail)
    OBVIOUS
  <1>2. Append(s, x) = s \o << x >>
    BY AppendIsConcat
  <1>3. Append(p \o s, x) = (p \o s) \o << x >>
    BY ConcatProperties, AppendIsConcat
  <1>4. p \o (s \o << x >>) = (p \o s) \o << x >>
    BY <1>1, ConcatAssociative
  <1> QED  BY <1>2, <1>3, <1>4

LEMMA AppendMail ==
    ASSUME NEW c \in Mail \cup {NULL}, NEW i \in Mail \cup {NULL}, NEW s \in Seq(Mail),
           NEW x \in Mail
    PROVE  Held(c) \o Held(i) \o Append(s, x) = Append(Held(c) \o Held(i) \o s, x)
  <1>1. PICK p \in Seq(Mail) : p = Held(c) \o Held(i)
    BY HeldTypes, Zenon
  <1>2. p \o Append(s, x) = Append(p \o s, x)
    BY ConcatAppend
  <1> QED  BY <1>1, <1>2

LEMMA ArriveMail ==
    ASSUME NEW c \in Mail \cup {NULL}, NEW s \in Seq(Mail), s # << >>
    PROVE  Held(c) \o Held(Head(s)) \o Tail(s) = Held(c) \o Held(NULL) \o s
  <1>1. Head(s) \in Mail /\ Tail(s) \in Seq(Mail)
    BY HeadTailProperties
  <1>2. Held(c) \in Seq(Mail)
    BY HeldTypes, Zenon
  <1>3. Held(Head(s)) = << Head(s) >> /\ << Head(s) >> \in Seq(Mail) /\ Held(NULL) = << >>
    BY <1>1 DEF Held
  <1>4. << Head(s) >> \o Tail(s) = s
    <2>1. Len(s) \in Nat \ {0}
      BY EmptySeq
    <2>2. 1 \in 1..Len(s) /\ Len(s) \in 1..Len(s)
      BY <2>1
    <2>3. SubSeq(s, 1, Len(s)) = << s[1] >> \o SubSeq(s, 2, Len(s))
      BY <2>2, SubSeqRecursiveFirst
    <2>4. SubSeq(s, 1, Len(s)) = s /\ SubSeq(s, 2, Len(s)) = Tail(s)
      BY SubSeqFull, TailIsSubSeq
    <2> QED  BY <2>3, <2>4
  <1>5. (Held(c) \o << Head(s) >>) \o Tail(s) = Held(c) \o (<< Head(s) >> \o Tail(s))
    BY <1>1, <1>2, <1>3, ConcatAssociative
  <1>6. Held(c) \o << >> = Held(c)
    BY <1>2, ConcatEmptySeq
  <1> QED  BY <1>3, <1>4, <1>5, <1>6, Zenon

LEMMA CollectMail ==
    ASSUME NEW i \in Mail, NEW s \in Seq(Mail)
    PROVE  Held(i) \o Held(NULL) \o s = Held(NULL) \o Held(i) \o s
  <1>1. Held(i) = << i >> /\ << i >> \in Seq(Mail) /\ Held(NULL) = << >>
    BY DEF Held
  <1>2. << i >> \o << >> = << i >> /\ << >> \o << i >> = << i >>
    BY <1>1, ConcatEmptySeq
  <1> QED  BY <1>1, <1>2

(* u is v with c in front of it. *)
InFront(c, u, v) ==
    /\ Len(u) = Len(v) + 1 /\ u[1] = c
    /\ \A k \in 1..Len(v) : v[k] = u[k + 1]

LEMMA PutMail ==
    ASSUME NEW c \in Mail, NEW i \in Mail \cup {NULL}, NEW s \in Seq(Mail)
    PROVE  InFront(c, Held(c) \o Held(i) \o s, Held(NULL) \o Held(i) \o s)
  <1> SUFFICES ASSUME NEW u, u = Held(c) \o Held(i) \o s,
                      NEW v, v = Held(NULL) \o Held(i) \o s
               PROVE  InFront(c, u, v)
    BY Zenon
  <1>1. Held(c) = << c >> /\ << c >> \in Seq(Mail) /\ Held(NULL) = << >>
        /\ Held(i) \in Seq(Mail)
    <2>1. Held(c) = << c >> /\ Held(NULL) = << >>
      BY Zenon DEF Held
    <2>2. Held(i) \in Seq(Mail)
      BY HeldTypes, Zenon
    <2> QED  BY <2>1, <2>2
  <1>2. v = Held(i) \o s /\ v \in Seq(Mail)
    BY <1>1, ConcatEmptySeq, ConcatProperties
  <1>3. u = << c >> \o v
    BY <1>1, <1>2, ConcatAssociative
  <1>4. Len(<< c >>) = 1 /\ << c >>[1] = c /\ Len(v) \in Nat
    BY <1>2, LenProperties
  <1>5. /\ Len(u) = 1 + Len(v)
        /\ \A k \in 1..(1 + Len(v)) : u[k] = IF k <= 1 THEN << c >>[k] ELSE v[k - 1]
    BY <1>1, <1>2, <1>3, <1>4, ConcatProperties
  <1>6. \A k \in 1..Len(v) : k + 1 \in 1..(1 + Len(v)) /\ ~(k + 1 <= 1) /\ (k + 1) - 1 = k
    BY <1>4
  <1>7. \A k \in 1..Len(v) : v[k] = u[k + 1]
    BY <1>5, <1>6, Zenon
  <1>8. u[1] = c /\ Len(u) = Len(v) + 1
    <2>1. 1 \in 1..(1 + Len(v))
      BY <1>4
    <2>2. u[1] = << c >>[1]
      BY <1>5, <2>1
    <2>3. Len(u) = Len(v) + 1
      BY <1>4, <1>5
    <2> QED  BY <1>4, <2>2, <2>3
  <1> QED  BY <1>7, <1>8, Zenon DEF InFront

LEMMA ReceiveMail ==
    ASSUME NEW r \in Seq(Mail), NEW s \in Seq(Mail), s # << >>
    PROVE  Append(r, Head(s)) \o Tail(s) = r \o s
  <1>1. Head(s) \in Mail /\ Tail(s) \in Seq(Mail) /\ << Head(s) >> \in Seq(Mail)
    BY HeadTailProperties
  <1>2. << Head(s) >> \o Tail(s) = s
    <2>1. Held(NULL) = << >> /\ Held(Head(s)) = << Head(s) >>
      BY <1>1 DEF Held
    <2>2. << >> \o << Head(s) >> \o Tail(s) = << >> \o << >> \o s
      BY <2>1, ArriveMail
    <2>3. << >> \o << Head(s) >> = << Head(s) >> /\ << >> \o << >> = << >> /\ << >> \o s = s
      BY <1>1, ConcatEmptySeq
    <2> QED  BY <2>2, <2>3
  <1>3. Append(r, Head(s)) = r \o << Head(s) >>
    BY <1>1, AppendIsConcat
  <1> QED  BY <1>1, <1>2, <1>3, ConcatAssociative

-----------------------------------------------------------------------------
(* The operation a client is at. *)

LEMMA CurrentTypes ==
    ASSUME TypeOK, ClientInv, NEW c \in Client, Running(c)
    PROVE  /\ Current(c).op = "send" =>
                Current(c).to \in Host /\ Current(c).box \in Box /\ Current(c).reply \in Box
           /\ Current(c).op = "receive" => Current(c).box \in Box
           /\ Current(c).op = "reply" => Current(c).reply \in Box
  <1>1. ip[c] \in 1..Len(Program[c])
    BY LenProperties DEF TypeOK, ClientInv, Running
  <1>2. Current(c) \in Operation
    BY <1>1, ElementOfSeq DEF Current
  <1> QED  BY <1>2 DEF Operation

LEMMA OutgoingIsMail ==
    ASSUME TypeOK, ClientInv, NEW c \in Client, pc[c] = "send"
    PROVE  Outgoing(c) \in Mail /\ Outgoing(c).to \in Host
  <1>1. Running(c) /\ Current(c).op \in {"send", "reply"}
    BY DEF ClientInv
  <1>2. Home[c] \in Host /\ << c, ip[c] >> \in Client \X Nat
    BY DEF TypeOK
  <1>3. CASE Current(c).op = "send"
    BY <1>1, <1>2, <1>3, CurrentTypes DEF Outgoing, Mail
  <1>4. CASE Current(c).op = "reply"
    <2>1. ip[c] \in 1..Len(Program[c])
      BY <1>1, LenProperties DEF TypeOK, ClientInv, Running
    <2>2. \E j \in 1..(ip[c] - 1) : Program[c][j].op = "receive"
      BY <1>4, <2>1 DEF Current
    <2>3. last[c] # NULL
      BY <2>2 DEF ClientInv
    <2>4. last[c] \in Mail
      BY <2>3 DEF TypeOK
    <2>5. last[c].from \in Host /\ last[c].reply \in Box
      BY <2>4 DEF Mail
    <2> QED  BY <1>1, <1>2, <1>4, <2>5, CurrentTypes DEF Outgoing, Mail
  <1> QED  BY <1>1, <1>3, <1>4

-----------------------------------------------------------------------------
(* Types and the programs' progress. *)

LEMMA InitTypes == Init => TypeOK /\ ClientInv
  <1> SUFFICES ASSUME Init PROVE TypeOK /\ ClientInv
    OBVIOUS
  <1>1. TypeOK
    <2> USE DEF Init, PostOfficeInputInit, PostOfficeOutputInit, NetworkInputInit,
                NetworkOutputInit, AssignNameToSocket, MailBoxInit
    <2>1. << >> \in Seq(Mail)
      OBVIOUS
    <2>2. /\ sendLock \in [Host -> Client \cup {NULL}]
          /\ messageSent \in [Host -> {0, 1}]
          /\ messageAvailable \in [Host -> {0, 1}]
          /\ socket \in [Host -> Seq(Mail)]
          /\ inbox \in [Host -> Mail \cup {NULL}]
          /\ carried \in [Host -> Mail \cup {NULL}]
      BY <2>1
    <2>3. sendBusy \in [Host -> BOOLEAN] /\ sendPending \in [Host -> BOOLEAN] /\ lost \in BOOLEAN
      BY Zenon
    <2>4. /\ boxes \in [Host -> [Box -> Seq(Mail)]]
          /\ received \in [Host -> [Box -> Seq(Mail)]]
          /\ sent \in [Host -> Seq(Mail)]
      BY <2>1
    <2>5. /\ ip \in [Client -> Nat]
          /\ pc \in [Client -> {"ready", "acquire", "send", "wait", "release"}]
          /\ last \in [Client -> Mail \cup {NULL}]
      OBVIOUS
    <2> QED  BY <2>2, <2>3, <2>4, <2>5 DEF TypeOK
  <1>2. ClientInv
    <2> SUFFICES ASSUME NEW c \in Client
                 PROVE  /\ ip[c] > 0 /\ pc[c] = "ready"
                        /\ \A j \in 1..(ip[c] - 1) : Program[c][j].op # "receive"
      BY DEF ClientInv
    <2> QED  BY DEF Init
  <1> QED  BY <1>1, <1>2

LEMMA TypeStep ==
    ASSUME PInv, Next
    PROVE  TypeOK'
  <1> USE DEF TypeOK, outVars, inVars, clientVars, histVars
  <1>0. TypeOK /\ ClientInv /\ SendInv /\ WorkerIsTold
    BY DEF PInv
  <1>1. ASSUME NEW c \in Client, StartSend(c) PROVE TypeOK'
    BY <1>0, <1>1 DEF StartSend
  <1>2. ASSUME NEW c \in Client, Acquire(c) PROVE TypeOK'
    BY <1>0, <1>2 DEF Acquire
  <1>3. ASSUME NEW c \in Client, NetworkSend(c) PROVE TypeOK'
    <2>1. PICK x \in Mail : x = Outgoing(c) /\ x.to \in Host
      BY <1>0, <1>3, OutgoingIsMail DEF NetworkSend
    <2>2. pc' \in [Client -> {"ready", "acquire", "send", "wait", "release"}]
      BY <1>0, <1>3 DEF NetworkSend
    <2>3. sendPending' \in [Host -> BOOLEAN]
      BY <1>0, <1>3 DEF NetworkSend
    <2>4. /\ socket' \in [Host -> Seq(Mail)] /\ sent' \in [Host -> Seq(Mail)]
          /\ lost' \in BOOLEAN
      <3>1. CASE Transmit(Outgoing(c))
        <4>1. \A h \in Host : Append(socket[h], x) \in Seq(Mail) /\ Append(sent[h], x) \in Seq(Mail)
          BY <1>0, AppendProperties
        <4>2. socket' \in [Host -> Seq(Mail)] /\ sent' \in [Host -> Seq(Mail)]
          BY <1>0, <2>1, <3>1, <4>1 DEF Transmit
        <4>3. lost' \in BOOLEAN
          BY <1>0, <3>1 DEF Transmit
        <4> QED  BY <4>2, <4>3
      <3>2. CASE Lose
        BY <1>0, <3>2 DEF Lose
      <3> QED  BY <1>3, <3>1, <3>2 DEF NetworkSend
    <2> QED  BY <1>0, <1>3, <2>2, <2>3, <2>4 DEF NetworkSend
  <1>4. ASSUME NEW c \in Client, WaitSent(c) PROVE TypeOK'
    <2>1. messageSent' \in [Host -> {0, 1}]
      BY <1>0, <1>4 DEF WaitSent
    <2> QED  BY <1>0, <1>4, <2>1 DEF WaitSent
  <1>5. ASSUME NEW c \in Client, Release(c) PROVE TypeOK'
    BY <1>0, <1>5 DEF Release
  <1>6. ASSUME NEW c \in Client, Receive(c) PROVE TypeOK'
    <2>1. PICK h, b : h = Home[c] /\ b = Current(c).box
      OBVIOUS
    <2>2. h \in Host /\ b \in Box
      BY <1>0, <1>6, <2>1, CurrentTypes DEF Receive
    <2>3. /\ boxes[h][b] \in Seq(Mail) /\ received[h][b] \in Seq(Mail)
          /\ boxes[h] \in [Box -> Seq(Mail)] /\ received[h] \in [Box -> Seq(Mail)]
      BY <1>0, <2>2
    <2>4. PICK x \in Mail : /\ x = Head(boxes[h][b])
                            /\ Tail(boxes[h][b]) \in Seq(Mail)
                            /\ Append(received[h][b], x) \in Seq(Mail)
      BY <1>6, <2>1, <2>3, HeadTailProperties, AppendProperties DEF Receive
    <2>5. /\ last' = [last EXCEPT ![c] = x]
          /\ received' = [received EXCEPT ![h] =
                          [received[h] EXCEPT ![b] = Append(received[h][b], x)]]
          /\ boxes' = [boxes EXCEPT ![h] = [boxes[h] EXCEPT ![b] = Tail(boxes[h][b])]]
      BY <1>6, <2>1, <2>4 DEF Receive
    <2>6. boxes' \in [Host -> [Box -> Seq(Mail)]] /\ received' \in [Host -> [Box -> Seq(Mail)]]
      <3>1. /\ [received[h] EXCEPT ![b] = Append(received[h][b], x)] \in [Box -> Seq(Mail)]
            /\ [boxes[h] EXCEPT ![b] = Tail(boxes[h][b])] \in [Box -> Seq(Mail)]
        BY <2>3, <2>4, Zenon
      <3> QED  BY <1>0, <2>5, <3>1, Zenon
    <2>7. last' \in [Client -> Mail \cup {NULL}] /\ ip' \in [Client -> Nat]
      BY <1>0, <1>6, <2>5 DEF Receive
    <2> QED  BY <1>0, <1>6, <2>6, <2>7, Zenon DEF Receive
  <1>7. ASSUME NEW h \in Host, SendDone(h) PROVE TypeOK'
    <2>1. messageSent[h] = 0
      <3>1. PICK c \in Client : Home[c] = h /\ pc[c] = "wait"
        BY <1>0, <1>7 DEF SendDone, SendInv
      <3> QED  BY <1>0, <1>7, <3>1 DEF SendDone, SendInv, OneSendAtATime
    <2>2. messageSent' \in [Host -> {0, 1}]
      BY <1>0, <1>7, <2>1 DEF SendDone, CallBackOut
    <2>3. sendPending' \in [Host -> BOOLEAN] /\ sendBusy' \in [Host -> BOOLEAN]
      BY <1>0, <1>7 DEF SendDone
    <2> QED  BY <1>0, <1>7, <2>2, <2>3 DEF SendDone
  <1>8. ASSUME NEW h \in Host, PacketArrives(h) PROVE TypeOK'
    <2>1. socket[h] \in Seq(Mail) /\ socket[h] # << >>
      BY <1>0, <1>8 DEF PacketArrives, PollSocket
    <2>2. Head(socket[h]) \in Mail /\ Tail(socket[h]) \in Seq(Mail)
      BY <2>1, HeadTailProperties
    <2>3. messageAvailable[h] = 0
      BY <1>0, <1>8 DEF PacketArrives, WorkerIsTold
    <2>4. messageAvailable' \in [Host -> {0, 1}]
      BY <1>0, <1>8, <2>3 DEF PacketArrives, CallBackIn
    <2>5. inbox' \in [Host -> Mail \cup {NULL}] /\ socket' \in [Host -> Seq(Mail)]
      BY <1>0, <1>8, <2>2 DEF PacketArrives, ReadFromSocket
    <2> QED  BY <1>0, <1>8, <2>4, <2>5 DEF PacketArrives
  <1>9. ASSUME NEW h \in Host, Collect(h) PROVE TypeOK'
    <2>1. messageAvailable' \in [Host -> {0, 1}]
      BY <1>0, <1>9 DEF Collect
    <2>2. carried' \in [Host -> Mail \cup {NULL}] /\ inbox' \in [Host -> Mail \cup {NULL}]
      BY <1>0, <1>9 DEF Collect
    <2> QED  BY <1>0, <1>9, <2>1, <2>2 DEF Collect
  <1>10. ASSUME NEW h \in Host, Put(h) PROVE TypeOK'
    <2>1. PICK x \in Mail : x = carried[h] /\ x.box \in Box
      BY <1>0, <1>10 DEF Put, Mail
    <2>2. /\ boxes[h] \in [Box -> Seq(Mail)]
          /\ Append(boxes[h][x.box], x) \in Seq(Mail)
      BY <1>0, <2>1, AppendProperties
    <2>3. boxes' = [boxes EXCEPT ![h] = [boxes[h] EXCEPT ![x.box] = Append(boxes[h][x.box], x)]]
      BY <1>10, <2>1 DEF Put
    <2>4. boxes' \in [Host -> [Box -> Seq(Mail)]]
      <3>1. [boxes[h] EXCEPT ![x.box] = Append(boxes[h][x.box], x)] \in [Box -> Seq(Mail)]
        BY <2>1, <2>2
      <3> QED  BY <1>0, <2>3, <3>1, Zenon
    <2>5. carried' \in [Host -> Mail \cup {NULL}]
      BY <1>0, <1>10 DEF Put
    <2> QED  BY <1>0, <1>10, <2>4, <2>5, Zenon DEF Put
  <1> QED
    BY <1>1, <1>2, <1>3, <1>4, <1>5, <1>6, <1>7, <1>8, <1>9, <1>10, Zenon
    DEF Next, ClientStep, Worker

(* What a client step leaves of the other clients, and its own new place. *)
LEMMA ClientStep1 ==
    ASSUME PInv, NEW c \in Client, ClientStep(c)
    PROVE  /\ \A d \in Client \ {c} : pc'[d] = pc[d] /\ ip'[d] = ip[d] /\ last'[d] = last[d]
           /\ \/ /\ pc'[c] \in {"acquire", "send", "wait", "release"} /\ ip'[c] = ip[c]
                 /\ Running(c) /\ Current(c).op \in {"send", "reply"} /\ last'[c] = last[c]
              \/ /\ pc'[c] = "ready" /\ ip'[c] = ip[c] + 1
                 /\ Current(c).op \in {"send", "reply"} /\ last'[c] = last[c]
              \/ /\ pc'[c] = "ready" /\ ip'[c] = ip[c] + 1 /\ last'[c] # NULL
  <1> USE DEF clientVars
  <1>0. TypeOK /\ ClientInv
    BY DEF PInv
  <1>1. CASE StartSend(c)
    BY <1>0, <1>1 DEF StartSend, TypeOK
  <1>2. CASE Acquire(c)
    BY <1>0, <1>2 DEF Acquire, TypeOK, ClientInv
  <1>3. CASE NetworkSend(c)
    BY <1>0, <1>3 DEF NetworkSend, TypeOK, ClientInv
  <1>4. CASE WaitSent(c)
    BY <1>0, <1>4 DEF WaitSent, TypeOK, ClientInv
  <1>5. CASE Release(c)
    BY <1>0, <1>5 DEF Release, TypeOK, ClientInv
  <1>6. CASE Receive(c)
    <2>1. boxes[Home[c]][Current(c).box] \in Seq(Mail)
      BY <1>0, <1>6, CurrentTypes DEF Receive, TypeOK
    <2>2. Head(boxes[Home[c]][Current(c).box]) \in Mail
      BY <1>6, <2>1, HeadTailProperties DEF Receive
    <2>3. last'[c] # NULL /\ \A d \in Client \ {c} : last'[d] = last[d]
      BY <1>0, <1>6, <2>2 DEF Receive, TypeOK
    <2> QED  BY <1>0, <1>6, <2>3 DEF Receive, TypeOK
  <1> QED  BY <1>1, <1>2, <1>3, <1>4, <1>5, <1>6 DEF ClientStep

LEMMA ClientInvStep ==
    ASSUME PInv, Next
    PROVE  ClientInv'
  <1>0. TypeOK /\ ClientInv /\ TypeOK'
    BY TypeStep DEF PInv
  <1>1. ASSUME NEW c \in Client, ClientStep(c) PROVE ClientInv'
    <2> SUFFICES ASSUME NEW d \in Client
                 PROVE  /\ ip'[d] > 0
                        /\ pc'[d] # "ready" =>
                             /\ ip'[d] <= Len(Program[d])
                             /\ Program[d][ip'[d]].op \in {"send", "reply"}
                        /\ last'[d] = NULL =>
                             \A j \in 1..(ip'[d] - 1) : Program[d][j].op # "receive"
      BY DEF ClientInv, Running, Current
    <2>1. CASE d # c
      <3>1. pc'[d] = pc[d] /\ ip'[d] = ip[d] /\ last'[d] = last[d]
        BY <1>1, <2>1, ClientStep1
      <3> QED  BY <1>0, <3>1, Zenon DEF ClientInv, Running, Current
    <2>2. CASE d = c
      <3>1. ip[c] \in Nat /\ ip[c] > 0
        BY <1>0 DEF TypeOK, ClientInv
      <3>2. CASE /\ pc'[c] \in {"acquire", "send", "wait", "release"} /\ ip'[c] = ip[c]
                 /\ Running(c) /\ Current(c).op \in {"send", "reply"} /\ last'[c] = last[c]
        BY <1>0, <2>2, <3>1, <3>2 DEF ClientInv, Running, Current
      <3>3. CASE /\ pc'[c] = "ready" /\ ip'[c] = ip[c] + 1
                 /\ Current(c).op \in {"send", "reply"} /\ last'[c] = last[c]
        <4>1. \A j \in 1..(ip'[c] - 1) : j \in 1..(ip[c] - 1) \/ j = ip[c]
          BY <3>1, <3>3
        <4>2. last'[c] = NULL => \A j \in 1..(ip'[c] - 1) : Program[c][j].op # "receive"
          BY <1>0, <3>3, <4>1, Zenon DEF ClientInv, Current
        <4>3. ip'[c] > 0
          BY <3>1, <3>3
        <4> QED  BY <2>2, <3>3, <4>2, <4>3
      <3>4. CASE pc'[c] = "ready" /\ ip'[c] = ip[c] + 1 /\ last'[c] # NULL
        BY <2>2, <3>1, <3>4
      <3> QED  BY <1>1, <3>2, <3>3, <3>4, ClientStep1
    <2> QED  BY <2>1, <2>2
  <1>2. ASSUME NEW h \in Host, SendDone(h) \/ PacketArrives(h) \/ Worker(h) PROVE ClientInv'
    <2>1. UNCHANGED << ip, pc, last >>
      BY <1>2 DEF SendDone, PacketArrives, Worker, Collect, Put, clientVars
    <2> QED  BY <1>0, <2>1 DEF ClientInv, Running, Current
  <1> QED  BY <1>1, <1>2 DEF Next

-----------------------------------------------------------------------------
(* The lock and the wake-ups of the senders. *)

LEMMA SendInvStep ==
    ASSUME PInv, Next
    PROVE  SendInv'
  <1>0. TypeOK /\ SendInv
    BY DEF PInv
  <1> USE DEF outVars, clientVars
  (* Two clients of one host are not both between Acquire and Release. *)
  <1>a. \A c, d \in Client :
           Home[c] = Home[d] /\ pc[c] \in {"send", "wait", "release"}
             /\ pc[d] \in {"send", "wait", "release"} => c = d
    BY <1>0 DEF SendInv
  <1>b. \A c \in Client : Home[c] \in Host /\ c # NULL
    OBVIOUS
  <1>1. ASSUME NEW c \in Client, StartSend(c) PROVE SendInv'
    <2>1. /\ UNCHANGED << sendLock, messageSent, sendPending >>
          /\ pc[c] = "ready" /\ pc'[c] = "acquire" /\ \A d \in Client : d # c => pc'[d] = pc[d]
      BY <1>0, <1>1 DEF StartSend, TypeOK
    <2> QED  BY <1>0, <2>1 DEF SendInv, OneSendAtATime
  <1>2. ASSUME NEW c \in Client, Acquire(c) PROVE SendInv'
    <2>1. /\ UNCHANGED << messageSent, sendPending >>
          /\ pc[c] = "acquire" /\ pc'[c] = "send" /\ \A d \in Client : d # c => pc'[d] = pc[d]
          /\ sendLock[Home[c]] = NULL /\ sendLock'[Home[c]] = c
          /\ \A h \in Host : h # Home[c] => sendLock'[h] = sendLock[h]
      BY <1>0, <1>2 DEF Acquire, TypeOK
    <2>2. \A d \in Client : Home[d] = Home[c] => pc[d] \notin {"send", "wait", "release"}
      BY <1>0, <1>b, <2>1 DEF SendInv
    <2>3. ~sendPending[Home[c]] /\ messageSent[Home[c]] = 0
      BY <1>0, <1>b, <2>2 DEF SendInv
    <2>4. \A d \in Client : pc'[d] \in {"send", "wait", "release"} <=> sendLock'[Home[d]] = d
      BY <1>0, <1>b, <2>1, <2>2 DEF SendInv
    <2>5. OneSendAtATime'
      BY <1>0, <2>1, <2>3 DEF SendInv, OneSendAtATime
    <2>6. \A h \in Host : (\A d \in Client : Home[d] = h => pc'[d] # "wait")
                             => ~sendPending'[h] /\ messageSent'[h] = 0
      BY <1>0, <2>1 DEF SendInv
    <2> QED  BY <2>4, <2>5, <2>6 DEF SendInv
  <1>3. ASSUME NEW c \in Client, NetworkSend(c) PROVE SendInv'
    <2>1. /\ UNCHANGED << messageSent, sendLock >>
          /\ pc[c] = "send" /\ pc'[c] = "wait" /\ \A d \in Client : d # c => pc'[d] = pc[d]
          /\ sendPending'[Home[c]]
          /\ \A h \in Host : h # Home[c] => (sendPending'[h] <=> sendPending[h])
      BY <1>0, <1>3 DEF NetworkSend, TypeOK
    <2>2. messageSent[Home[c]] = 0
      BY <1>0, <2>1 DEF SendInv, OneSendAtATime
    <2>3. \A d \in Client : pc'[d] \in {"send", "wait", "release"} <=> sendLock'[Home[d]] = d
      BY <1>0, <2>1 DEF SendInv
    <2>4. \A d \in Client : d # c /\ pc[d] \in {"send", "wait"} => Home[d] # Home[c]
      BY <1>a, <2>1
    <2>5. OneSendAtATime'
      BY <1>0, <1>b, <2>1, <2>2, <2>4 DEF SendInv, OneSendAtATime
    <2>6. \A h \in Host : (\A d \in Client : Home[d] = h => pc'[d] # "wait")
                             => ~sendPending'[h] /\ messageSent'[h] = 0
      BY <1>0, <2>1 DEF SendInv
    <2> QED  BY <2>3, <2>5, <2>6 DEF SendInv
  <1>4. ASSUME NEW c \in Client, WaitSent(c) PROVE SendInv'
    <2>1. /\ UNCHANGED << sendPending, sendLock >>
          /\ pc[c] = "wait" /\ pc'[c] = "release" /\ \A d \in Client : d # c => pc'[d] = pc[d]
          /\ messageSent[Home[c]] > 0 /\ messageSent'[Home[c]] = messageSent[Home[c]] - 1
          /\ \A h \in Host : h # Home[c] => messageSent'[h] = messageSent[h]
      BY <1>0, <1>4 DEF WaitSent, TypeOK
    <2>2. ~sendPending[Home[c]] /\ messageSent'[Home[c]] = 0
      BY <1>0, <2>1 DEF SendInv, OneSendAtATime
    <2>3. \A d \in Client : pc'[d] \in {"send", "wait", "release"} <=> sendLock'[Home[d]] = d
      BY <1>0, <2>1 DEF SendInv
    <2>4. \A d \in Client : d # c /\ pc[d] \in {"send", "wait"} => Home[d] # Home[c]
      BY <1>a, <2>1
    <2>5. OneSendAtATime'
      BY <1>0, <1>b, <2>1, <2>4 DEF SendInv, OneSendAtATime
    <2>6. \A h \in Host : (\A d \in Client : Home[d] = h => pc'[d] # "wait")
                             => ~sendPending'[h] /\ messageSent'[h] = 0
      BY <1>0, <2>1, <2>2 DEF SendInv
    <2> QED  BY <2>3, <2>5, <2>6 DEF SendInv
  <1>5. ASSUME NEW c \in Client, Release(c) PROVE SendInv'
    <2>1. /\ UNCHANGED << sendPending, messageSent >>
          /\ pc[c] = "release" /\ pc'[c] = "ready" /\ \A d \in Client : d # c => pc'[d] = pc[d]
          /\ sendLock'[Home[c]] = NULL
          /\ \A h \in Host : h # Home[c] => sendLock'[h] = sendLock[h]
      BY <1>0, <1>5 DEF Release, TypeOK
    <2>2. \A d \in Client : d # c /\ pc[d] \in {"send", "wait", "release"} => Home[d] # Home[c]
      BY <1>a, <2>1
    <2>3. \A d \in Client : pc'[d] \in {"send", "wait", "release"} <=> sendLock'[Home[d]] = d
      BY <1>0, <1>b, <2>1, <2>2 DEF SendInv
    <2>4. OneSendAtATime'
      BY <1>0, <2>1 DEF SendInv, OneSendAtATime
    <2>5. \A h \in Host : (\A d \in Client : Home[d] = h => pc'[d] # "wait")
                             => ~sendPending'[h] /\ messageSent'[h] = 0
      BY <1>0, <2>1 DEF SendInv
    <2> QED  BY <2>3, <2>4, <2>5 DEF SendInv
  <1>6. ASSUME NEW h \in Host, SendDone(h) PROVE SendInv'
    <2>1. /\ UNCHANGED << sendLock, pc >>
          /\ sendPending[h] /\ ~sendPending'[h] /\ messageSent'[h] = messageSent[h] + 1
          /\ \A g \in Host : g # h => /\ sendPending'[g] <=> sendPending[g]
                                      /\ messageSent'[g] = messageSent[g]
      BY <1>0, <1>6 DEF SendDone, CallBackOut, TypeOK
    <2>2. PICK c \in Client : Home[c] = h /\ pc[c] = "wait"
      BY <1>0, <2>1 DEF SendInv
    <2>3. messageSent'[h] = 1
      BY <1>0, <2>1, <2>2 DEF SendInv, OneSendAtATime
    <2>4. \A d \in Client : pc'[d] \in {"send", "wait", "release"} <=> sendLock'[Home[d]] = d
      BY <1>0, <2>1 DEF SendInv
    <2>5. \A d \in Client : pc[d] = "send" => Home[d] # h
      BY <1>a, <2>2
    <2>6. OneSendAtATime'
      BY <1>0, <1>b, <2>1, <2>3, <2>5 DEF SendInv, OneSendAtATime
    <2>7. \A g \in Host : (\A d \in Client : Home[d] = g => pc'[d] # "wait")
                             => ~sendPending'[g] /\ messageSent'[g] = 0
      BY <1>0, <2>1, <2>2 DEF SendInv
    <2> QED  BY <2>4, <2>6, <2>7 DEF SendInv
  <1>7. ASSUME UNCHANGED << sendLock, messageSent, sendPending, pc >> PROVE SendInv'
    BY <1>0, <1>7 DEF SendInv, OneSendAtATime
  <1>8. ASSUME NEW c \in Client, Receive(c) PROVE SendInv'
    BY <1>7, <1>8 DEF Receive
  <1>9. ASSUME NEW h \in Host, PacketArrives(h) \/ Worker(h) PROVE SendInv'
    BY <1>7, <1>9 DEF PacketArrives, Worker, Collect, Put
  <1> QED
    BY <1>1, <1>2, <1>3, <1>4, <1>5, <1>6, <1>8, <1>9 DEF Next, ClientStep

LEMMA WorkerStep ==
    ASSUME PInv, Next
    PROVE  WorkerIsTold'
  <1>0. TypeOK /\ WorkerIsTold
    BY DEF PInv
  <1>1. ASSUME NEW h \in Host, PacketArrives(h) PROVE WorkerIsTold'
    <2>1. Head(socket[h]) # NULL
      BY <1>0, <1>1, HeadTailProperties DEF PacketArrives, PollSocket, TypeOK
    <2>2. /\ inbox[h] = NULL /\ inbox'[h] # NULL
          /\ messageAvailable'[h] = messageAvailable[h] + 1
          /\ \A g \in Host : g # h
                  => inbox'[g] = inbox[g] /\ messageAvailable'[g] = messageAvailable[g]
      BY <1>0, <1>1, <2>1 DEF PacketArrives, ReadFromSocket, CallBackIn, TypeOK
    <2> QED  BY <1>0, <2>2 DEF WorkerIsTold
  <1>2. ASSUME NEW h \in Host, Collect(h) PROVE WorkerIsTold'
    <2>1. /\ inbox'[h] = NULL
          /\ messageAvailable'[h] = messageAvailable[h] - 1 /\ messageAvailable[h] > 0
          /\ messageAvailable[h] \in {0, 1}
          /\ \A g \in Host : g # h
                  => inbox'[g] = inbox[g] /\ messageAvailable'[g] = messageAvailable[g]
      BY <1>0, <1>2 DEF Collect, TypeOK
    <2> QED  BY <1>0, <2>1 DEF WorkerIsTold
  <1>3. ASSUME UNCHANGED << inbox, messageAvailable >> PROVE WorkerIsTold'
    BY <1>0, <1>3 DEF WorkerIsTold
  <1>4. ASSUME NEW c \in Client, ClientStep(c) PROVE WorkerIsTold'
    BY <1>3, <1>4 DEF ClientStep, StartSend, Acquire, NetworkSend, WaitSent,
           Release, Receive, inVars
  <1>5. ASSUME NEW h \in Host, SendDone(h) \/ Put(h) PROVE WorkerIsTold'
    BY <1>3, <1>5 DEF SendDone, Put, inVars
  <1> QED  BY <1>1, <1>2, <1>4, <1>5 DEF Next, Worker

-----------------------------------------------------------------------------
(* The way of the mail. *)

(* The clause of MailInOrder for one host. *)
HostInOrder(h) ==
    /\ Done(h) >= 0
    /\ \A k \in 1..Len(UnderWay(h)) : UnderWay(h)[k] = sent[h][Done(h) + k]
    /\ \A b \in Box : ExactlyThoseFor(received[h][b] \o boxes[h][b], b, sent[h], Done(h))

LEMMA HostTypes ==
    ASSUME TypeOK, NEW h \in Host
    PROVE  /\ carried[h] \in Mail \cup {NULL} /\ inbox[h] \in Mail \cup {NULL}
           /\ socket[h] \in Seq(Mail) /\ sent[h] \in Seq(Mail)
           /\ Len(sent[h]) \in Nat
           /\ UnderWay(h) \in Seq(Mail) /\ Len(UnderWay(h)) \in Nat
           /\ Done(h) \in Int
           /\ \A b \in Box : /\ received[h][b] \in Seq(Mail) /\ boxes[h][b] \in Seq(Mail)
                             /\ received[h][b] \o boxes[h][b] \in Seq(Mail)
  <1>1. /\ carried[h] \in Mail \cup {NULL} /\ inbox[h] \in Mail \cup {NULL}
        /\ socket[h] \in Seq(Mail) /\ sent[h] \in Seq(Mail)
    BY DEF TypeOK
  <1>2. UnderWay(h) \in Seq(Mail)
    BY <1>1, HeldTypes, Zenon DEF UnderWay
  <1>3. Len(sent[h]) \in Nat /\ Len(UnderWay(h)) \in Nat
    BY <1>1, <1>2, LenProperties
  <1>4. Done(h) \in Int
    BY <1>3 DEF Done
  <1>5. \A b \in Box : /\ received[h][b] \in Seq(Mail) /\ boxes[h][b] \in Seq(Mail)
                       /\ received[h][b] \o boxes[h][b] \in Seq(Mail)
    BY ConcatProperties DEF TypeOK
  <1> QED  BY <1>1, <1>2, <1>3, <1>4, <1>5

(* Mail that only moves on along its way stays in order. *)
LEMMA HostKept ==
    ASSUME NEW h \in Host, HostInOrder(h), sent'[h] = sent[h],
           UnderWay(h)' = UnderWay(h),
           \A b \in Box : received'[h][b] \o boxes'[h][b] = received[h][b] \o boxes[h][b]
    PROVE  HostInOrder(h)'
  <1>1. Done(h)' = Done(h)
    BY DEF Done
  <1> QED  BY <1>1, Zenon DEF HostInOrder

LEMMA HostTransmit ==
    ASSUME TypeOK, NEW h \in Host, HostInOrder(h), NEW x \in Mail,
           sent'[h] = Append(sent[h], x), socket'[h] = Append(socket[h], x),
           carried'[h] = carried[h], inbox'[h] = inbox[h],
           received'[h] = received[h], boxes'[h] = boxes[h]
    PROVE  HostInOrder(h)'
  <1>1. PICK u \in Seq(Mail) : u = UnderWay(h)
    BY HostTypes
  <1>2. UnderWay(h)' = Append(u, x)
    <2>1. PICK cm \in Mail \cup {NULL}, im \in Mail \cup {NULL}, so \in Seq(Mail) :
             cm = carried[h] /\ im = inbox[h] /\ so = socket[h]
      BY HostTypes
    <2>2. u = Held(cm) \o Held(im) \o so /\ UnderWay(h)' = Held(cm) \o Held(im) \o Append(so, x)
      BY <1>1, <2>1 DEF UnderWay
    <2>3. Held(cm) \o Held(im) \o Append(so, x) = Append(Held(cm) \o Held(im) \o so, x)
      BY AppendMail
    <2> QED  BY <2>2, <2>3
  <1>3. PICK s \in Seq(Mail) : s = sent[h]
    BY HostTypes
  <1>4. PICK n \in Nat : n = Done(h) /\ n = Len(s) - Len(u) /\ Len(u) \in Nat /\ Len(s) \in Nat
    <2>1. Len(u) \in Nat /\ Len(s) \in Nat
      BY LenProperties
    <2>2. Done(h) = Len(s) - Len(u) /\ Done(h) >= 0
      BY <1>1, <1>3 DEF HostInOrder, Done
    <2>3. Len(s) - Len(u) \in Nat
      BY <2>1, <2>2
    <2> QED  BY <2>1, <2>2, <2>3, Zenon
  <1>5. /\ Len(Append(u, x)) = Len(u) + 1 /\ Append(u, x)[Len(u) + 1] = x
        /\ \A k \in 1..Len(u) : Append(u, x)[k] = u[k]
        /\ Len(Append(s, x)) = Len(s) + 1 /\ Append(s, x)[Len(s) + 1] = x
        /\ \A k \in 1..Len(s) : Append(s, x)[k] = s[k]
    BY AppendProperties
  <1>6. Done(h)' = n
    <2>1. Done(h)' = Len(Append(s, x)) - Len(Append(u, x))
      BY <1>2, <1>3 DEF Done
    <2> QED  BY <1>4, <1>5, <2>1
  <1>7. \A k \in 1..(Len(u) + 1) : Append(u, x)[k] = Append(s, x)[n + k]
    <2> SUFFICES ASSUME NEW k \in 1..(Len(u) + 1) PROVE Append(u, x)[k] = Append(s, x)[n + k]
      BY Zenon
    <2>1. CASE k = Len(u) + 1
      <3>1. n + k = Len(s) + 1
        BY <1>4, <2>1
      <3> QED  BY <1>5, <2>1, <3>1
    <2>2. CASE k \in 1..Len(u)
      <3>1. n + k \in 1..Len(s)
        BY <1>4, <2>2
      <3>2. u[k] = s[n + k]
        BY <1>1, <1>3, <1>4, <2>2, Zenon DEF HostInOrder
      <3> QED  BY <1>5, <2>2, <3>1, <3>2
    <2>3. \A l \in Nat : \A j \in 1..(l + 1) : j = l + 1 \/ j \in 1..l
      OBVIOUS
    <2>4. k = Len(u) + 1 \/ k \in 1..Len(u)
      BY <1>4, <2>3
    <2> QED  BY <2>1, <2>2, <2>4, Zenon
  <1>8. ASSUME NEW b \in Box
        PROVE  ExactlyThoseFor(received'[h][b] \o boxes'[h][b], b, Append(s, x), n)
    <2>1. PICK m \in Seq(Mail) : m = received[h][b] \o boxes[h][b]
      BY HostTypes, Zenon
    <2>2. ExactlyThoseFor(m, b, s, n)
      BY <1>3, <1>4, <2>1 DEF HostInOrder
    <2>3. n \in 0..Len(s)
      BY <1>4
    <2>4. ExactlyThoseFor(m, b, Append(s, x), n)
      BY <2>2, <2>3, TransmitKeeps
    <2> QED  BY <2>1, <2>4
  <1> QED  BY <1>2, <1>3, <1>4, <1>5, <1>6, <1>7, <1>8 DEF HostInOrder

LEMMA HostPut ==
    ASSUME TypeOK, NEW h \in Host, HostInOrder(h), NEW x \in Mail, x = carried[h],
           carried'[h] = NULL, inbox'[h] = inbox[h], socket'[h] = socket[h],
           sent'[h] = sent[h], received'[h] = received[h],
           boxes'[h][x.box] = Append(boxes[h][x.box], x),
           \A b \in Box : b # x.box => boxes'[h][b] = boxes[h][b]
    PROVE  HostInOrder(h)'
  <1>a. PICK im \in Mail \cup {NULL}, so \in Seq(Mail) : im = inbox[h] /\ so = socket[h]
    BY HostTypes
  <1>1. PICK u : u = UnderWay(h) /\ u = Held(x) \o Held(im) \o so
    BY <1>a, Zenon DEF UnderWay
  <1>2. PICK v : v = UnderWay(h)' /\ v = Held(NULL) \o Held(im) \o so
    BY <1>a, Zenon DEF UnderWay
  <1>3. /\ Len(u) = Len(v) + 1 /\ u[1] = x
        /\ \A k \in 1..Len(v) : v[k] = u[k + 1]
    <2>1. u = Held(x) \o Held(im) \o so /\ v = Held(NULL) \o Held(im) \o so
      BY <1>1, <1>2
    <2>2. InFront(x, Held(x) \o Held(im) \o so, Held(NULL) \o Held(im) \o so)
      BY <1>a, PutMail
    <2>3. InFront(x, u, v)
      BY <2>1, <2>2
    <2> QED  BY <2>3 DEF InFront
  <1>4. Len(v) \in Nat
    <2>1. NULL \in Mail \cup {NULL}
      OBVIOUS
    <2> QED  BY <1>a, <1>2, <2>1, HeldTypes, Zenon
  <1>5. PICK s \in Seq(Mail) : s = sent[h] /\ Len(s) \in Nat
    BY HostTypes
  <1>6. PICK n \in Nat : n = Done(h) /\ n = Len(s) - Len(u)
    <2>1. Done(h) = Len(s) - Len(u) /\ Done(h) >= 0
      BY <1>1, <1>5 DEF HostInOrder, Done
    <2>2. Len(s) - Len(u) \in Nat
      BY <1>3, <1>4, <1>5, <2>1
    <2> QED  BY <2>1, <2>2, Zenon
  <1>7. Done(h)' = n + 1 /\ n + 1 <= Len(s)
    <2>1. Done(h)' = Len(s) - Len(v)
      BY <1>2, <1>5 DEF Done
    <2> QED  BY <1>3, <1>4, <1>5, <1>6, <2>1
  <1>8. \A k \in 1..Len(u) : u[k] = s[n + k]
    BY <1>1, <1>5, <1>6, Zenon DEF HostInOrder
  <1>9. x = s[n + 1]
    <2>1. 1 \in 1..Len(u)
      BY <1>3, <1>4
    <2> QED  BY <1>3, <1>8, <2>1
  <1>10. \A k \in 1..Len(v) : v[k] = s[(n + 1) + k]
    <2> SUFFICES ASSUME NEW k \in 1..Len(v) PROVE v[k] = s[(n + 1) + k]
      BY Zenon
    <2>1. k + 1 \in 1..Len(u) /\ n + (k + 1) = (n + 1) + k
      BY <1>3, <1>4
    <2> QED  BY <1>3, <1>8, <2>1
  <1>11. ASSUME NEW b \in Box
         PROVE  ExactlyThoseFor(received'[h][b] \o boxes'[h][b], b, s, n + 1)
    <2>1. PICK m \in Seq(Mail) : m = received[h][b] \o boxes[h][b]
      BY HostTypes, Zenon
    <2>2. ExactlyThoseFor(m, b, s, n)
      BY <1>5, <1>6, <2>1 DEF HostInOrder
    <2>3. CASE b = x.box
      <3>1. received[h][b] \o Append(boxes[h][b], x) = Append(m, x)
        <4>1. PICK r \in Seq(Mail), bx \in Seq(Mail) : r = received[h][b] /\ bx = boxes[h][b]
          BY HostTypes
        <4>2. r \o Append(bx, x) = Append(r \o bx, x)
          BY ConcatAppend, Zenon
        <4> QED  BY <2>1, <4>1, <4>2, Zenon
      <3>2. ExactlyThoseFor(Append(m, x), b, s, n + 1)
        BY <1>7, <1>9, <2>2, <2>3, PutHere
      <3>3. received'[h][b] \o boxes'[h][b] = Append(m, x)
        BY <2>3, <3>1, Zenon
      <3> QED  BY <3>2, <3>3
    <2>4. CASE b # x.box
      <3>1. ExactlyThoseFor(m, b, s, n + 1)
        BY <1>7, <1>9, <2>2, <2>4, PutElsewhere
      <3> QED  BY <2>1, <2>4, <3>1
    <2> QED  BY <2>3, <2>4
  <1> QED
    <2>1. n + 1 >= 0
      OBVIOUS
    <2> QED  BY <1>2, <1>5, <1>7, <1>10, <1>11, <2>1 DEF HostInOrder

LEMMA MailStep ==
    ASSUME PInv, Next
    PROVE  MailInOrder'
  <1>0. TypeOK /\ ClientInv /\ WorkerIsTold /\ \A h \in Host : HostInOrder(h)
    BY DEF PInv, MailInOrder, HostInOrder
  <1> SUFFICES ASSUME NEW h \in Host PROVE HostInOrder(h)'
    BY DEF MailInOrder, HostInOrder
  <1> USE DEF inVars, histVars
  <1>1. ASSUME UNCHANGED << carried, inbox, socket, sent, received, boxes >>
        PROVE  HostInOrder(h)'
    BY <1>0, <1>1, HostKept DEF UnderWay
  <1>2. ASSUME NEW c \in Client, NetworkSend(c) PROVE HostInOrder(h)'
    <2>1. CASE Lose
      BY <1>1, <1>2, <2>1 DEF NetworkSend, Lose
    <2>2. CASE Transmit(Outgoing(c))
      <3>1. PICK x \in Mail : x = Outgoing(c) /\ x.to \in Host
        BY <1>0, <1>2, OutgoingIsMail DEF NetworkSend
      <3>2. CASE h = x.to
        <4>1. sent'[h] = Append(sent[h], x) /\ socket'[h] = Append(socket[h], x)
          BY <1>0, <2>2, <3>1, <3>2, Zenon DEF Transmit, TypeOK
        <4> QED  BY <1>0, <1>2, <4>1, HostTransmit DEF NetworkSend
      <3>3. CASE h # x.to
        <4>1. sent'[h] = sent[h] /\ socket'[h] = socket[h]
          BY <1>0, <2>2, <3>1, <3>3 DEF Transmit, TypeOK
        <4>2. UNCHANGED << carried, inbox, received, boxes >>
          BY <1>2 DEF NetworkSend
        <4> QED  BY <1>0, <4>1, <4>2, HostKept, Zenon DEF UnderWay
      <3> QED  BY <3>2, <3>3
    <2> QED  BY <1>2, <2>1, <2>2 DEF NetworkSend
  <1>3. ASSUME NEW g \in Host, PacketArrives(g) PROVE HostInOrder(h)'
    <2>1. UNCHANGED << carried, sent, received, boxes >>
      BY <1>3 DEF PacketArrives
    <2>2. UnderWay(h)' = UnderWay(h)
      <3>1. CASE h = g
        <4>1. inbox[h] = NULL /\ inbox'[h] = Head(socket[h]) /\ socket'[h] = Tail(socket[h])
              /\ socket[h] # << >>
          BY <1>0, <1>3, <3>1 DEF PacketArrives, ReadFromSocket, PollSocket, TypeOK
        <4>2. PICK cm \in Mail \cup {NULL}, so \in Seq(Mail) : cm = carried[h] /\ so = socket[h]
          BY <1>0, HostTypes
        <4>3. /\ UnderWay(h)' = Held(cm) \o Held(Head(so)) \o Tail(so)
              /\ UnderWay(h) = Held(cm) \o Held(NULL) \o so
          BY <2>1, <4>1, <4>2 DEF UnderWay
        <4> QED  BY <4>1, <4>2, <4>3, ArriveMail, Zenon
      <3>2. CASE h # g
        <4>1. inbox'[h] = inbox[h] /\ socket'[h] = socket[h]
          BY <1>0, <1>3, <3>2 DEF PacketArrives, ReadFromSocket, TypeOK
        <4> QED  BY <2>1, <4>1 DEF UnderWay
      <3> QED  BY <3>1, <3>2
    <2> QED  BY <1>0, <2>1, <2>2, HostKept
  <1>4. ASSUME NEW g \in Host, Collect(g) PROVE HostInOrder(h)'
    <2>1. UNCHANGED << socket, sent, received, boxes >>
      BY <1>4 DEF Collect
    <2>2. UnderWay(h)' = UnderWay(h)
      <3>1. CASE h = g
        <4>1. /\ carried[h] = NULL /\ inbox[h] # NULL
              /\ carried'[h] = inbox[h] /\ inbox'[h] = NULL
          BY <1>0, <1>4, <3>1 DEF Collect, TypeOK, WorkerIsTold
        <4>2. inbox[h] \in Mail
          BY <1>0, <4>1, HostTypes
        <4> QED  BY <1>0, <2>1, <4>1, <4>2, HostTypes, CollectMail, Zenon DEF UnderWay
      <3>2. CASE h # g
        <4>1. inbox'[h] = inbox[h] /\ carried'[h] = carried[h]
          BY <1>0, <1>4, <3>2 DEF Collect, TypeOK
        <4> QED  BY <2>1, <4>1 DEF UnderWay
      <3> QED  BY <3>1, <3>2
    <2> QED  BY <1>0, <2>1, <2>2, HostKept
  <1>5. ASSUME NEW g \in Host, Put(g) PROVE HostInOrder(h)'
    <2>1. UNCHANGED << socket, inbox, sent, received >>
      BY <1>5 DEF Put
    <2>2. CASE h = g
      <3>1. PICK x \in Mail : x = carried[h] /\ x.box \in Box
        BY <1>0, <1>5, <2>2 DEF Put, Mail, TypeOK
      <3>2. /\ carried'[h] = NULL
            /\ boxes'[h][x.box] = Append(boxes[h][x.box], x)
            /\ \A b \in Box : b # x.box => boxes'[h][b] = boxes[h][b]
        <4>1. boxes \in [Host -> [Box -> Seq(Mail)]] /\ carried \in [Host -> Mail \cup {NULL}]
          BY <1>0 DEF TypeOK
        <4>2. /\ boxes' = [boxes EXCEPT ![h] =
                           [boxes[h] EXCEPT ![x.box] = Append(boxes[h][x.box], x)]]
              /\ carried' = [carried EXCEPT ![h] = NULL]
          BY <1>5, <2>2, <3>1 DEF Put
        <4> QED  BY <3>1, <4>1, <4>2
      <3> QED  BY <1>0, <2>1, <3>1, <3>2, HostPut, Zenon
    <2>3. CASE h # g
      <3>1. carried'[h] = carried[h] /\ boxes'[h] = boxes[h]
        BY <1>0, <1>5, <2>3 DEF Put, TypeOK
      <3> QED  BY <1>0, <2>1, <3>1, HostKept, Zenon DEF UnderWay
    <2> QED  BY <2>2, <2>3
  <1>6. ASSUME NEW c \in Client, Receive(c) PROVE HostInOrder(h)'
    <2>1. UNCHANGED << carried, inbox, socket, sent >>
      BY <1>6 DEF Receive
    <2>2. \A b \in Box : received'[h][b] \o boxes'[h][b] = received[h][b] \o boxes[h][b]
      <3>1. PICK g, q : g = Home[c] /\ q = Current(c).box
        OBVIOUS
      <3>2. g \in Host /\ q \in Box /\ boxes[g][q] # << >>
        BY <1>0, <1>6, <3>1, CurrentTypes DEF Receive
      <3>3. /\ received' = [received EXCEPT ![g] =
                            [received[g] EXCEPT ![q] = Append(received[g][q], Head(boxes[g][q]))]]
            /\ boxes' = [boxes EXCEPT ![g] = [boxes[g] EXCEPT ![q] = Tail(boxes[g][q])]]
        BY <1>6, <3>1 DEF Receive
      <3>4. /\ received \in [Host -> [Box -> Seq(Mail)]] /\ boxes \in [Host -> [Box -> Seq(Mail)]]
        BY <1>0 DEF TypeOK
      <3>5. /\ received'[g][q] = Append(received[g][q], Head(boxes[g][q]))
            /\ boxes'[g][q] = Tail(boxes[g][q])
        BY <3>2, <3>3, <3>4
      <3>6. \A b \in Box : ~(h = g /\ b = q) =>
               received'[h][b] = received[h][b] /\ boxes'[h][b] = boxes[h][b]
        BY <3>2, <3>3, <3>4
      <3>7. received'[g][q] \o boxes'[g][q] = received[g][q] \o boxes[g][q]
        <4>1. received[g][q] \in Seq(Mail) /\ boxes[g][q] \in Seq(Mail)
          BY <3>2, <3>4
        <4> QED  BY <3>2, <3>5, <4>1, ReceiveMail, Zenon
      <3> QED  BY <3>6, <3>7, Zenon
    <2>3. UnderWay(h)' = UnderWay(h)
      BY <2>1 DEF UnderWay
    <2> QED  BY <1>0, <2>1, <2>2, <2>3, HostKept, Zenon
  <1>7. ASSUME NEW c \in Client, StartSend(c) \/ Acquire(c) \/ WaitSent(c) \/ Release(c)
        PROVE  HostInOrder(h)'
    BY <1>1, <1>7 DEF StartSend, Acquire, WaitSent, Release
  <1>8. ASSUME NEW g \in Host, SendDone(g) PROVE HostInOrder(h)'
    BY <1>1, <1>8 DEF SendDone
  <1> QED
    BY <1>2, <1>3, <1>4, <1>5, <1>6, <1>7, <1>8 DEF Next, ClientStep, Worker

-----------------------------------------------------------------------------
LEMMA InitPInv == Init => PInv
  <1> SUFFICES ASSUME Init PROVE PInv
    OBVIOUS
  <1> USE DEF Init, PostOfficeInputInit, PostOfficeOutputInit, NetworkInputInit,
              NetworkOutputInit, AssignNameToSocket, MailBoxInit
  <1>1. TypeOK /\ ClientInv
    BY InitTypes
  <1>2. SendInv
    <2>1. \A c \in Client : pc[c] = "ready" /\ Home[c] \in Host /\ c # NULL
      OBVIOUS
    <2>2. \A h \in Host : sendLock[h] = NULL /\ ~sendPending[h] /\ messageSent[h] = 0
      BY Zenon
    <2> QED  BY <2>1, <2>2 DEF SendInv, OneSendAtATime
  <1>3. WorkerIsTold
    BY Zenon DEF WorkerIsTold
  <1>4. MailInOrder
    <2> SUFFICES ASSUME NEW h \in Host PROVE HostInOrder(h)
      BY Zenon DEF MailInOrder, HostInOrder
    <2>1. UnderWay(h) = << >> /\ sent[h] = << >>
      BY DEF UnderWay, Held
    <2>2. Done(h) = 0 /\ Len(UnderWay(h)) = 0
      BY <2>1 DEF Done
    <2>3. \A b \in Box : ExactlyThoseFor(<< >>, b, << >>, 0)
      <3>1. << >> \in [1..Len(<< >>) -> 1..0]
        OBVIOUS
      <3>2. 1..Len(<< >>) = {} /\ 1..0 = {}
        OBVIOUS
      <3> QED  BY <3>1, <3>2, Zenon DEF ExactlyThoseFor
    <2>4. \A b \in Box : received[h][b] \o boxes[h][b] = << >>
      OBVIOUS
    <2> QED  BY <2>1, <2>2, <2>3, <2>4 DEF HostInOrder
  <1> QED  BY <1>1, <1>2, <1>3, <1>4 DEF PInv

LEMMA PostInvariant == Spec => []PInv
  <1>1. PInv /\ Next => PInv'
    BY TypeStep, ClientInvStep, SendInvStep, WorkerStep, MailStep DEF PInv
  <1>2. PInv /\ UNCHANGED vars => PInv'
    <2> SUFFICES ASSUME PInv, UNCHANGED vars PROVE PInv'
      OBVIOUS
    <2> USE DEF vars, outVars, inVars, clientVars, histVars
    <2>1. TypeOK'
      BY DEF PInv, TypeOK
    <2>2. SendInv'
      BY DEF PInv, SendInv, OneSendAtATime
    <2>3. ClientInv'
      BY DEF PInv, ClientInv, Running, Current
    <2>4. WorkerIsTold'
      BY DEF PInv, WorkerIsTold
    <2>5. MailInOrder'
      <3> SUFFICES ASSUME NEW h \in Host PROVE HostInOrder(h)'
        BY DEF MailInOrder, HostInOrder
      <3>1. HostInOrder(h)
        BY DEF PInv, MailInOrder, HostInOrder
      <3>2. UnderWay(h)' = UnderWay(h)
        BY DEF UnderWay
      <3> QED  BY <3>1, <3>2, HostKept
    <2> QED  BY <2>1, <2>2, <2>3, <2>4, <2>5 DEF PInv
  <1> QED  BY InitPInv, <1>1, <1>2, PTL DEF Spec

(* Whatever packets the network drops, the ones it takes arrive once, in   *)
(* their box and in the order of transmission; no packet in the one-packet *)
(* buffer is overwritten, and each wake-up of a sender or of the worker    *)
(* belongs to one packet.                                                  *)
THEOREM MailArrivesExactly == Spec => []MailExact
  <1>1. PInv => MailExact
    BY DEF PInv, MailExact, WakeupsExact, SendInv
  <1> QED  BY PostInvariant, <1>1, PTL

=============================================================================
