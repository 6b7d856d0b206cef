---------------------------- MODULE EchoTcpProofs ----------------------------
(***************************************************************************)
(* A client of posix/tcp_server gets its own bytes back in order, for any  *)
(* number of clients, any arguments and any size of buffer.  EchoInOrder   *)
(* alone is not inductive: a thread must hold nothing while it reads, so   *)
(* accept must never start a second one for a connection that has one; and *)
(* a client that sends must have a connection that no reset has touched.   *)
(***************************************************************************)
EXTENDS EchoTcp, SequenceTheorems, TLAPS

Bytes == Seq(Nat)

\* The first n bytes of a client.
Counting(n) == [i \in 1..n |-> i]
-----------------------------------------------------------------------------
(* Streams: what one recv takes and the rest of it are what was there.     *)

LEMMA TakeAndDrop ==
  ASSUME NEW s \in Bytes, NEW n \in Chunks(s)
  PROVE  Take(s, n) \in Bytes /\ Drop(s, n) \in Bytes /\ Take(s, n) \o Drop(s, n) = s
<1>1. n \in 1..Len(s) /\ Len(s) \in Nat /\ \A i \in 1..Len(s) : s[i] \in Nat
  BY EchoTcpAssumption, LenProperties, ElementOfSeq DEF EchoTcpAssumption, Chunks, Bytes
<1>2. Take(s, n) \in Bytes
  BY <1>1, SubSeqProperties DEF Take, Bytes
<1>3. Drop(s, n) \in Bytes
  BY <1>1, SubSeqProperties DEF Drop, Bytes
<1>4. Take(s, n) \o Drop(s, n) = s
  <2>1. SubSeq(s, 1, n) \o SubSeq(s, n + 1, Len(s)) = SubSeq(s, 1, Len(s))
    BY <1>1, ConcatAdjacentSubSeq DEF Bytes
  <2> QED
    BY <2>1, SubSeqFull DEF Take, Drop, Bytes
<1> QED
  BY <1>2, <1>3, <1>4

\* Bytes that go from one buffer to the next leave the stream as it is.
LEMMA Joined == \A a, b, e \in Bytes : a \o (b \o e) = (a \o b) \o e
<1>1. ASSUME NEW a \in Seq(Nat), NEW b \in Seq(Nat), NEW e \in Seq(Nat)
      PROVE  a \o (b \o e) = (a \o b) \o e
  BY SMTT(60)
<1> QED
  BY <1>1, Zenon DEF Bytes

\* Streams are closed under concatenation, and the empty one adds nothing.
LEMMA Passing == /\ \A a, b \in Bytes : a \o b \in Bytes
                 /\ \A a \in Bytes : a \o <<>> = a
                 /\ <<>> \in Bytes
BY ConcatProperties, ConcatEmptySeq, EmptySeq DEF Bytes

\* The bytes of an argument continue the count of those sent before it.
LEMMA CountingOn ==
  ASSUME NEW n \in Nat, NEW m \in Nat
  PROVE  /\ [i \in 1..m |-> n + i] \in Bytes /\ Len([i \in 1..m |-> n + i]) = m
         /\ Counting(n) \o [i \in 1..m |-> n + i] = Counting(n + m)
<1> DEFINE s == [i \in 1..m |-> n + i]
<1>1. s \in Bytes /\ Len(s) = m
  BY DEF Bytes
<1>2. Counting(n) \in Bytes /\ Len(Counting(n)) = n
  BY DEF Bytes, Counting
<1>3. Counting(n + m) \in Bytes /\ Len(Counting(n + m)) = n + m
  BY DEF Bytes, Counting
<1>4. Counting(n) \o s = Counting(n + m)
  <2>1. Counting(n) \o s \in Bytes /\ Len(Counting(n) \o s) = n + m
    BY <1>1, <1>2, ConcatProperties DEF Bytes
  <2>2. ASSUME NEW i \in 1..(n + m) PROVE (Counting(n) \o s)[i] = Counting(n + m)[i]
    <3>1. (Counting(n) \o s)[i] = IF i <= n THEN Counting(n)[i] ELSE s[i - n]
      BY <1>1, <1>2, ConcatProperties DEF Bytes
    <3> QED
      BY <3>1 DEF Counting
  <2> QED
    BY <1>3, <2>1, <2>2, SeqEqual DEF Bytes
<1> QED
  BY <1>1, <1>4
-----------------------------------------------------------------------------
(* The inductive invariant                                                 *)

TypeOK ==
  /\ recvd \in [Clients -> Bytes] /\ s2c \in [Clients -> Bytes]
  /\ buf \in [Clients -> Bytes] /\ c2s \in [Clients -> Bytes]
  /\ sent \in [Clients -> Nat] /\ j \in [Clients -> Nat \ {0}]
  /\ tpc \in [Clients -> {"none", "poll", "send", "end", "failed"}]
  /\ cpc \in [Clients -> {"connect", "send", "poll", "recv", "close", "done"}]
  /\ sock \in [Clients -> {"none", "open", "closed"}]
  /\ net \in [Clients -> {"open", "dead"}]
  /\ rst \in [Clients -> {"none", "ECONNRESET", "EPIPE"}]
  /\ srv \in {"up", "exited", "killed"} /\ backlog \in Seq(Clients)

\* A thread holds bytes only between its recv and its send.
HoldsInv == \A c \in Clients : tpc[c] # "send" => buf[c] = <<>>

\* Before connect there is nothing; a client sends on an open socket; only a
\* closed one is reset.
LinkInv ==
  \A c \in Clients :
    /\ sock[c] = "none" => /\ tpc[c] = "none" /\ sent[c] = 0
                           /\ recvd[c] = <<>> /\ s2c[c] = <<>> /\ c2s[c] = <<>>
    /\ sock[c] # "closed" => rst[c] = "none" /\ net[c] = "open"
    /\ cpc[c] = "connect" => sock[c] = "none"
    /\ cpc[c] \in {"send", "poll", "recv"} => sock[c] = "open"

\* A connection that waits for accept is there once and has no thread.
BacklogInv ==
  /\ \A i \in 1..Len(backlog) : tpc[backlog[i]] = "none" /\ sock[backlog[i]] # "none"
  /\ \A i, k \in 1..Len(backlog) : backlog[i] = backlog[k] => i = k

IInv == TypeOK /\ HoldsInv /\ LinkInv /\ BacklogInv /\ EchoInOrder

\* Init establishes the invariant.
LEMMA InitInv == Init => IInv
<1> SUFFICES ASSUME Init PROVE IInv
  OBVIOUS
<1>1. <<>> \in Bytes
  BY DEF Bytes
<1>2. TypeOK
  BY <1>1 DEF Init, TypeOK
<1>3. HoldsInv /\ LinkInv
  BY DEF Init, HoldsInv, LinkInv
<1>4. BacklogInv
  BY DEF Init, BacklogInv
<1>5. EchoInOrder
  BY DEF Init, EchoInOrder
<1> QED
  BY <1>2, <1>3, <1>4, <1>5 DEF IInv
-----------------------------------------------------------------------------
(* The steps of a client                                                   *)

\* A connection is made with nothing in it.
LEMMA ConnectStep == ASSUME IInv, NEW c \in Clients, Connect(c) PROVE IInv'
<1>1. TypeOK'
  <2>0. backlog \in Seq(Clients) /\ sock \in [Clients -> {"none", "open", "closed"}]
    BY DEF IInv, TypeOK
  <2>1. backlog' \in Seq(Clients) /\ sock' \in [Clients -> {"none", "open", "closed"}]
    BY <2>0, SMTT(60) DEF Connect
  <2>2. cpc' \in [Clients -> {"connect", "send", "poll", "recv", "close", "done"}]
    <3>1. cpc \in [Clients -> {"connect", "send", "poll", "recv", "close", "done"}]
      BY DEF IInv, TypeOK
    <3> QED
      BY <3>1 DEF Connect, GoTo
  <2> QED
    BY <2>1, <2>2 DEF IInv, Connect, TypeOK, thread
<1>4. HoldsInv' /\ LinkInv'
  BY DEF IInv, Connect, TypeOK, HoldsInv, LinkInv, thread
<1>2. BacklogInv'
  <2>1. CASE UNCHANGED <<backlog, sock>>
    BY <2>1 DEF IInv, Connect, BacklogInv, thread
  <2>2. CASE backlog' = Append(backlog, c) /\ sock' = [sock EXCEPT ![c] = "open"]
    <3>1. sock[c] = "none" /\ tpc[c] = "none" /\ tpc' = tpc
      BY DEF IInv, Connect, LinkInv, thread
    <3>2. \A i \in 1..Len(backlog) : backlog[i] # c
      BY <3>1 DEF IInv, BacklogInv
    <3>3. backlog \in Seq(Clients) /\ sock \in [Clients -> {"none", "open", "closed"}]
      BY DEF IInv, TypeOK
    <3> QED
      BY <2>2, <3>1, <3>2, <3>3 DEF IInv, BacklogInv
  <2> QED
    BY <2>1, <2>2 DEF Connect
<1>3. EchoInOrder'
  <2> SUFFICES ASSUME NEW d \in Clients, srv' = "up", sock'[d] = "open"
               PROVE (recvd[d] \o s2c[d] \o buf[d] \o c2s[d] = [i \in 1..sent[d] |-> i])'
    BY DEF EchoInOrder
  <2>1. UNCHANGED <<srv, recvd, s2c, buf, c2s, sent>>
    BY DEF Connect, thread
  <2>2. CASE d = c
    <3>1. sock[c] = "none" /\ tpc[c] = "none" /\ sent[c] = 0
      BY DEF IInv, Connect, LinkInv
    <3>2. recvd[c] = <<>> /\ s2c[c] = <<>> /\ c2s[c] = <<>> /\ buf[c] = <<>>
      BY <3>1 DEF IInv, LinkInv, HoldsInv
    <3> QED
      BY <2>1, <2>2, <3>1, <3>2
  <2>3. CASE d # c
    <3>1. sock[d] = "open"
      BY <2>3 DEF Connect, IInv, TypeOK
    <3> QED
      BY <2>1, <3>1 DEF IInv, EchoInOrder
  <2> QED
    BY <2>2, <2>3
<1> QED
  BY <1>1, <1>2, <1>3, <1>4 DEF IInv

\* Steps of a client that move no byte.
LEMMA WaitStep ==
  ASSUME IInv, NEW c \in Clients, Ignore(c) \/ Poll(c) \/ PollFails(c) \/ Timeout(c)
  PROVE  IInv'
<1>1. UNCHANGED <<server, thread, sent, recvd, link, c2s, s2c>>
  BY DEF Ignore, Poll, PollFails, Timeout
<1>2. cpc[c] \in {"send", "poll"} /\ \E pc \in {"send", "recv", "close"} : GoTo(c, pc)
  BY DEF Ignore, Poll, PollFails, Timeout, NextArg
<1>3. j' \in [Clients -> Nat \ {0}]
  BY DEF IInv, TypeOK, Ignore, Poll, PollFails, Timeout, NextArg
<1>4. TypeOK'
  <2>1. cpc' \in [Clients -> {"connect", "send", "poll", "recv", "close", "done"}]
    BY <1>2 DEF IInv, TypeOK, GoTo
  <2> QED
    BY <1>1, <1>3, <2>1 DEF IInv, TypeOK, server, thread, link
<1>5. HoldsInv' /\ BacklogInv' /\ EchoInOrder'
  BY <1>1 DEF IInv, HoldsInv, BacklogInv, EchoInOrder, server, thread, link
<1>6. LinkInv'
  BY <1>1, <1>2 DEF IInv, TypeOK, LinkInv, GoTo, server, thread, link
<1> QED
  BY <1>4, <1>5, <1>6 DEF IInv

\* What is sent goes on the end of the stream.
LEMMA SendStep == ASSUME IInv, NEW c \in Clients, Send(c) PROVE IInv'
<1> DEFINE m == Args[c][j[c]]
           bytes == [i \in 1..m |-> sent[c] + i]
<1>1. m \in Nat /\ sent[c] \in Nat
  BY EchoTcpAssumption, ElementOfSeq DEF EchoTcpAssumption, IInv, TypeOK, Send
<1>2. /\ bytes \in Bytes /\ Len(bytes) = m
      /\ Counting(sent[c]) \o bytes = Counting(sent[c] + m)
  BY <1>1, CountingOn
<1>3. /\ \/ /\ sent' = [sent EXCEPT ![c] = @ + Len(bytes)]
            /\ c2s' = IF srv = "up" THEN [c2s EXCEPT ![c] = @ \o bytes] ELSE c2s
            /\ GoTo(c, "poll")
         \/ srv # "up" /\ GoTo(c, "close") /\ UNCHANGED <<sent, c2s>>
      /\ UNCHANGED <<server, thread, j, recvd, link, s2c>> /\ cpc[c] = "send"
  BY DEF Send
<1> HIDE DEF bytes, m
<1>4. sent' \in [Clients -> Nat] /\ c2s' \in [Clients -> Bytes]
  <2>1. c2s[c] \o bytes \in Bytes
    BY <1>2, Passing DEF IInv, TypeOK
  <2>2. sent \in [Clients -> Nat] /\ c2s \in [Clients -> Bytes]
    BY DEF IInv, TypeOK
  <2>3. sent' \in [Clients -> Nat]
    BY <1>1, <1>2, <1>3, <2>2
  <2>4. c2s' \in [Clients -> Bytes]
    BY <1>3, <2>1, <2>2
  <2> QED
    BY <2>3, <2>4
<1>5. TypeOK'
  BY <1>3, <1>4 DEF IInv, TypeOK, GoTo, server, thread, link
<1>6. HoldsInv' /\ BacklogInv'
  BY <1>3 DEF IInv, HoldsInv, BacklogInv, server, thread, link
<1>7. LinkInv'
  <2>1. sock[c] = "open"
    BY <1>3 DEF IInv, LinkInv
  <2> QED
    BY <1>3, <2>1 DEF IInv, TypeOK, LinkInv, GoTo, server, thread, link
<1>8. EchoInOrder'
  <2> SUFFICES ASSUME NEW d \in Clients, srv' = "up", sock'[d] = "open"
               PROVE (recvd[d] \o s2c[d] \o buf[d] \o c2s[d] = [i \in 1..sent[d] |-> i])'
    BY DEF EchoInOrder
  <2>1. srv = "up" /\ sock[d] = "open" /\ UNCHANGED <<recvd, s2c, buf>>
    BY <1>3 DEF server, link, thread
  <2>2. recvd[d] \o s2c[d] \o buf[d] \o c2s[d] = Counting(sent[d])
    BY <2>1 DEF IInv, EchoInOrder, Counting
  <2>3. CASE d = c
    <3>1. c2s'[c] = c2s[c] \o bytes /\ sent'[c] = sent[c] + m
      BY <1>2, <1>3, <2>1 DEF IInv, TypeOK
    <3> DEFINE r == recvd[c] \o s2c[c] \o buf[c]
    <3>2. r \in Bytes /\ c2s[c] \in Bytes
      BY Passing DEF IInv, TypeOK
    <3> HIDE DEF r
    <3>3. r \o (c2s[c] \o bytes) = (r \o c2s[c]) \o bytes
      BY <1>2, <3>2, Joined
    <3>4. (r \o c2s[c]) \o bytes = Counting(sent[c] + m)
      BY <1>2, <2>2, <2>3 DEF r
    <3> QED
      BY <2>1, <2>3, <3>1, <3>3, <3>4 DEF r, Counting
  <2>4. CASE d # c
    <3>1. c2s'[d] = c2s[d] /\ sent'[d] = sent[d]
      BY <1>3, <2>4 DEF IInv, TypeOK
    <3> QED
      BY <2>1, <2>2, <3>1 DEF Counting
  <2> QED
    BY <2>3, <2>4
<1> QED
  BY <1>5, <1>6, <1>7, <1>8 DEF IInv

\* What recv takes off the front of s2c goes on the end of recvd.
LEMMA RecvStep == ASSUME IInv, NEW c \in Clients, Recv(c) PROVE IInv'
<1>1. UNCHANGED <<server, thread, sent, link, c2s>> /\ cpc[c] = "recv" /\ sock[c] = "open"
  BY DEF Recv, IInv, LinkInv
<1>2. TypeOK'
  <2>1. recvd \in [Clients -> Bytes] /\ s2c \in [Clients -> Bytes] /\ j \in [Clients -> Nat \ {0}]
    BY DEF IInv, TypeOK
  <2>2. recvd' \in [Clients -> Bytes] /\ s2c' \in [Clients -> Bytes]
    <3>1. CASE UNCHANGED <<recvd, s2c>>
      BY <2>1, <3>1
    <3>2. ASSUME NEW n \in Chunks(s2c[c]),
                 recvd' = [recvd EXCEPT ![c] = @ \o Take(s2c[c], n)],
                 s2c' = [s2c EXCEPT ![c] = Drop(@, n)]
          PROVE  recvd' \in [Clients -> Bytes] /\ s2c' \in [Clients -> Bytes]
      <4>1. Take(s2c[c], n) \in Bytes /\ Drop(s2c[c], n) \in Bytes
        BY <2>1, TakeAndDrop
      <4>2. recvd[c] \o Take(s2c[c], n) \in Bytes
        BY <2>1, <4>1, Passing
      <4> QED
        BY <2>1, <3>2, <4>1, <4>2
    <3> QED
      BY <3>1, <3>2 DEF Recv
  <2>3. j' \in [Clients -> Nat \ {0}]
    BY <2>1 DEF Recv, NextArg
  <2>4. cpc' \in [Clients -> {"connect", "send", "poll", "recv", "close", "done"}]
    <3>1. cpc \in [Clients -> {"connect", "send", "poll", "recv", "close", "done"}]
      BY DEF IInv, TypeOK
    <3> QED
      BY <3>1 DEF Recv, NextArg, GoTo
  <2> QED
    BY <1>1, <2>2, <2>3, <2>4 DEF IInv, TypeOK, server, thread, link
<1>3. HoldsInv' /\ BacklogInv'
  BY <1>1 DEF IInv, HoldsInv, BacklogInv, server, thread, link
<1>4. LinkInv'
  <2>1. \A d \in Clients \ {c} : cpc'[d] = cpc[d] /\ recvd'[d] = recvd[d] /\ s2c'[d] = s2c[d]
    BY DEF IInv, TypeOK, Recv, NextArg, GoTo
  <2>2. cpc'[c] \in {"send", "close"}
    BY DEF IInv, TypeOK, Recv, NextArg, GoTo
  <2> QED
    BY <1>1, <2>1, <2>2 DEF IInv, LinkInv, thread, link
<1>5. EchoInOrder'
  <2> SUFFICES ASSUME NEW d \in Clients, srv' = "up", sock'[d] = "open"
               PROVE (recvd[d] \o s2c[d] \o buf[d] \o c2s[d] = [i \in 1..sent[d] |-> i])'
    BY DEF EchoInOrder
  <2>1. srv = "up" /\ sock[d] = "open" /\ UNCHANGED <<buf, c2s, sent>>
    BY <1>1 DEF server, link, thread
  <2>2. recvd[d] \o s2c[d] \o buf[d] \o c2s[d] = [i \in 1..sent[d] |-> i]
    BY <2>1 DEF IInv, EchoInOrder
  <2>3. recvd'[d] \o s2c'[d] = recvd[d] \o s2c[d]
    <3>1. PICK n \in Chunks(s2c[c]) : /\ recvd' = [recvd EXCEPT ![c] = @ \o Take(s2c[c], n)]
                                      /\ s2c' = [s2c EXCEPT ![c] = Drop(@, n)]
      BY <2>1 DEF Recv
    <3>2. CASE d = c
      <4>1. recvd'[c] = recvd[c] \o Take(s2c[c], n) /\ s2c'[c] = Drop(s2c[c], n)
        BY <3>1 DEF IInv, TypeOK
      <4>2. s2c[c] \in Bytes /\ recvd[c] \in Bytes
        BY DEF IInv, TypeOK
      <4>3. /\ Take(s2c[c], n) \in Bytes /\ Drop(s2c[c], n) \in Bytes
            /\ Take(s2c[c], n) \o Drop(s2c[c], n) = s2c[c]
        BY <4>2, TakeAndDrop
      <4>4. recvd[c] \o (Take(s2c[c], n) \o Drop(s2c[c], n))
              = (recvd[c] \o Take(s2c[c], n)) \o Drop(s2c[c], n)
        BY <4>2, <4>3, Joined
      <4> QED
        BY <3>2, <4>1, <4>3, <4>4
    <3>3. CASE d # c
      BY <3>1, <3>3 DEF IInv, TypeOK
    <3> QED
      BY <3>2, <3>3
  <2> QED
    BY <2>1, <2>2, <2>3
<1> QED
  BY <1>2, <1>3, <1>4, <1>5 DEF IInv

\* A connection that is closed is out of EchoInOrder.
LEMMA CloseStep == ASSUME IInv, NEW c \in Clients, Close(c) PROVE IInv'
<1>1. UNCHANGED <<server, thread, j, sent, recvd, net, c2s>>
  BY DEF Close
<1>2. /\ sock' = [sock EXCEPT ![c] = "closed"] /\ cpc' = [cpc EXCEPT ![c] = "done"]
      /\ s2c' = [s2c EXCEPT ![c] = <<>>]
      /\ rst' = rst \/ \E r \in {"ECONNRESET", "EPIPE"} : rst' = [rst EXCEPT ![c] = r]
  BY DEF Close, GoTo
<1>3. TypeOK'
  <2>1. /\ sock' \in [Clients -> {"none", "open", "closed"}]
        /\ cpc' \in [Clients -> {"connect", "send", "poll", "recv", "close", "done"}]
    BY <1>2 DEF IInv, TypeOK
  <2>2. s2c' \in [Clients -> Bytes]
    BY <1>2, Passing DEF IInv, TypeOK
  <2>3. rst' \in [Clients -> {"none", "ECONNRESET", "EPIPE"}]
    BY <1>2 DEF IInv, TypeOK
  <2> QED
    BY <1>1, <2>1, <2>2, <2>3 DEF IInv, TypeOK, server, thread
<1>4. HoldsInv'
  BY <1>1 DEF IInv, HoldsInv, thread
<1>5. \A d \in Clients : /\ sock'[d] = IF d = c THEN "closed" ELSE sock[d]
                         /\ cpc'[d] = IF d = c THEN "done" ELSE cpc[d]
                         /\ d # c => s2c'[d] = s2c[d] /\ rst'[d] = rst[d]
  BY <1>2 DEF IInv, TypeOK
<1>6. LinkInv'
  BY <1>1, <1>5 DEF IInv, LinkInv, thread
<1>7. BacklogInv'
  <2>1. \A i \in 1..Len(backlog) : backlog[i] \in Clients
    BY ElementOfSeq DEF IInv, TypeOK
  <2> QED
    BY <1>1, <1>5, <2>1 DEF IInv, BacklogInv, server, thread
<1>8. EchoInOrder'
  BY <1>1, <1>5 DEF IInv, EchoInOrder, server, thread
<1> QED
  BY <1>3, <1>4, <1>6, <1>7, <1>8 DEF IInv
-----------------------------------------------------------------------------
(* The steps of the server                                                 *)

\* accept starts a thread only for a connection that has none.
LEMMA AcceptStep == ASSUME IInv, Accept PROVE IInv'
<1>1. backlog \in Seq(Clients) /\ backlog # <<>> /\ backlog' = Tail(backlog)
  BY DEF Accept, IInv, TypeOK
<1>2. /\ backlog' \in Seq(Clients) /\ Len(backlog) \in Nat \ {0}
      /\ Len(backlog') = Len(backlog) - 1
      /\ \A i \in 1..Len(backlog') : backlog'[i] = backlog[i + 1] /\ backlog[i + 1] \in Clients
  BY <1>1
<1>3. Head(backlog) = backlog[1] /\ Head(backlog) \in Clients
  BY <1>1
<1>4. PICK pc \in {"poll", "none"} : tpc' = [tpc EXCEPT ![Head(backlog)] = pc]
  BY DEF Accept
<1>5. UNCHANGED <<srv, buf, client, link, c2s, s2c>>
  BY DEF Accept
<1>6. tpc[Head(backlog)] = "none" /\ sock[Head(backlog)] # "none"
  BY <1>2, <1>3 DEF IInv, BacklogInv
<1>7. \A d \in Clients : tpc'[d] = IF d = Head(backlog) THEN pc ELSE tpc[d]
  BY <1>3, <1>4 DEF IInv, TypeOK
<1>8. TypeOK'
  <2>1. tpc' \in [Clients -> {"none", "poll", "send", "end", "failed"}]
    BY <1>3, <1>4 DEF IInv, TypeOK
  <2> QED
    BY <1>2, <1>5, <2>1 DEF IInv, TypeOK, client, link
<1>9. HoldsInv' /\ LinkInv' /\ EchoInOrder'
  BY <1>3, <1>5, <1>6, <1>7, ZenonT(90) DEF IInv, HoldsInv, LinkInv, EchoInOrder, client, link
<1>10. BacklogInv'
  <2>1. ASSUME NEW i \in 1..Len(backlog'), NEW k \in 1..Len(backlog'), backlog'[i] = backlog'[k]
        PROVE  i = k
    <3>1. i + 1 \in 1..Len(backlog) /\ k + 1 \in 1..Len(backlog)
      BY <1>2
    <3>2. backlog[i + 1] = backlog[k + 1]
      BY <1>2, <2>1
    <3>3. i + 1 = k + 1
      BY <3>1, <3>2 DEF IInv, BacklogInv
    <3> QED
      BY <3>3
  <2>2. ASSUME NEW i \in 1..Len(backlog')
        PROVE  tpc'[backlog'[i]] = "none" /\ sock'[backlog'[i]] # "none"
    <3>1. i + 1 \in 1..Len(backlog) /\ 1 \in 1..Len(backlog) /\ i + 1 # 1
      BY <1>2
    <3>2. backlog[i + 1] # backlog[1] /\ tpc[backlog[i + 1]] = "none" /\ sock[backlog[i + 1]] # "none"
      BY <3>1 DEF IInv, BacklogInv
    <3> QED
      BY <1>2, <1>3, <1>5, <1>7, <3>2 DEF link
  <2> QED
    BY <2>1, <2>2 DEF BacklogInv
<1> QED
  BY <1>8, <1>9, <1>10 DEF IInv

\* The process may end at any time; then nothing is promised.
LEMMA ServerFailsStep == ASSUME IInv, ServerFails PROVE IInv'
<1>1. UNCHANGED <<backlog, thread, client, link, c2s, s2c>> /\ srv' = "exited"
  BY DEF ServerFails
<1>2. TypeOK'
  BY <1>1 DEF IInv, TypeOK, thread, client, link
<1>3. HoldsInv' /\ LinkInv' /\ BacklogInv' /\ EchoInOrder'
  BY <1>1 DEF IInv, HoldsInv, LinkInv, BacklogInv, EchoInOrder, thread, client, link
<1> QED
  BY <1>2, <1>3 DEF IInv

\* Only a closed socket has a reset, and only its connection dies of it.
LEMMA ResetStep == ASSUME IInv, NEW c \in Clients, Reset(c) PROVE IInv'
<1>1. UNCHANGED <<server, thread, client, sock, rst, c2s, s2c>>
  BY DEF Reset
<1>2. net' = [net EXCEPT ![c] = "dead"] /\ rst[c] # "none"
  BY DEF Reset
<1>3. TypeOK'
  BY <1>1, <1>2 DEF IInv, TypeOK, server, thread, client
<1>4. LinkInv'
  BY <1>1, <1>2 DEF IInv, TypeOK, LinkInv, thread, client
<1>5. HoldsInv' /\ BacklogInv' /\ EchoInOrder'
  BY <1>1 DEF IInv, HoldsInv, BacklogInv, EchoInOrder, server, thread, client
<1> QED
  BY <1>3, <1>4, <1>5 DEF IInv
-----------------------------------------------------------------------------
(* The steps of a thread                                                   *)

\* A thread that is past its start is not in the backlog.
LEMMA NotWaiting ==
  ASSUME IInv, NEW c \in Clients, tpc[c] # "none", NEW pc,
         tpc' = [tpc EXCEPT ![c] = pc], UNCHANGED <<backlog, sock>>
  PROVE  BacklogInv'
<1>1. \A i \in 1..Len(backlog) : backlog[i] \in Clients /\ backlog[i] # c
  BY ElementOfSeq DEF IInv, TypeOK, BacklogInv
<1>2. \A d \in Clients \ {c} : tpc'[d] = tpc[d]
  BY DEF IInv, TypeOK
<1> QED
  BY <1>1, <1>2 DEF IInv, BacklogInv

\* What a thread takes off the front of c2s it holds in its own buf.
LEMMA ThreadRecvStep == ASSUME IInv, NEW c \in Clients, ThreadRecv(c) PROVE IInv'
<1>1. PICK n \in Chunks(c2s[c]) : /\ buf' = [buf EXCEPT ![c] = Take(c2s[c], n)]
                                  /\ c2s' = [c2s EXCEPT ![c] = Drop(@, n)]
  BY DEF ThreadRecv
<1>2. /\ tpc[c] = "poll" /\ tpc' = [tpc EXCEPT ![c] = "send"]
      /\ UNCHANGED <<server, client, link, s2c>>
  BY DEF ThreadRecv, At
<1>3. c2s[c] \in Bytes /\ recvd[c] \in Bytes /\ s2c[c] \in Bytes /\ buf[c] = <<>> /\ sock[c] # "none"
  BY <1>2 DEF IInv, TypeOK, HoldsInv, LinkInv
<1>4. /\ Take(c2s[c], n) \in Bytes /\ Drop(c2s[c], n) \in Bytes
      /\ Take(c2s[c], n) \o Drop(c2s[c], n) = c2s[c]
  BY <1>3, TakeAndDrop
<1>5. TypeOK'
  <2>1. tpc' \in [Clients -> {"none", "poll", "send", "end", "failed"}]
    BY <1>2 DEF IInv, TypeOK
  <2>2. buf' \in [Clients -> Bytes] /\ c2s' \in [Clients -> Bytes]
    BY <1>1, <1>4 DEF IInv, TypeOK
  <2> QED
    BY <1>2, <2>1, <2>2 DEF IInv, TypeOK, server, client, link
<1>6. \A d \in Clients \ {c} : buf'[d] = buf[d] /\ c2s'[d] = c2s[d] /\ tpc'[d] = tpc[d]
  BY <1>1, <1>2 DEF IInv, TypeOK
<1>7. tpc'[c] = "send" /\ buf'[c] = Take(c2s[c], n) /\ c2s'[c] = Drop(c2s[c], n)
  BY <1>1, <1>2 DEF IInv, TypeOK
<1>8. HoldsInv' /\ LinkInv'
  BY <1>2, <1>3, <1>6, <1>7 DEF IInv, HoldsInv, LinkInv, client, link
<1>9. BacklogInv'
  BY <1>2, NotWaiting DEF server, link
<1>10. EchoInOrder'
  <2> SUFFICES ASSUME NEW d \in Clients, srv' = "up", sock'[d] = "open"
               PROVE (recvd[d] \o s2c[d] \o buf[d] \o c2s[d] = [i \in 1..sent[d] |-> i])'
    BY DEF EchoInOrder
  <2>1. srv = "up" /\ sock[d] = "open" /\ UNCHANGED <<recvd, s2c, sent>>
    BY <1>2 DEF server, link, client
  <2>2. recvd[d] \o s2c[d] \o buf[d] \o c2s[d] = [i \in 1..sent[d] |-> i]
    BY <2>1 DEF IInv, EchoInOrder
  <2>3. CASE d = c
    <3> DEFINE r == recvd[c] \o s2c[c]
    <3>1. r \in Bytes
      BY <1>3, Passing
    <3> HIDE DEF r
    <3>2. r \o <<>> = r
      BY <3>1, Passing
    <3>3. r \o (Take(c2s[c], n) \o Drop(c2s[c], n)) = (r \o Take(c2s[c], n)) \o Drop(c2s[c], n)
      BY <1>4, <3>1, Joined
    <3>4. (r \o Take(c2s[c], n)) \o Drop(c2s[c], n) = [i \in 1..sent[c] |-> i]
      BY <1>3, <1>4, <2>2, <2>3, <3>2, <3>3 DEF r
    <3> QED
      BY <1>7, <2>1, <2>3, <3>4 DEF r
  <2>4. CASE d # c
    BY <1>6, <2>1, <2>2, <2>4
  <2> QED
    BY <2>3, <2>4
<1> QED
  BY <1>5, <1>8, <1>9, <1>10 DEF IInv

\* poll fails, or recv returns 0 or an error: no byte moves.
LEMMA ThreadStopStep ==
  ASSUME IInv, NEW c \in Clients, ThreadEof(c) \/ ThreadPollFails(c)
  PROVE  IInv'
<1>1. UNCHANGED <<server, buf, client, sock, net, c2s, s2c>> /\ tpc[c] = "poll"
  BY DEF ThreadEof, ThreadPollFails, link, At
<1>2. PICK pc \in {"poll", "end", "failed"} : tpc' = [tpc EXCEPT ![c] = pc]
  <2>1. tpc \in [Clients -> {"none", "poll", "send", "end", "failed"}]
    BY DEF IInv, TypeOK
  <2>2. tpc = [tpc EXCEPT ![c] = "poll"]
    BY <1>1, <2>1
  <2> QED
    BY <2>2 DEF ThreadEof, ThreadPollFails
<1>3. rst' = rst \/ rst' = [rst EXCEPT ![c] = "none"]
  BY DEF ThreadEof, ThreadPollFails, link
<1>4. TypeOK'
  <2>1. tpc' \in [Clients -> {"none", "poll", "send", "end", "failed"}]
    BY <1>2 DEF IInv, TypeOK
  <2>2. rst' \in [Clients -> {"none", "ECONNRESET", "EPIPE"}]
    BY <1>3 DEF IInv, TypeOK
  <2> QED
    BY <1>1, <2>1, <2>2 DEF IInv, TypeOK, server, client
<1>5. \A d \in Clients : /\ tpc'[d] = IF d = c THEN pc ELSE tpc[d]
                         /\ rst'[d] \in {rst[d], "none"}
  BY <1>2, <1>3 DEF IInv, TypeOK
<1>6. HoldsInv' /\ LinkInv'
  BY <1>1, <1>5 DEF IInv, HoldsInv, LinkInv, client
<1>7. BacklogInv'
  BY <1>1, <1>2, NotWaiting DEF server
<1>8. EchoInOrder'
  BY <1>1 DEF IInv, EchoInOrder, server, client
<1> QED
  BY <1>4, <1>6, <1>7, <1>8 DEF IInv

\* On an open connection what the thread holds goes on the end of s2c.
LEMMA ThreadSendStep == ASSUME IInv, NEW c \in Clients, ThreadSend(c) PROVE IInv'
<1>1. /\ tpc[c] = "send" /\ tpc' = [tpc EXCEPT ![c] = "poll"] /\ buf' = [buf EXCEPT ![c] = <<>>]
      /\ UNCHANGED <<server, client, sock, net, c2s>>
  BY DEF ThreadSend, At, Continue
<1>2. CASE sock[c] = "open" /\ s2c' = [s2c EXCEPT ![c] = @ \o buf[c]] /\ UNCHANGED rst
  <2>1. s2c[c] \in Bytes /\ buf[c] \in Bytes /\ recvd[c] \in Bytes /\ c2s[c] \in Bytes
    BY DEF IInv, TypeOK
  <2>2. s2c[c] \o buf[c] \in Bytes /\ <<>> \in Bytes
    BY <2>1, Passing
  <2>3. TypeOK'
    <3>1. tpc' \in [Clients -> {"none", "poll", "send", "end", "failed"}]
      BY <1>1 DEF IInv, TypeOK
    <3>2. buf' \in [Clients -> Bytes] /\ s2c' \in [Clients -> Bytes]
      BY <1>1, <1>2, <2>2 DEF IInv, TypeOK
    <3> QED
      BY <1>1, <1>2, <3>1, <3>2 DEF IInv, TypeOK, server, client
  <2>4. \A d \in Clients \ {c} : buf'[d] = buf[d] /\ s2c'[d] = s2c[d] /\ tpc'[d] = tpc[d]
    BY <1>1, <1>2 DEF IInv, TypeOK
  <2>5. tpc'[c] = "poll" /\ buf'[c] = <<>> /\ s2c'[c] = s2c[c] \o buf[c]
    BY <1>1, <1>2 DEF IInv, TypeOK
  <2>6. HoldsInv' /\ LinkInv'
    BY <1>1, <1>2, <2>4, <2>5 DEF IInv, HoldsInv, LinkInv, client
  <2>7. BacklogInv'
    BY <1>1, NotWaiting DEF server
  <2>8. EchoInOrder'
    <3> SUFFICES ASSUME NEW d \in Clients, srv' = "up", sock'[d] = "open"
                 PROVE (recvd[d] \o s2c[d] \o buf[d] \o c2s[d] = [i \in 1..sent[d] |-> i])'
      BY DEF EchoInOrder
    <3>1. srv = "up" /\ sock[d] = "open" /\ UNCHANGED <<recvd, c2s, sent>>
      BY <1>1 DEF server, client
    <3>2. recvd[d] \o s2c[d] \o buf[d] \o c2s[d] = [i \in 1..sent[d] |-> i]
      BY <3>1 DEF IInv, EchoInOrder
    <3>3. CASE d = c
      <4>1. recvd[c] \o (s2c[c] \o buf[c]) = (recvd[c] \o s2c[c]) \o buf[c]
        BY <2>1, Joined, ZenonT(60)
      <4>2. recvd[c] \o (s2c[c] \o buf[c]) \in Bytes
        BY <2>1, <2>2, Passing
      <4>3. (recvd[c] \o (s2c[c] \o buf[c])) \o <<>> = recvd[c] \o (s2c[c] \o buf[c])
        BY <4>2, Passing
      <4> QED
        BY <2>5, <3>1, <3>2, <3>3, <4>1, <4>3
    <3>4. CASE d # c
      BY <2>4, <3>1, <3>2, <3>4
    <3> QED
      BY <3>3, <3>4
  <2> QED
    BY <2>3, <2>6, <2>7, <2>8 DEF IInv
<1>3. CASE /\ sock[c] # "open" /\ UNCHANGED s2c
           /\ rst' = IF rst[c] = "none" THEN [rst EXCEPT ![c] = "EPIPE"] ELSE rst
  <2>1. TypeOK'
    <3>1. tpc' \in [Clients -> {"none", "poll", "send", "end", "failed"}]
      BY <1>1 DEF IInv, TypeOK
    <3>2. buf' \in [Clients -> Bytes]
      BY <1>1, Passing DEF IInv, TypeOK
    <3>3. rst' \in [Clients -> {"none", "ECONNRESET", "EPIPE"}]
      BY <1>3 DEF IInv, TypeOK
    <3> QED
      BY <1>1, <1>3, <3>1, <3>2, <3>3 DEF IInv, TypeOK, server, client
  <2>2. \A d \in Clients \ {c} : buf'[d] = buf[d] /\ rst'[d] = rst[d] /\ tpc'[d] = tpc[d]
    BY <1>1, <1>3 DEF IInv, TypeOK
  <2>3. tpc'[c] = "poll" /\ buf'[c] = <<>> /\ sock[c] = "closed"
    BY <1>1, <1>3 DEF IInv, TypeOK, LinkInv
  <2>4. HoldsInv' /\ LinkInv'
    BY <1>1, <1>3, <2>2, <2>3 DEF IInv, HoldsInv, LinkInv, client
  <2>5. BacklogInv'
    BY <1>1, NotWaiting DEF server
  <2>6. EchoInOrder'
    BY <1>1, <1>3, <2>2 DEF IInv, EchoInOrder, server, client
  <2> QED
    BY <2>1, <2>4, <2>5, <2>6 DEF IInv
<1> QED
  BY <1>2, <1>3 DEF ThreadSend

\* An error of send drops what the thread holds, of a connection that is
\* closed, or ends the process.
LEMMA ThreadSendFailsStep == ASSUME IInv, NEW c \in Clients, ThreadSendFails(c) PROVE IInv'
<1>1. /\ tpc[c] = "send" /\ tpc' = [tpc EXCEPT ![c] = "poll"] /\ buf' = [buf EXCEPT ![c] = <<>>]
      /\ UNCHANGED <<backlog, client, sock, net, c2s, s2c>> /\ net[c] = "dead"
  BY DEF ThreadSendFails, At, Continue, AfterSendError
<1>2. /\ rst' = rst \/ rst' = [rst EXCEPT ![c] = "none"]
      /\ srv' \in {srv, "killed"}
  BY DEF ThreadSendFails
<1>3. TypeOK'
  <2>1. tpc' \in [Clients -> {"none", "poll", "send", "end", "failed"}]
    BY <1>1 DEF IInv, TypeOK
  <2>2. buf' \in [Clients -> Bytes]
    BY <1>1, Passing DEF IInv, TypeOK
  <2>3. rst' \in [Clients -> {"none", "ECONNRESET", "EPIPE"}]
    BY <1>2 DEF IInv, TypeOK
  <2> QED
    BY <1>1, <1>2, <2>1, <2>2, <2>3 DEF IInv, TypeOK, client
<1>4. \A d \in Clients : /\ tpc'[d] = IF d = c THEN "poll" ELSE tpc[d]
                         /\ buf'[d] = IF d = c THEN <<>> ELSE buf[d]
                         /\ rst'[d] \in {rst[d], "none"}
  BY <1>1, <1>2 DEF IInv, TypeOK
<1>5. sock[c] = "closed"
  BY <1>1 DEF IInv, TypeOK, LinkInv
<1>6. HoldsInv' /\ LinkInv'
  BY <1>1, <1>4, <1>5 DEF IInv, HoldsInv, LinkInv, client
<1>7. BacklogInv'
  BY <1>1, NotWaiting
<1>8. EchoInOrder'
  <2>1. srv' = "up" => srv = "up"
    BY <1>2
  <2>2. \A d \in Clients : sock[d] = "open" => buf'[d] = buf[d]
    BY <1>4, <1>5
  <2> QED
    BY <1>1, <2>1, <2>2 DEF IInv, EchoInOrder, client
<1> QED
  BY <1>3, <1>6, <1>7, <1>8 DEF IInv
-----------------------------------------------------------------------------
\* EchoInOrder: the loop of tcp_client and the threads of tcp_server, however
\* they interleave, however recv divides the stream and wherever errors or
\* time-outs fall, return the bytes of every open connection to the client
\* that sent them, once and in order.
THEOREM EveryByteComesBackInOrder == Spec => []EchoInOrder
<1>1. Init => IInv
  BY InitInv
<1>2. IInv /\ [Next]_vars => IInv'
  <2> SUFFICES ASSUME IInv, [Next]_vars PROVE IInv'
    OBVIOUS
  <2>1. CASE Accept
    BY <2>1, AcceptStep
  <2>2. CASE ServerFails
    BY <2>2, ServerFailsStep
  <2>3. ASSUME NEW c \in Clients, ClientStep(c) \/ PollFails(c) PROVE IInv'
    BY <2>3, ConnectStep, WaitStep, SendStep, RecvStep, CloseStep DEF ClientStep
  <2>4. ASSUME NEW c \in Clients, ThreadStep(c) \/ ThreadPollFails(c) \/ Reset(c) PROVE IInv'
    BY <2>4, ThreadRecvStep, ThreadStopStep, ThreadSendStep, ThreadSendFailsStep, ResetStep
       DEF ThreadStep
  <2>5. CASE UNCHANGED vars
    <3>1. TypeOK' /\ HoldsInv' /\ LinkInv' /\ BacklogInv'
      BY <2>5 DEF IInv, TypeOK, HoldsInv, LinkInv, BacklogInv, vars, server, thread, client, link
    <3>2. EchoInOrder'
      BY <2>5 DEF IInv, EchoInOrder, vars, server, thread, client, link
    <3> QED
      BY <3>1, <3>2 DEF IInv
  <2> QED
    BY <2>1, <2>2, <2>3, <2>4, <2>5 DEF Next
<1>3. IInv => EchoInOrder
  BY DEF IInv
<1> QED
  BY <1>1, <1>2, <1>3, PTL DEF Spec
=============================================================================
