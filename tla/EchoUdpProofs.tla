---------------------------- MODULE EchoUdpProofs ----------------------------
(***************************************************************************)
(* The echo over UDP for any number of clients and other programs, and any *)
(* arguments and buffer size.  EchoGoesHome is not inductive: an echo goes *)
(* home because peer_addr and buf were written by the same recvfrom, from  *)
(* a datagram whose sender had written its payload.                        *)
(***************************************************************************)
EXTENDS EchoUdp, TLAPS

Payloads == [by : Addresses, size : Nat, len : Nat]
Datagrams == [src : Addresses, dst : Addresses, payload : Payloads]

\* The length recvfrom leaves of a payload of that size.
CutLen(size) == IF size > BufSize THEN BufSize ELSE size

\* The payload of an echo: someone else's, cut off and not empty.
Echo(p) == p.by # Server /\ p.len = CutLen(p.size) /\ p.len > 0

\* Who has written a datagram and where it goes.
NetInv ==
  \A d \in net :
    /\ d \in Datagrams
    /\ d.src = Server => d.dst = d.payload.by /\ Echo(d.payload)
    /\ d.src # Server => d.payload.by = d.src /\ d.payload.len = d.payload.size
    /\ d.src \in Dotted => d.dst = Server

\* What the server is about to send, and to whom.
BufInv ==
  /\ spc = "send" => /\ buf \in Payloads /\ Echo(buf)
                     /\ peer_addr = buf.by

ArgInv == j \in [Clients -> Nat \ {0}]

\* What a client's peer_addr holds.
AddrInv == c_addr \in [Clients -> Addresses \cup {NoAddress}]

IInv == NetInv /\ BufInv /\ ArgInv /\ AddrInv
-----------------------------------------------------------------------------
LEMMA InitInv == Init => IInv
BY EchoUdpAssumption DEF EchoUdpAssumption, Init, IInv, NetInv, BufInv, ArgInv, AddrInv

\* The network only loses and copies.
LEMMA DeliverKeeps ==
  ASSUME NetInv, NEW d, Deliver(d)
  PROVE  NetInv' /\ d \in net
BY DEF NetInv, Deliver

\* A datagram is added to the network.
LEMMA SendKeeps ==
  ASSUME NetInv, NEW d \in Datagrams, net' = net \cup {d},
         d.src = Server => d.dst = d.payload.by /\ Echo(d.payload),
         d.src # Server => d.payload.by = d.src /\ d.payload.len = d.payload.size,
         d.src \in Dotted => d.dst = Server
  PROVE  NetInv'
BY DEF NetInv

LEMMA RecvStep ==
  ASSUME IInv, NEW d \in net, Recv(d)
  PROVE  IInv'
<1> USE EchoUdpAssumption DEF EchoUdpAssumption
<1>1. NetInv'
  BY DeliverKeeps DEF IInv, Recv
<1>2. /\ d \in Datagrams /\ d.src # Server
      /\ d.payload.by = d.src /\ d.payload.len = d.payload.size
  BY DEF IInv, NetInv, Recv, Echo
<1>3. BufInv'
  <2>1. SUFFICES ASSUME spc' = "send"
                 PROVE  buf' \in Payloads /\ Echo(buf') /\ peer_addr' = buf'.by
    BY DEF BufInv
  <2>2. /\ buf' = Cut(d.payload) /\ peer_addr' = d.src /\ d.payload.len # 0
    BY <2>1 DEF Recv
  <2>3. d.payload \in Payloads /\ d.payload.len \in Nat
    BY <1>2 DEF Datagrams, Payloads
  <2>4. /\ Cut(d.payload) \in Payloads /\ Cut(d.payload).by = d.payload.by
        /\ Cut(d.payload).size = d.payload.size /\ Cut(d.payload).len = CutLen(d.payload.len)
    BY <2>3 DEF Cut, CutLen, Payloads
  <2>5. CutLen(d.payload.len) > 0
    BY <2>2, <2>3 DEF CutLen
  <2> QED
    BY <1>2, <2>2, <2>4, <2>5 DEF Echo
<1>4. ArgInv' /\ AddrInv'
  BY DEF IInv, ArgInv, AddrInv, Recv, client
<1> QED
  BY <1>1, <1>3, <1>4 DEF IInv

LEMMA InvStep == IInv /\ [Next]_vars => IInv'
<1> SUFFICES ASSUME IInv, [Next]_vars PROVE IInv'
  OBVIOUS
<1> USE EchoUdpAssumption DEF EchoUdpAssumption, IInv, client, server
<1>1. ASSUME Lose PROVE IInv'
  BY <1>1 DEF Lose, NetInv, BufInv, ArgInv, AddrInv
<1>2. ASSUME NEW s \in Strangers, Stray(s) PROVE IInv'
  <2>1. PICK len \in StrayLens, dst \in {Server} \cup Clients :
          net' = net \cup {Datagram(s, dst, Payload(s, len))}
    BY <1>2 DEF Stray
  <2> DEFINE d == Datagram(s, dst, Payload(s, len))
  <2>2. /\ d \in Datagrams /\ d.src = s /\ s # Server /\ s \notin Clients
        /\ d.payload.by = s /\ d.payload.len = d.payload.size
    BY DEF Datagram, Payload, Datagrams, Payloads, Addresses
  <2> HIDE DEF d
  <2>3. NetInv'
    BY <2>1, <2>2, SendKeeps DEF d
  <2> QED
    BY <1>2, <2>3 DEF Stray, BufInv, ArgInv, AddrInv
<1>3. ASSUME NEW d \in net, Recv(d) PROVE IInv'
  BY <1>3, RecvStep
<1>4. ASSUME Send PROVE IInv'
  <2> DEFINE d == Datagram(Server, peer_addr, buf)
  <2>1. spc = "send" /\ spc' = "poll" /\ UNCHANGED <<peer_addr, buf, cpc, j, c_addr>>
        /\ (net' = net \/ net' = net \cup {d})
    BY <1>4 DEF Send
  <2>2. buf \in Payloads /\ Echo(buf) /\ peer_addr = buf.by
    BY <2>1 DEF BufInv
  <2>3. /\ d \in Datagrams /\ d.src = Server /\ d.dst = d.payload.by /\ Echo(d.payload)
    BY <2>2 DEF Datagram, Datagrams, Payloads, Addresses
  <2> HIDE DEF d
  <2>4. NetInv'
    <3>1. CASE net' = net
      BY <3>1 DEF NetInv
    <3>2. CASE net' = net \cup {d}
      BY <2>3, <3>2, SendKeeps
    <3> QED
      BY <2>1, <3>1, <3>2
  <2> QED
    BY <2>1, <2>4 DEF BufInv, ArgInv, AddrInv
<1>5. ASSUME ServerFails PROVE IInv'
  BY <1>5 DEF ServerFails, NetInv, BufInv, ArgInv, AddrInv
<1>6. ASSUME NEW c \in Clients, Ignore(c) \/ ClientTimeout(c) \/ Done(c) \/ ClientFails(c) PROVE IInv'
  <2>1. /\ UNCHANGED <<net, spc, peer_addr, buf, c_addr>>
        /\ j' = j \/ j' = [j EXCEPT ![c] = @ + 1]
    BY <1>6 DEF Ignore, ClientTimeout, Done, ClientFails, NextArg
  <2>2. ArgInv'
    <3>1. j \in [Clients -> Nat \ {0}] /\ j[c] + 1 \in Nat \ {0}
      BY DEF ArgInv
    <3>2. CASE j' = j
      BY <3>1, <3>2 DEF ArgInv
    <3>3. CASE j' = [j EXCEPT ![c] = @ + 1]
      BY <3>1, <3>3 DEF ArgInv
    <3> QED
      BY <2>1, <3>2, <3>3
  <2> QED
    BY <2>1, <2>2 DEF NetInv, BufInv, AddrInv
<1>7. ASSUME NEW c \in Clients, ClientSend(c) PROVE IInv'
  <2>1. PICK a \in Aims(c) :
          /\ c_addr' = [c_addr EXCEPT ![c] = a]
          /\ net' = net \cup {Datagram(c, a, Payload(c, Args[c][j[c]]))}
    BY <1>7 DEF ClientSend
  <2> DEFINE d == Datagram(c, a, Payload(c, Args[c][j[c]]))
  <2>2. UNCHANGED <<spc, peer_addr, buf, j>> /\ j[c] <= Len(Args[c])
    BY <1>7 DEF ClientSend
  <2>3. a \in Addresses /\ (c \in Dotted => a = Server)
    BY DEF Aims, AddrInv, Addresses
  <2>4. Args[c][j[c]] \in Nat
    BY <2>2 DEF ArgInv
  <2>5. /\ d \in Datagrams /\ d.src = c /\ c # Server /\ d.dst = a
        /\ d.payload.by = c /\ d.payload.len = d.payload.size
    BY <2>3, <2>4 DEF Datagram, Payload, Datagrams, Payloads, Addresses
  <2>6. net' = net \cup {d}
    BY <2>1
  <2> HIDE DEF d
  <2>7. NetInv'
    BY <2>3, <2>5, <2>6, SendKeeps
  <2>8. AddrInv'
    BY <2>1, <2>3 DEF AddrInv
  <2> QED
    BY <2>2, <2>7, <2>8 DEF BufInv, ArgInv
<1>8. ASSUME NEW c \in Clients, NEW d \in net, ClientRecv(c, d) PROVE IInv'
  <2>1. NetInv'
    BY <1>8, DeliverKeeps DEF ClientRecv
  <2>2. d.src \in Addresses
    BY DEF NetInv, Datagrams
  <2>3. AddrInv'
    BY <1>8, <2>2 DEF ClientRecv, AddrInv
  <2> QED
    BY <1>8, <2>1, <2>3 DEF ClientRecv, NextArg, GoTo, BufInv, ArgInv
<1>9. ASSUME UNCHANGED vars PROVE IInv'
  BY <1>9 DEF vars, NetInv, BufInv, ArgInv, AddrInv
<1> QED
  BY <1>1, <1>2, <1>3, <1>4, <1>5, <1>6, <1>7, <1>8, <1>9 DEF Next, ClientStep

\* Whatever the network loses, copies and reorders and whoever else sends to
\* them, udp_server echoes to the author of what it has received, and the
\* clients that were given a dotted address send to that server only.
THEOREM EveryDatagramIsWellAddressed == Spec => []WellAddressed
<1>1. IInv => WellAddressed
  BY DEF IInv, NetInv, WellAddressed, EchoGoesHome, ClientTalksToServer, Echo, CutLen
<1> QED
  BY InitInv, InvStep, <1>1, PTL DEF Spec
=============================================================================
