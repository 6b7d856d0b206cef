------------------------------ MODULE EchoUdp ------------------------------
(***************************************************************************)
(* posix/udp_server and posix/udp_client over a network that loses, copies *)
(* and reorders datagrams, and that others use too.  A datagram is where   *)
(* it comes from and goes to, who wrote its payload (by), the length it    *)
(* was written with and the length it has.                                 *)
(***************************************************************************)
EXTENDS Integers, Sequences

CONSTANTS
  Server, Clients,
  Strangers,   \* other programs that send datagrams
  StrayLens,   \* the lengths of those
  Args,        \* the lengths of the arguments of a client
  Dotted,      \* the clients whose <host> is the server's address in dots;
               \* the others were given a name, which inet_aton refuses
  Nobody,      \* an address at which there is no program
  ServerPort,  \* who is reached at the server's port of a program's host
  BufSize      \* sizeof(buf)

Addresses == {Server, Nobody} \cup Clients \cup Strangers

ASSUME EchoUdpAssumption ==
  /\ Server \notin Clients \cup Strangers /\ Clients \cap Strangers = {}
  /\ Dotted \subseteq Clients /\ Nobody \notin {Server} \cup Clients \cup Strangers
  /\ ServerPort \in [Addresses -> Addresses] /\ ServerPort[Server] = Server
  /\ BufSize \in Nat \ {0} /\ StrayLens \subseteq Nat /\ Args \in [Clients -> Seq(Nat)]

VARIABLES
  net,                     \* the datagrams on their way
  spc, peer_addr, buf,     \* the server: peer_addr and what is in buf
  cpc, j, c_addr           \* the clients: c_addr is their peer_addr
server == <<spc, peer_addr, buf>>
client == <<cpc, j, c_addr>>
vars == <<net, server, client>>

NoAddress == "uninitialised"
Empty == [by |-> Server, size |-> 0, len |-> 0]

Init ==
  /\ net = {}
  /\ spc = "poll" /\ peer_addr = NoAddress /\ buf = Empty
  /\ cpc = [c \in Clients |-> "send"] /\ j = [c \in Clients |-> 1]
  /\ c_addr = [c \in Clients |-> NoAddress]

Datagram(src, dst, payload) == [src |-> src, dst |-> dst, payload |-> payload]
Payload(by, size) == [by |-> by, size |-> size, len |-> size]

\* recvfrom cuts a datagram off at the end of the buffer.
Cut(payload) == [payload EXCEPT !.len = IF @ > BufSize THEN BufSize ELSE @]

\* The network delivers d, and may keep a copy of it.
Deliver(d) == d \in net /\ (net' = net \ {d} \/ net' = net)

Lose == \E d \in net : net' = net \ {d} /\ UNCHANGED <<server, client>>

Stray(s) ==
  /\ \E len \in StrayLens, dst \in {Server} \cup Clients :
       net' = net \cup {Datagram(s, dst, Payload(s, len))}
  /\ UNCHANGED <<server, client>>
-----------------------------------------------------------------------------
(* The server.  poll that times out starts the loop again.                 *)

Recv(d) ==
  /\ spc = "poll" /\ d.dst = Server /\ Deliver(d)
  /\ buf' = Cut(d.payload) /\ peer_addr' = d.src
  /\ spc' = IF d.payload.len = 0 THEN "poll" ELSE "send"
  /\ UNCHANGED client

\* sendto that fails is reported and the loop continues.
Send ==
  /\ spc = "send" /\ spc' = "poll"
  /\ net' \in {net, net \cup {Datagram(Server, peer_addr, buf)}}
  /\ UNCHANGED <<peer_addr, buf, client>>

\* poll or recvfrom fails, and main returns.
ServerFails ==
  /\ spc = "poll" /\ spc' = "exited"
  /\ UNCHANGED <<net, peer_addr, buf, client>>
-----------------------------------------------------------------------------
(* The clients                                                             *)

GoTo(c, pc) == cpc' = [cpc EXCEPT ![c] = pc]
NextArg(c) == GoTo(c, "send") /\ j' = [j EXCEPT ![c] = @ + 1]

Ignore(c) ==
  /\ cpc[c] = "send" /\ j[c] <= Len(Args[c]) /\ Args[c][j[c]] > BufSize
  /\ NextArg(c)
  /\ UNCHANGED <<net, server, c_addr>>

Aims_Once(c) ==
  IF c_addr[c] # NoAddress THEN {ServerPort[c_addr[c]]}
  ELSE IF c \in Dotted THEN {Server} ELSE {ServerPort[a] : a \in Addresses}
\* What peer_addr may hold once its port is set and inet_aton, whose result
\* nobody looks at, has been called: for a <host> it refuses, the host is the
\* one of the last recvfrom, or any before the first.
Aims(c) ==
  IF c \in Dotted THEN {Server}
  ELSE {ServerPort[a] : a \in IF c_addr[c] = NoAddress THEN Addresses ELSE {c_addr[c]}}

ClientSend(c) ==
  /\ cpc[c] = "send" /\ j[c] <= Len(Args[c]) /\ Args[c][j[c]] <= BufSize
  /\ \E a \in Aims(c) :
       /\ c_addr' = [c_addr EXCEPT ![c] = a]
       /\ net' = net \cup {Datagram(c, a, Payload(c, Args[c][j[c]]))}
  /\ GoTo(c, "poll")
  /\ UNCHANGED <<server, j>>

\* sendto, poll or recvfrom fails and client returns.
ClientFails(c) ==
  /\ cpc[c] \in {"send", "poll"}
  /\ GoTo(c, "done")
  /\ UNCHANGED <<net, server, j, c_addr>>

ClientTimeout_Never(c) == FALSE /\ UNCHANGED vars
ClientTimeout(c) ==
  /\ cpc[c] = "poll"
  /\ NextArg(c)
  /\ UNCHANGED <<net, server, c_addr>>

\* recvfrom of anything that is there, of length 0 too.
ClientRecv(c, d) ==
  /\ cpc[c] = "poll" /\ d.dst = c /\ Deliver(d)
  /\ c_addr' = [c_addr EXCEPT ![c] = d.src]
  /\ NextArg(c)
  /\ UNCHANGED server

Done(c) ==
  /\ cpc[c] = "send" /\ j[c] > Len(Args[c])
  /\ GoTo(c, "done")
  /\ UNCHANGED <<net, server, j, c_addr>>

ClientStep(c) ==
  \/ Ignore(c) \/ ClientSend(c) \/ ClientTimeout(c) \/ Done(c)
  \/ \E d \in net : ClientRecv(c, d)

Next ==
  \/ Lose \/ (\E s \in Strangers : Stray(s))
  \/ (\E d \in net : Recv(d)) \/ Send \/ ServerFails
  \/ \E c \in Clients : ClientStep(c) \/ ClientFails(c)

\* A client is never stopped for good and its poll gives up after a second;
\* nothing is assumed of the network or of the server.
Spec == Init /\ [][Next]_vars /\ \A c \in Clients : WF_vars(ClientStep(c))
-----------------------------------------------------------------------------
(* Properties                                                              *)

\* An echo goes to the program that wrote it and to no other, and carries
\* what it wrote, cut off at the buffer's size and never empty, although
\* peer_addr and buf are overwritten by every datagram.
EchoGoesHome ==
  \A d \in net : d.src = Server =>
    /\ d.dst = d.payload.by
    /\ d.payload.len = (IF d.payload.size > BufSize THEN BufSize ELSE d.payload.size)
    /\ d.payload.len > 0

\* A client that was given a dotted address sends to no other, although
\* recvfrom puts the sender of whatever arrives into the variable it sends
\* to.  One that was given a name follows whoever has answered it last.
ClientTalksToServer == \A d \in net : d.src \in Dotted => d.dst = Server

\* Whatever is lost, copied, reordered or sent by others, echo_server sends
\* back to the author, and client to its server if it has parsed its address.
WellAddressed == EchoGoesHome /\ ClientTalksToServer

\* Every client ends although any datagram may be lost and the server gone.
ClientEnds == \A c \in Clients : <>(cpc[c] = "done")
=============================================================================
