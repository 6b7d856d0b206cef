------------------------------ MODULE Sockets ------------------------------
(***************************************************************************)
(* How the four echo programs get their descriptors and what they give     *)
(* back: main with socket_tcp or socket_udp (the same function but for the *)
(* socket type) and, in the servers, socket_port, and the descriptors      *)
(* tcp_server gets from accept.  Every system call may fail.  EchoTcp and  *)
(* EchoUdp model what they do with the sockets.                            *)
(***************************************************************************)
EXTENDS Integers

CONSTANTS
  MaxAddrs,   \* the longest list of addresses getaddrinfo returns
  MaxFd       \* the largest descriptor the process may have

Servers == {"tcp_server", "udp_server"}
Clients == {"tcp_client", "udp_client"}

SocketsAssumption == MaxAddrs \in Nat \ {0} /\ MaxFd \in Nat

VARIABLE st   \* the state of one program, a record

Init ==
  \E prog \in Servers \cup Clients :
    st = [ prog |-> prog, pc |-> "start",
           left |-> 0,    \* addresses the loop has still to try
           sd |-> 0,      \* socket descriptor; -1 is an error
           open |-> {},   \* descriptors open besides the standard streams
           accepted |-> {}, \* descriptors accept has returned, the pd->sd
           status |-> 0 ] \* what main returns

\* socket() and accept() give the lowest free descriptor, if there is one.
NewFds == {fd \in 3..MaxFd : fd \notin st.open /\ \A f \in 3..(fd - 1) : f \in st.open}

Exit(s, status) == [s EXCEPT !.pc = "done", !.status = status]

\* The servers print their usage and go on without a port.
Start ==
  /\ st.pc = "start"
  /\ \/ st' = [st EXCEPT !.pc = "resolve"]
     \/ st.prog \in Clients /\ st' = Exit(st, -1)

Resolve ==
  /\ st.pc = "resolve"
  /\ \/ \E n \in 1..MaxAddrs : st' = [st EXCEPT !.sd = -1, !.left = n, !.pc = "walk"]
     \/ st' = [st EXCEPT !.sd = -1, !.pc = "got"]

\* One address: socket() fails, bind() succeeds or bind() fails.
TryAddress_KeepsOpen ==
  /\ st.pc = "walk" /\ st.left > 0
  /\ \/ st' = [st EXCEPT !.left = @ - 1, !.sd = -1]
     \/ \E fd \in NewFds, pc \in {"walk", "got"} :
          st' = [st EXCEPT !.left = @ - 1, !.sd = fd, !.open = @ \cup {fd}, !.pc = pc]
TryAddress ==
  /\ st.pc = "walk" /\ st.left > 0
  /\ \/ st' = [st EXCEPT !.left = @ - 1, !.sd = -1]
     \/ \E fd \in NewFds :
          \/ st' = [st EXCEPT !.left = @ - 1, !.sd = fd, !.open = @ \cup {fd}, !.pc = "got"]
          \/ st' = [st EXCEPT !.left = @ - 1, !.sd = fd]

\* The loop ends without a bind and returns the last sd.
WalkEnds == st.pc = "walk" /\ st.left = 0 /\ st' = [st EXCEPT !.pc = "got"]

Got ==
  /\ st.pc = "got"
  /\ st' = IF st.sd < 0 THEN Exit(st, -1)
           ELSE [st EXCEPT !.pc = IF st.prog = "udp_client" THEN "serve" ELSE "prepare"]

\* In the servers: getsockname fails on a descriptor that is not open.
socket_port ==
  /\ st.pc = "prepare" /\ st.prog \in Servers /\ st.sd \in st.open
  /\ st' = [st EXCEPT !.pc = "serve"]

\* In tcp_client: so does connect.
Connect ==
  /\ st.pc = "prepare" /\ st.prog \in Clients /\ st.sd \in st.open
  /\ st' = [st EXCEPT !.pc = "serve"]

PrepareFails == st.pc = "prepare" /\ st' = Exit([st EXCEPT !.open = @ \ {st.sd}], -1)

\* accept in tcp_server.  The thread that gets the descriptor ends without
\* closing it, and so does main: it stays open.
Accept ==
  /\ st.pc = "serve" /\ st.prog = "tcp_server" /\ st.sd \in st.open
  /\ \E fd \in NewFds :
       st' = [st EXCEPT !.open = @ \cup {fd}, !.accepted = @ \cup {fd}]

\* tcp_server, echo_server or client returns, tcp_server at the latest when
\* accept finds no descriptor free; main ignores the result.
Served == st.pc = "serve" /\ st' = Exit([st EXCEPT !.open = @ \ {st.sd}], 0)

Next ==
  \/ Start \/ Resolve \/ TryAddress \/ WalkEnds \/ Got
  \/ socket_port \/ Connect \/ PrepareFails \/ Accept \/ Served

Spec == Init /\ [][Next]_st
-----------------------------------------------------------------------------
(* Properties                                                              *)

\* Every way out of main has closed every socket socket_tcp or socket_udp
\* made, whichever addresses failed, and none that belongs to a connection,
\* although sd may be the number of a descriptor closed long ago.  What is
\* open at the end is exactly what accept has returned in the whole run.
SocketsClosed == st.pc = "done" => st.open = st.accepted
=============================================================================
