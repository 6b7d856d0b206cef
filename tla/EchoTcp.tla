------------------------------ MODULE EchoTcp ------------------------------
(***************************************************************************)
(* posix/tcp_server and posix/tcp_client: a server with a thread for each  *)
(* connection, and clients that send their arguments one after the other   *)
(* and wait at most a second for an answer to each.  Bytes are numbered in *)
(* the order a client sends them.  c2s and s2c hold what was sent and not  *)
(* read, so a reader may find any part of it; arguments fit the buffers of *)
(* the sockets, so send does not block.  A connection closes as in Linux:  *)
(* close sends a FIN, or a reset when there are bytes the client has not   *)
(* read; bytes for a closed socket are answered with a reset; a reset      *)
(* leaves what was received, and one error, which the next send or the     *)
(* next recv that finds nothing to read gives back.                        *)
(***************************************************************************)
EXTENDS Integers, Sequences

CONSTANTS
  Clients,
  Args,     \* the lengths of the arguments of a client
  BufSize   \* sizeof(buf)

ASSUME EchoTcpAssumption ==
  BufSize \in Nat \ {0} /\ Args \in [Clients -> Seq(Nat)]

VARIABLES
  srv,      \* the server process
  backlog,  \* connections that accept has not taken
  tpc, buf, \* the threads of the server: where they are, what they have read
  cpc, j,   \* the clients: where they are, which argument is next
  sock,     \* the client's end of its connection
  net,      \* the server's end
  rst,      \* a reset on its way, or the error that one has left
  c2s, s2c,
  sent,     \* history: the number of bytes a client has sent
  recvd     \* history: the bytes it has received
server == <<srv, backlog>>
thread == <<tpc, buf>>
client == <<cpc, j, sent, recvd>>
link == <<sock, net, rst>>
vars == <<server, thread, client, link, c2s, s2c>>

Init ==
  /\ srv = "up" /\ backlog = <<>>
  /\ tpc = [c \in Clients |-> "none"] /\ buf = [c \in Clients |-> <<>>]
  /\ cpc = [c \in Clients |-> "connect"] /\ j = [c \in Clients |-> 1]
  /\ sock = [c \in Clients |-> "none"] /\ net = [c \in Clients |-> "open"]
  /\ rst = [c \in Clients |-> "none"]
  /\ c2s = [c \in Clients |-> <<>>] /\ s2c = [c \in Clients |-> <<>>]
  /\ sent = [c \in Clients |-> 0] /\ recvd = [c \in Clients |-> <<>>]

Take(s, n) == SubSeq(s, 1, n)
Drop(s, n) == SubSeq(s, n + 1, Len(s))
\* What one recv may return of the bytes in s.
Chunks(s) == {n \in 1..BufSize : n <= Len(s)}
-----------------------------------------------------------------------------
(* The client                                                              *)

Connect(c) ==
  /\ cpc[c] = "connect"
  /\ \/ /\ srv = "up" /\ backlog' = Append(backlog, c)
        /\ sock' = [sock EXCEPT ![c] = "open"] /\ cpc' = [cpc EXCEPT ![c] = "send"]
     \/ cpc' = [cpc EXCEPT ![c] = "close"] /\ UNCHANGED <<backlog, sock>>
  /\ UNCHANGED <<srv, thread, j, sent, recvd, net, rst, c2s, s2c>>

GoTo(c, pc) == cpc' = [cpc EXCEPT ![c] = pc]
\* "send" is the head of the loop over the arguments.
NextArg(c) == GoTo(c, "send") /\ j' = [j EXCEPT ![c] = @ + 1]

Ignore(c) ==
  /\ cpc[c] = "send" /\ j[c] <= Len(Args[c]) /\ Args[c][j[c]] > BufSize
  /\ NextArg(c)
  /\ UNCHANGED <<server, thread, sent, recvd, link, c2s, s2c>>

\* The bytes reach a server that is up; send may fail only when it is not.
Send(c) ==
  /\ cpc[c] = "send" /\ j[c] <= Len(Args[c]) /\ Args[c][j[c]] <= BufSize
  /\ LET bytes == [i \in 1..Args[c][j[c]] |-> sent[c] + i]
     IN  \/ /\ sent' = [sent EXCEPT ![c] = @ + Len(bytes)]
            /\ c2s' = IF srv = "up" THEN [c2s EXCEPT ![c] = @ \o bytes] ELSE c2s
            /\ GoTo(c, "poll")
         \/ srv # "up" /\ GoTo(c, "close") /\ UNCHANGED <<sent, c2s>>
  /\ UNCHANGED <<server, thread, j, recvd, link, s2c>>

\* poll finds bytes or the end of the connection.
Poll(c) ==
  /\ cpc[c] = "poll" /\ (s2c[c] # <<>> \/ srv # "up")
  /\ GoTo(c, "recv")
  /\ UNCHANGED <<server, thread, j, sent, recvd, link, c2s, s2c>>

PollFails(c) ==
  /\ cpc[c] = "poll"
  /\ GoTo(c, "close")
  /\ UNCHANGED <<server, thread, j, sent, recvd, link, c2s, s2c>>

Timeout_Never(c) == FALSE /\ UNCHANGED vars
Timeout(c) ==
  /\ cpc[c] = "poll"
  /\ NextArg(c)
  /\ UNCHANGED <<server, thread, sent, recvd, link, c2s, s2c>>

\* recv gives bytes; or 0 or -1 when the server is gone.
Recv(c) ==
  /\ cpc[c] = "recv"
  /\ \/ \E n \in Chunks(s2c[c]) :
          /\ recvd' = [recvd EXCEPT ![c] = @ \o Take(s2c[c], n)]
          /\ s2c' = [s2c EXCEPT ![c] = Drop(@, n)]
          /\ NextArg(c)
     \/ srv # "up" /\ (NextArg(c) \/ (GoTo(c, "close") /\ UNCHANGED j)) /\ UNCHANGED <<recvd, s2c>>
  /\ UNCHANGED <<server, thread, sent, link, c2s>>

\* The loop ends, or was left by an error, and main closes the socket.  A
\* FIN goes out before a reset that answers bytes still on their way.
Close(c) ==
  /\ cpc[c] = "close" \/ (cpc[c] = "send" /\ j[c] > Len(Args[c]))
  /\ GoTo(c, "done")
  /\ sock' = [sock EXCEPT ![c] = "closed"]
  /\ IF s2c[c] = <<>> THEN UNCHANGED rst
     ELSE \E r \in {"ECONNRESET", "EPIPE"} : rst' = [rst EXCEPT ![c] = r]
  /\ s2c' = [s2c EXCEPT ![c] = <<>>]
  /\ UNCHANGED <<server, thread, j, sent, recvd, net, c2s>>

ClientStep(c) == Connect(c) \/ Ignore(c) \/ Send(c) \/ Poll(c) \/ Timeout(c) \/ Recv(c) \/ Close(c)
-----------------------------------------------------------------------------
(* The server                                                              *)

\* A turn of tcp_server; the result of pthread_create is ignored.
Accept ==
  /\ srv = "up" /\ backlog # <<>>
  /\ backlog' = Tail(backlog)
  /\ \E pc \in {"poll", "none"} : tpc' = [tpc EXCEPT ![Head(backlog)] = pc]
  /\ UNCHANGED <<srv, buf, client, link, c2s, s2c>>

\* calloc, listen or accept fails, and main returns.
ServerFails ==
  /\ srv = "up" /\ srv' = "exited"
  /\ UNCHANGED <<backlog, thread, client, link, c2s, s2c>>

Reset(c) ==
  /\ rst[c] # "none" /\ net[c] = "open"
  /\ net' = [net EXCEPT ![c] = "dead"]
  /\ UNCHANGED <<server, thread, client, sock, rst, c2s, s2c>>

At(c, pc) == srv = "up" /\ tpc[c] = pc
Hangup(c) == sock[c] = "closed" /\ rst[c] # "ECONNRESET"

ThreadRecv_SharedBuf(c) ==
  /\ At(c, "poll")
  /\ \E n \in Chunks(c2s[c]) :
       /\ buf' = [d \in Clients |-> Take(c2s[c], n)]
       /\ c2s' = [c2s EXCEPT ![c] = Drop(@, n)]
  /\ tpc' = [tpc EXCEPT ![c] = "send"]
  /\ UNCHANGED <<server, client, link, s2c>>
ThreadRecv(c) ==
  /\ At(c, "poll")
  /\ \E n \in Chunks(c2s[c]) :
       /\ buf' = [buf EXCEPT ![c] = Take(c2s[c], n)]
       /\ c2s' = [c2s EXCEPT ![c] = Drop(@, n)]
  /\ tpc' = [tpc EXCEPT ![c] = "send"]
  /\ UNCHANGED <<server, client, link, s2c>>

\* recv returns 0 after the FIN, or after a reset whose error is known, and
\* the loop continues; it returns -1 for that error.
ThreadEof(c) ==
  /\ At(c, "poll") /\ c2s[c] = <<>> /\ (net[c] = "dead" \/ Hangup(c))
  /\ IF net[c] = "dead" /\ rst[c] # "none"
     THEN tpc' = [tpc EXCEPT ![c] = "end"] /\ rst' = [rst EXCEPT ![c] = "none"]
     ELSE UNCHANGED <<tpc, rst>>
  /\ UNCHANGED <<server, buf, client, sock, net, c2s, s2c>>

ThreadPollFails(c) ==
  /\ At(c, "poll")
  /\ tpc' = [tpc EXCEPT ![c] = "failed"]
  /\ UNCHANGED <<server, buf, client, link, c2s, s2c>>

Continue(c, pc) == tpc' = [tpc EXCEPT ![c] = pc] /\ buf' = [buf EXCEPT ![c] = <<>>]

ThreadSend(c) ==
  /\ At(c, "send") /\ net[c] = "open"
  /\ Continue(c, "poll")
  /\ IF sock[c] = "open"
     THEN s2c' = [s2c EXCEPT ![c] = @ \o buf[c]] /\ UNCHANGED rst
     ELSE /\ rst' = IF rst[c] = "none" THEN [rst EXCEPT ![c] = "EPIPE"] ELSE rst
          /\ UNCHANGED s2c
  /\ UNCHANGED <<server, client, sock, net, c2s>>

\* send gives back the error of a reset, which the thread reports; EPIPE
\* comes with a SIGPIPE, for which the process has no handler.
AfterSendError_Ends == "end"
AfterSendError == "poll"
ThreadSendFails(c) ==
  /\ At(c, "send") /\ net[c] = "dead"
  /\ IF rst[c] = "ECONNRESET"
     THEN rst' = [rst EXCEPT ![c] = "none"] /\ UNCHANGED srv
     ELSE srv' = "killed" /\ UNCHANGED rst
  /\ Continue(c, AfterSendError)
  /\ UNCHANGED <<backlog, client, sock, net, c2s, s2c>>

ThreadStep(c) == ThreadRecv(c) \/ ThreadEof(c) \/ ThreadSend(c) \/ ThreadSendFails(c)

Next ==
  \/ Accept \/ ServerFails
  \/ \E c \in Clients : \/ ClientStep(c) \/ PollFails(c)
                        \/ ThreadStep(c) \/ ThreadPollFails(c) \/ Reset(c)

\* A client is never stopped for good, and neither is a thread of a server
\* that is up: the scheduler runs both, and poll gives up after a second.
Spec ==
  /\ Init /\ [][Next]_vars
  /\ \A c \in Clients : WF_vars(ClientStep(c)) /\ WF_vars(ThreadStep(c))
-----------------------------------------------------------------------------
(* Properties                                                              *)

\* While a connection is up no byte is lost, repeated, reordered or given to
\* another client: what was received, what is on its way back, what the
\* thread holds and what it has not read are the bytes sent, in order.  So a
\* late echo is read before the echo of a later argument.
EchoInOrder ==
  \A c \in Clients : srv = "up" /\ sock[c] = "open" =>
    recvd[c] \o s2c[c] \o buf[c] \o c2s[c] = [i \in 1..sent[c] |-> i]

\* Every client ends, whatever becomes of the server or of its thread: the
\* wait for an answer is bounded (pollin in the loop over the arguments).
ClientEnds == \A c \in Clients : <>(cpc[c] = "done")

\* A thread reads all its client has sent, also after the client has closed
\* or reset the connection, unless the process ends or poll fails: errors of
\* send do not end it.
ThreadReadsAll ==
  \A c \in Clients : tpc[c] = "poll" /\ c2s[c] # <<>> ~>
    c2s[c] = <<>> \/ srv # "up" \/ tpc[c] = "failed"
=============================================================================
