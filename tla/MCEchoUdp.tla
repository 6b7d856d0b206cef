----------------------------- MODULE MCEchoUdp -----------------------------
(***************************************************************************)
(* Arguments within the buffer, longer than it and empty; a stranger that  *)
(* sends datagrams to the server and to the clients, and which listens to  *)
(* the server's port on its own host; a client c2 that was given a name.   *)
(***************************************************************************)
EXTENDS EchoUdp

CONSTANTS c1, c2
MCArgs == [c \in Clients |-> IF c = c1 THEN <<2, 3, 2>> ELSE <<0, 0>>]
MCServerPort == [a \in Addresses |-> IF a \in Clients THEN Nobody ELSE a]
=============================================================================
