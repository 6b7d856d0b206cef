----------------------------- MODULE MCEchoTcp -----------------------------
(***************************************************************************)
(* Arguments shorter than the buffer, as long, longer and empty.           *)
(***************************************************************************)
EXTENDS EchoTcp

CONSTANTS c1, c2
MCArgs == [c \in Clients |-> IF c = c1 THEN <<2, 3, 1>> ELSE <<0, 1>>]
=============================================================================
