--------------------------- MODULE MCQueueDeadline ---------------------------
(* A second of 3 milliseconds of 2 nanoseconds; timeouts up to two seconds *)
(* and a bit, of either sign.                                              *)
EXTENDS QueueDeadline
MCTimeouts == -7..7
=============================================================================
