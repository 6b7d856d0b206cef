---------------------------- MODULE MCQueueDrain ----------------------------
(* The program of examples/queue_multithreaded with a queue of nmemb       *)
(* elements, 2 * nmemb messages and one or two readers.                    *)
EXTENDS QueueDrain

CONSTANTS r1, r2, v1, v2

ASSUME DrainAssumption == DrainProgram
=============================================================================
