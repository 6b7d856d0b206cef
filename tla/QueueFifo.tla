------------------------------ MODULE QueueFifo ------------------------------
(***************************************************************************)
(* What lib/queue.c promises its callers: a bounded FIFO on which every    *)
(* call takes effect at one instant between its invocation and its return. *)
(* A send is refused only when the queue is full at that instant, a        *)
(* receive only when it is empty.                                          *)
(***************************************************************************)
EXTENDS Integers, Sequences

CONSTANTS Threads, Values, nmemb, NoVal

VARIABLES
  items,    \* the messages in the queue, oldest first
  stage,    \* how far each thread's current call is
  call,     \* the operation each thread called last
  val       \* the element it sends, has received, or the answer it was given

vars == <<items, stage, call, val>>

Queries == {"is_empty", "is_full", "space_available", "empty_wait"}

\* What each query answers about a queue of n messages; empty_wait answers
\* "not empty".
Answer(o, n) ==
  CASE o = "is_empty"        -> IF n = 0 THEN 1 ELSE 0
    [] o = "is_full"         -> IF n = nmemb THEN 1 ELSE 0
    [] o = "space_available" -> nmemb - n
    [] o = "empty_wait"      -> IF n = 0 THEN 0 ELSE 1

Init ==
  /\ items = <<>>
  /\ stage = [t \in Threads |-> "idle"]
  /\ call = [t \in Threads |-> "none"]
  /\ val = [t \in Threads |-> NoVal]

Invoke(t, o, v) ==
  /\ stage[t] = "idle"
  /\ v # NoVal => o = "send"
  /\ stage' = [stage EXCEPT ![t] = "pending"]
  /\ call' = [call EXCEPT ![t] = o]
  /\ val' = [val EXCEPT ![t] = v]
  /\ UNCHANGED items

Put(t) ==
  /\ stage[t] = "pending" /\ call[t] = "send"
  /\ Len(items) < nmemb
  /\ items' = Append(items, val[t])
  /\ stage' = [stage EXCEPT ![t] = "done"]
  /\ UNCHANGED <<call, val>>

Take(t) ==
  /\ stage[t] = "pending" /\ call[t] = "recv"
  /\ items # <<>>
  /\ items' = Tail(items)
  /\ val' = [val EXCEPT ![t] = Head(items)]
  /\ stage' = [stage EXCEPT ![t] = "done"]
  /\ UNCHANGED call

Refuse(t) ==
  /\ stage[t] = "pending"
  /\ \/ call[t] = "send" /\ Len(items) = nmemb
     \/ call[t] = "recv" /\ items = <<>>
  /\ stage' = [stage EXCEPT ![t] = "refused"]
  /\ UNCHANGED <<items, call, val>>

Observe(t) ==
  /\ stage[t] = "pending" /\ call[t] \in Queries
  /\ val' = [val EXCEPT ![t] = Answer(call[t], Len(items))]
  /\ stage' = [stage EXCEPT ![t] = "done"]
  /\ UNCHANGED <<items, call>>

Return(t) ==
  /\ stage[t] \in {"done", "refused"}
  /\ stage' = [stage EXCEPT ![t] = "idle"]
  /\ UNCHANGED <<items, call, val>>

\* A thread may be cancelled, but only between two calls.
Stop(t) ==
  /\ stage[t] = "idle"
  /\ stage' = [stage EXCEPT ![t] = "dead"]
  /\ UNCHANGED <<items, call, val>>

Next ==
  \E t \in Threads :
    \/ \E o \in {"send", "recv"} \cup Queries, v \in Values \cup {NoVal} : Invoke(t, o, v)
    \/ Put(t) \/ Take(t) \/ Refuse(t) \/ Observe(t) \/ Return(t) \/ Stop(t)

Spec == Init /\ [][Next]_vars
=============================================================================
