------------------------------- MODULE Deque -------------------------------
(***************************************************************************)
(* What lib/cvector.c promises: a sequence of pointers that grows at the   *)
(* back and can be popped at either end.  NULL is returned, and nothing    *)
(* changes, when there is nothing to pop or no memory to push.             *)
(***************************************************************************)
EXTENDS Integers, Sequences

CONSTANTS Objects, NULL
VARIABLES items, popped
vars == <<items, popped>>

Init == items = <<>> /\ popped = NULL

Push(x) == items' = Append(items, x) /\ UNCHANGED popped

Pop ==
  /\ items # <<>>
  /\ popped' = items[Len(items)]
  /\ items' = SubSeq(items, 1, Len(items) - 1)

PopFront == items # <<>> /\ popped' = Head(items) /\ items' = Tail(items)

PopNothing == items = <<>> /\ popped' = NULL /\ UNCHANGED items

Free == items' = <<>> /\ UNCHANGED popped

Next == (\E x \in Objects : Push(x)) \/ Pop \/ PopFront \/ PopNothing \/ Free
Spec == Init /\ [][Next]_vars
=============================================================================
