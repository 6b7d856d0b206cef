------------------------------ MODULE Cvector ------------------------------
(***************************************************************************)
(* lib/cvector.c: a vector of pointers in one heap block, ended by a NULL  *)
(* and with no stored length.  Every call finds the end by walking to the  *)
(* NULL, so the block must always hold one.  Used as examples/vector does: *)
(* the caller allocates what it pushes, keeps the old vector when pushv    *)
(* fails, and frees what it pops.                                          *)
(***************************************************************************)
EXTENDS Integers, Sequences, FiniteSets, FiniteSetsExt

CONSTANTS Objects, NULL, MaxLen

ASSUME CvectorAssumption == NULL \notin Objects /\ MaxLen \in Nat

VARIABLES
  ptrs,      \* the cells of the block; <<>> is the NULL vector
  allocated, \* objects the caller has allocated and nobody has freed
  freed,     \* objects freed twice
  popped     \* what the last pop returned
vars == <<ptrs, allocated, freed, popped>>

\* Cells before the terminator; a walk without one leaves the block.
Ends == {i \in 1..Len(ptrs) : ptrs[i] = NULL}
countv == IF Ends = {} THEN Len(ptrs) ELSE Min(Ends) - 1
Contents == SubSeq(ptrs, 1, countv)

\* free of an object, remembered if it was not allocated.
FreeObjects(S) ==
  /\ allocated' = allocated \ S
  /\ freed' = freed \cup (S \ allocated)
-----------------------------------------------------------------------------
Init == ptrs = <<>> /\ allocated = {} /\ freed = {} /\ popped = NULL

\* realloc to two cells more than are in use, which may shrink the block.
pushv(x) ==
  /\ x \notin allocated /\ countv < MaxLen
  /\ ptrs' = Contents \o <<x, NULL>>
  /\ allocated' = allocated \cup {x}
  /\ UNCHANGED <<freed, popped>>

\* realloc fails; the caller frees the object again and the vector stays.
pushv_fails(x) ==
  /\ x \notin allocated
  /\ UNCHANGED vars

popv_KeepsLast ==
  /\ ptrs # <<>> /\ countv > 0
  /\ popped' = ptrs[countv]
  /\ FreeObjects({ptrs[countv]})
  /\ UNCHANGED ptrs
popv ==
  /\ ptrs # <<>> /\ countv > 0
  /\ popped' = ptrs[countv]
  /\ ptrs' = [ptrs EXCEPT ![countv] = NULL]
  /\ FreeObjects({ptrs[countv]})

\* Every cell in use takes the one after it, the terminator included.
popv_front_OneShort ==
  /\ ptrs # <<>> /\ countv > 0
  /\ popped' = ptrs[1]
  /\ ptrs' = [i \in 1..Len(ptrs) |-> IF i < countv THEN ptrs[i + 1] ELSE ptrs[i]]
  /\ FreeObjects({ptrs[1]})
popv_front ==
  /\ ptrs # <<>> /\ countv > 0
  /\ popped' = ptrs[1]
  /\ ptrs' = [i \in 1..Len(ptrs) |-> IF i <= countv THEN ptrs[i + 1] ELSE ptrs[i]]
  /\ FreeObjects({ptrs[1]})

\* Either pop of a vector that has been emptied.
pop_nothing ==
  /\ ptrs # <<>> /\ countv = 0
  /\ popped' = NULL
  /\ UNCHANGED <<ptrs, allocated, freed>>

freev ==
  /\ FreeObjects({ptrs[i] : i \in 1..countv})
  /\ ptrs' = <<>>
  /\ UNCHANGED popped

Next ==
  \/ \E x \in Objects : pushv(x) \/ pushv_fails(x)
  \/ popv \/ popv_front \/ pop_nothing \/ freev

Spec == Init /\ [][Next]_vars
-----------------------------------------------------------------------------
(* Properties                                                              *)

\* Every walk ends inside the block, since no sequence of pushes and pops at
\* either end removes the last NULL; and the objects in the vector are exactly
\* the ones nobody has freed, each once, so that freev frees no popped object
\* again and misses none.
EachObjectOnce ==
  /\ ptrs # <<>> => Ends # {}
  /\ freed = {}
  /\ allocated = {ptrs[i] : i \in 1..countv} /\ Cardinality(allocated) = countv

Vector == INSTANCE Deque WITH items <- Contents

\* pushv, popv and popv_front behave as the two ends of one sequence,
\* whatever stale cells the block holds behind its terminator.
ImplementsDeque == Vector!Spec
=============================================================================
