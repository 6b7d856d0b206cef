---------------------------- MODULE MCLinkedList ----------------------------
(***************************************************************************)
(* Two lists and three entries: entries are interchangeable, and so are    *)
(* the heads.                                                              *)
(***************************************************************************)
EXTENDS LinkedList, TLC

Symmetry == Permutations(Entries) \cup Permutations(Heads)
=============================================================================
