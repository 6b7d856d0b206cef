------------------------------- MODULE MCQueue -------------------------------
(* Small instances of Queue.                                               *)
EXTENDS Queue, TLC

CONSTANTS s1, s2, r1, r2, v1, v2

\* Elements are only copied and compared; receivers differ only by name.
Symmetry == Permutations(Values) \cup Permutations(Receivers)
=============================================================================
