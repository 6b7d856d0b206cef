---------------------------- MODULE MCDictionary ----------------------------
(* Three keys, two of which collide, in an array that starts with two or   *)
(* four slots; the third key makes the smaller one grow.  Values are       *)
(* interchangeable, and so are the two keys that collide.                  *)
EXTENDS Dictionary, TLC

CONSTANTS k1, k2, k3, v1, v2
MCHash == (k1 :> 1) @@ (k2 :> 1) @@ (k3 :> 2)
Symmetry == Permutations(Vals) \cup Permutations({k1, k2})
=============================================================================
