--------------------------- MODULE MCHashSetDelay ---------------------------
(* Model checking of HashSetDelay: three keys that share three slots.      *)
EXTENDS HashSetDelay, TLC

Symmetry == Permutations(K) \cup Permutations(Slot)
=============================================================================
