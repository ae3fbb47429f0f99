------------------------------ MODULE MCService -----------------------------
(* Model checking of Service on two or three peers.                        *)
EXTENDS Service, TLC

Symmetry == Permutations(PeerId)
=============================================================================
