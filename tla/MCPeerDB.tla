------------------------------ MODULE MCPeerDB ------------------------------
(* Model checking of PeerDB on a few peers.                                *)
EXTENDS PeerDB, TLC

Symmetry == Permutations(PeerId)
=============================================================================
