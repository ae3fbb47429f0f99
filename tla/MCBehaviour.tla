---------------------------- MODULE MCBehaviour -----------------------------
(* Model checking of Behaviour with two peers and a short table.           *)
EXTENDS Behaviour
=============================================================================
