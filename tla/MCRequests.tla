----------------------------- MODULE MCRequests -----------------------------
(* Model checking of Requests with a short table.                          *)
EXTENDS Requests
=============================================================================
