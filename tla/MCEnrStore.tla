----------------------------- MODULE MCEnrStore -----------------------------
(* Model checking of EnrStore for a few restarts.                          *)
EXTENDS EnrStore
=============================================================================
