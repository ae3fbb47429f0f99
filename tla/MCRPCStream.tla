---------------------------- MODULE MCRPCStream ----------------------------
(* Model checking of RPCStream for short messages.                         *)
EXTENDS RPCStream
=============================================================================
