---------------------------- MODULE MCRPCHandler ----------------------------
(* Model checking of RPCHandler for a few requests and substreams.         *)
EXTENDS RPCHandler
=============================================================================
