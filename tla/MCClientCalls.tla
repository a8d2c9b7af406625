---------------------------- MODULE MCClientCalls ----------------------------
(* TLC instances of ClientCalls.                                              *)
EXTENDS ClientCalls
=============================================================================
