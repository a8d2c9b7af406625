--------------------------- MODULE MCRequestQueue ---------------------------
(* TLC instances of RequestQueue. *)
EXTENDS RequestQueue
=============================================================================
