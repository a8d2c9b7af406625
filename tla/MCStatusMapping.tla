-------------------------- MODULE MCStatusMapping --------------------------
(* TLC instances of StatusMapping. *)
EXTENDS StatusMapping, TLC

CONSTANTS c1

(* The connection's status comes with the second cloud. *)
TwoClouds == <<"AWS", "GCP">>
TwoCloudsOf == c1 :> "GCP"
OneCloud == <<"AWS">>
OneCloudOf == c1 :> "AWS"
=============================================================================
