---------------------------- MODULE MCAppRefresh ----------------------------
(* TLC instances of AppRefresh. *)
EXTENDS AppRefresh, TLC

(* A group, two app connections of the service, and a reference.             *)
MCKind == 1 :> "group" @@ 2 :> "service" @@ 3 :> "service" @@ 4 :> "reference"
=============================================================================
