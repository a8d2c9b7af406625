-------------------------- MODULE MCAppConnections --------------------------
(* TLC instances of AppConnections. *)
EXTENDS AppConnections, TLC

CONSTANTS one, every

(* One request names connection 1, a NodePort service; the other one "all". *)
MCTarget == one :> 1 @@ every :> All
=============================================================================
