------------------------- MODULE MCVManagePolicies -------------------------
(* TLC instances of VManagePolicies.                                          *)
EXTENDS VManagePolicies, TLC

CONSTANTS a1, a2, new, old, other, north, south

(* Connections new and old start at one site, other at the second.            *)
MCSiteOf == new :> north @@ old :> north @@ other :> south
MCAccess == new :> "allow" @@ old :> "unset" @@ other :> "deny"
=============================================================================
