----------------------- MODULE MCConnectionController -----------------------
(* TLC instances of ConnectionController. *)
EXTENDS ConnectionController, TLC

CONSTANTS c1, c2, cfgA, cfgB, cfgC

MCConns == {c1, c2}
MCConfigs == {cfgA, cfgB, cfgC}

(* cfgA matches both connections by label; cfgB names c1 by its ids and asks *)
(* for a watch.  Both allow by default, so that c1 may get two rules.  cfgC  *)
(* names c2 by its ids and denies by default.                                *)
OverlapById == cfgA :> None @@ cfgB :> c1 @@ cfgC :> c2
OverlapMatches == cfgA :> {c1, c2} @@ cfgB :> {c1} @@ cfgC :> {c2}
OverlapAccess == cfgA :> "allow" @@ cfgB :> "allow" @@ cfgC :> "deny"
OverlapKey == cfgA :> 1 @@ cfgB :> 2 @@ cfgC :> 3

(* Two watches, one connection each, that deny by default. *)
WatchConfigs == {cfgA, cfgB}
WatchById == cfgA :> None @@ cfgB :> None
WatchMatches == cfgA :> {c1} @@ cfgB :> {c2}
WatchAccess == cfgA :> "deny" @@ cfgB :> "deny"
WatchKey == cfgA :> 1 @@ cfgB :> 2
=============================================================================
