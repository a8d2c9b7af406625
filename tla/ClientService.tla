---------------------------- MODULE ClientService ----------------------------
(***************************************************************************)
(* What the clients of Connect and Disconnect are promised, as a register: *)
(* an id has a record or not, and a request for it is outstanding or not.  *)
(* A record comes or goes only while somebody asks for it, and a request   *)
(* ceases to be outstanding only in a state that shows what it asked for,  *)
(* or it is given up.  No handler, channel, worker or retry is visible.    *)
(***************************************************************************)
CONSTANT Ids

VARIABLES recorded,  (* the ids with a record                              *)
          asked,     (* the outstanding requests, pairs of operation and id *)
          givenUp    (* the ids a request of which was given up            *)

vars == <<recorded, asked, givenUp>>

Ops == {"connect", "disconnect"}
Shown(op, i) == i \in recorded <=> op = "connect"

Init == recorded = {} /\ asked = {} /\ givenUp = {}

Ask(op, i) == /\ asked' = asked \cup {<<op, i>>}
              /\ UNCHANGED <<recorded, givenUp>>

(* The same may be asked for more than once at a time.                     *)
Leave(op, i) == asked' \in {asked, asked \ {<<op, i>>}}

TakeEffect(op, i) == /\ <<op, i>> \in asked
                     /\ recorded' = IF op = "connect" THEN recorded \cup {i} ELSE recorded \ {i}
                     /\ Leave(op, i)
                     /\ UNCHANGED givenUp

Answer(op, i) == /\ Shown(op, i)
                 /\ Leave(op, i)
                 /\ UNCHANGED <<recorded, givenUp>>

GiveUp(op, i) == /\ <<op, i>> \in asked
                 /\ Leave(op, i)
                 /\ givenUp' = givenUp \cup {i}
                 /\ UNCHANGED recorded

(* The process ends.                                                       *)
Forget == /\ asked' = {}
          /\ givenUp' = givenUp \cup {request[2] : request \in asked}
          /\ UNCHANGED recorded

Next == \/ \E op \in Ops, i \in Ids :
             Ask(op, i) \/ TakeEffect(op, i) \/ Answer(op, i) \/ GiveUp(op, i)
        \/ Forget

Spec == Init /\ [][Next]_vars
=============================================================================
