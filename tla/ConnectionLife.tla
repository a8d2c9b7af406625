--------------------------- MODULE ConnectionLife ---------------------------
(***************************************************************************)
(* The life of a network domain connection, as its users and the providers *)
(* see it: it is made, is up with everything its record promises, is taken *)
(* down, and is gone; a creation that breaks off leaves part of it behind, *)
(* and its rule for good unless the connection is made again the same way. *)
(* Links and rule come only while it is made and go only while it is taken *)
(* down, whatever happens to other connections.  No request, goroutine,    *)
(* mark or retry is visible.                                               *)
(***************************************************************************)
CONSTANTS
  Conns, Sides,
  Allowing,  (* the ways to make a connection that give it a rule            *)
  None

VARIABLES
  life,    (* life[c]: one of Stages                                         *)
  record,  (* record[c]: what c was made for, None without a record          *)
  links,   (* links[c]: the sides of c that are connected                    *)
  ruled    (* ruled[c]: what the default-access rules in place were made for *)

vars == <<life, record, links, ruled>>

Stages == {"absent", "making", "up", "unmaking", "partial", "contested"}

Init == /\ life = [c \in Conns |-> "absent"]
        /\ record = [c \in Conns |-> None]
        /\ links = [c \in Conns |-> {}]
        /\ ruled = [c \in Conns |-> {}]

Moves(c, from, to) == life[c] \in from /\ life'[c] = to
SameRecord(c) == record'[c] = record[c]
SameRule(c) == ruled'[c] = ruled[c]
SameCloud(c) == links'[c] = links[c] /\ SameRule(c)
Grows(c) == links[c] \subseteq links'[c] /\ ruled[c] \subseteq ruled'[c] /\ SameRecord(c)
Shrinks(c) == links'[c] \subseteq links[c] /\ ruled'[c] \subseteq ruled[c] /\ SameRecord(c)

Begin(c) == Moves(c, {"absent", "partial"}, "making") /\ SameCloud(c) /\ SameRecord(c)
Build(c) == Moves(c, {"making"}, "making") /\ Grows(c)
BreakOff(c) == Moves(c, {"making"}, "partial") /\ Grows(c)

Complete(c) == /\ Moves(c, {"making"}, "up")
               /\ links[c] = Sides
               /\ record'[c] # None
               /\ record'[c] \in Allowing => record'[c] \in ruled[c]
               /\ SameCloud(c)

TearDown(c) == Moves(c, {"up", "unmaking"}, "unmaking") /\ Shrinks(c)

(* Only a rule that the record does not tell of outlives it.                 *)
Remove(c) == /\ links[c] = {}
             /\ record[c] \notin ruled[c]
             /\ Moves(c, {"unmaking"}, IF ruled[c] = {} THEN "absent" ELSE "partial")
             /\ record'[c] = None
             /\ SameCloud(c)

(* Two creations of the same connection: nothing is promised from then on,   *)
(* until a deletion finds nothing left of it.                                *)
Collide(c) == Moves(c, {"making"}, "contested") /\ SameCloud(c) /\ SameRecord(c)
Contend(c) == Moves(c, {"contested"}, "contested")
Resolve(c) == /\ Moves(c, {"contested"}, "absent")
              /\ links[c] = {} /\ ruled[c] = {}
              /\ record'[c] = None
              /\ SameCloud(c)

Step(c) == \/ Begin(c) \/ Build(c) \/ Complete(c) \/ BreakOff(c)
           \/ TearDown(c) \/ Remove(c)
           \/ Collide(c) \/ Contend(c) \/ Resolve(c)

Same(c) == life'[c] = life[c] /\ SameRecord(c) /\ SameCloud(c)

(* The process ends: what was being made stays as it is.                     *)
Abandon(c) == Moves(c, {"making"}, "partial") /\ SameRecord(c) /\ SameCloud(c)
Crash == \A c \in Conns : (life[c] # "making" /\ Same(c)) \/ Abandon(c)

Next == \/ Crash
        \/ \E c \in Conns : Step(c) /\ \A d \in Conns \ {c} : Same(d)

Spec == Init /\ [][Next]_vars
=============================================================================
