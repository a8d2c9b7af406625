--------------------------- MODULE RequestService ---------------------------
(***************************************************************************)
(* What the manager promises the gRPC handlers: a request that is handed   *)
(* over is attempted, one request at a time, until an attempt succeeds or  *)
(* the attempts are used up; a restart of the process forgets every        *)
(* request that has not ended.  No queue, worker or back-off is visible.   *)
(***************************************************************************)
EXTENDS Naturals

CONSTANTS Requests,     (* requests the handlers may hand over             *)
          MaxAttempts,  (* attempts a request gets before it is given up   *)
          None          (* no request                                      *)

VARIABLES status,    (* status[r]: how far request r has come              *)
          attempts,  (* attempts[r]: attempts begun for r since handed over *)
          busy       (* the request being attempted, or None               *)

vars == <<status, attempts, busy>>

Ended == {"absent", "succeeded", "abandoned", "lost"}

Init == /\ status = [r \in Requests |-> "absent"]
        /\ attempts = [r \in Requests |-> 0]
        /\ busy = None

Submit(r) == /\ status[r] \in Ended
             /\ status' = [status EXCEPT ![r] = "live"]
             /\ attempts' = [attempts EXCEPT ![r] = 0]
             /\ UNCHANGED busy

Begin(r) == /\ busy = None
            /\ status[r] = "live"
            /\ attempts[r] < MaxAttempts
            /\ attempts' = [attempts EXCEPT ![r] = @ + 1]
            /\ busy' = r
            /\ UNCHANGED status

Succeed(r) == /\ busy = r
              /\ status' = [status EXCEPT ![r] = "succeeded"]
              /\ busy' = None
              /\ UNCHANGED attempts

(* A failed attempt ends the request only when it was the last one. *)
Fail(r) == /\ busy = r
           /\ busy' = None
           /\ \/ attempts[r] = MaxAttempts /\ status' = [status EXCEPT ![r] = "abandoned"]
              \/ attempts[r] < MaxAttempts /\ UNCHANGED status
           /\ UNCHANGED attempts

Lose == /\ status' = [r \in Requests |-> IF status[r] = "live" THEN "lost" ELSE status[r]]
        /\ busy' = None
        /\ UNCHANGED attempts

Next == \/ \E r \in Requests : Submit(r) \/ Begin(r) \/ Succeed(r) \/ Fail(r)
        \/ Lose

Spec == Init /\ [][Next]_vars
=============================================================================
