---------------------------- MODULE RequestQueue ----------------------------
(***************************************************************************)
(* The request queue of pkg/manager/manager.go.  gRPC handlers send        *)
(* requests into a Go channel of capacity channelSize (addRequest), one    *)
(* goroutine receives them (ProcessQueue), runs each against the           *)
(* connection controller (processRequest) and, when that fails and retries *)
(* are left, sleeps ten seconds and sends the request into the same        *)
(* channel again.  What a request asks for is left out: only whether the   *)
(* controller's call returned an error matters here.  Operators named      *)
(* Mutant... are faulty variants of the operator after them; no            *)
(* specification uses them, the mutation checks put them in its place.     *)
(***************************************************************************)
EXTENDS Naturals, Sequences, FiniteSets

CONSTANTS Requests,    (* identities of the requests handlers submit        *)
          Capacity,    (* channelSize: the channel's buffer                 *)
          MaxRetries,  (* Manager.maxRetries                                *)
          None         (* no request                                        *)

ASSUME NoneAssumption == None \notin Requests
ASSUME CapacityAssumption == Capacity \in Nat
ASSUME MaxRetriesAssumption == MaxRetries \in Nat

VARIABLES
  (* Values sent and not yet received, oldest first.  The first Capacity of *)
  (* them are in the channel's buffer; the goroutines that sent the others  *)
  (* are parked, in this order, and receiving one value unparks the oldest. *)
  channel,
  (* Where the goroutine of ProcessQueue is: "receiving", "processing" a    *)
  (* request, in the "backoff" sleep, or "blocked" parked in its own send.  *)
  worker,
  current,   (* the request the worker holds, or None                       *)
  retires,   (* request.retires of each request                             *)
  status,    (* "absent", "live" from the send on, or how the request ended *)
  attempts   (* history: attempts begun for the request                     *)

vars == <<channel, worker, current, retires, status, attempts>>

Statuses == {"absent", "live", "succeeded", "abandoned", "lost"}
Live == {r \in Requests : status[r] = "live"}
InChannel == {channel[i] : i \in 1..Len(channel)}

(* The history counter saturates here, one above the highest legal value.   *)
AttemptsBound == MaxRetries + 2
-----------------------------------------------------------------------------
Init == /\ channel = <<>>
        /\ worker = "receiving"
        /\ current = None
        /\ retires = [r \in Requests |-> 0]
        /\ status = [r \in Requests |-> "absent"]
        /\ attempts = [r \in Requests |-> 0]

(* The send completes at once while the buffer has room. *)
MutantHasRoom == Len(channel) + 1 < Capacity
HasRoom == Len(channel) < Capacity

MutantRetriesLeft(n) == n <= MaxRetries
MutantRetriesLeftEarly(n) == n + 1 < MaxRetries
RetriesLeft(n) == n < MaxRetries

MutantCountRetry(n) == n
CountRetry(n) == n + 1

(* addRequest: a handler sends a new request and is parked when the buffer  *)
(* is full.                                                                 *)
AddRequest(r) ==
  /\ status[r] # "live"
  /\ channel' = Append(channel, r)
  /\ status' = [status EXCEPT ![r] = "live"]
  /\ retires' = [retires EXCEPT ![r] = 0]
  /\ attempts' = [attempts EXCEPT ![r] = 0]
  /\ UNCHANGED <<worker, current>>

(* ProcessQueue takes the oldest value; the oldest parked sender, if any,   *)
(* is unparked by the same step.                                            *)
Receive ==
  /\ worker = "receiving"
  /\ channel # <<>>
  /\ current' = Head(channel)
  /\ channel' = Tail(channel)
  /\ worker' = "processing"
  /\ attempts' = [attempts EXCEPT ![Head(channel)] = IF @ < AttemptsBound THEN @ + 1 ELSE @]
  /\ UNCHANGED <<retires, status>>

(* processRequest: the controller's call returned nil. *)
ProcessSucceeds ==
  /\ worker = "processing"
  /\ status' = [status EXCEPT ![current] = "succeeded"]
  /\ current' = None
  /\ worker' = "receiving"
  /\ UNCHANGED <<channel, retires, attempts>>

(* processRequest: the call failed.  The request is kept for another try,   *)
(* or dropped without a word to the caller.  A LoginError also logs in to   *)
(* the controller again, which changes nothing here.                        *)
ProcessFails ==
  /\ worker = "processing"
  /\ \/ /\ RetriesLeft(retires[current])
        /\ worker' = "backoff"
        /\ UNCHANGED <<current, status>>
     \/ /\ ~RetriesLeft(retires[current])
        /\ status' = [status EXCEPT ![current] = "abandoned"]
        /\ current' = None
        /\ worker' = "receiving"
  /\ UNCHANGED <<channel, retires, attempts>>

(* Mutant: a non-blocking send, which forgets the request when the buffer   *)
(* is full.                                                                 *)
MutantReschedule ==
  /\ worker = "backoff"
  /\ retires' = [retires EXCEPT ![current] = CountRetry(@)]
  /\ channel' = IF HasRoom THEN Append(channel, current) ELSE channel
  /\ worker' = "receiving"
  /\ current' = None
  /\ UNCHANGED <<status, attempts>>

(* Mutant: a request that failed is tried again before all others.          *)
MutantRescheduleFirst ==
  /\ worker = "backoff"
  /\ retires' = [retires EXCEPT ![current] = CountRetry(@)]
  /\ channel' = <<current>> \o channel
  /\ worker' = IF HasRoom THEN "receiving" ELSE "blocked"
  /\ current' = None
  /\ UNCHANGED <<status, attempts>>

(* The sleep is over: the worker sends the request it holds into the        *)
(* channel only it receives from, and parks when the buffer is full.        *)
Reschedule ==
  /\ worker = "backoff"
  /\ retires' = [retires EXCEPT ![current] = CountRetry(@)]
  /\ channel' = Append(channel, current)
  /\ worker' = IF HasRoom THEN "receiving" ELSE "blocked"
  /\ current' = None
  /\ UNCHANGED <<status, attempts>>

(* The process dies (a panic in a handler is enough) and is started again:  *)
(* the channel and the worker's request exist in memory only.               *)
Restart ==
  /\ channel' = <<>>
  /\ worker' = "receiving"
  /\ current' = None
  /\ status' = [r \in Requests |-> IF status[r] = "live" THEN "lost" ELSE status[r]]
  /\ UNCHANGED <<retires, attempts>>

Process == ProcessSucceeds \/ ProcessFails

Next == \/ \E r \in Requests : AddRequest(r)
        \/ Receive
        \/ Process
        \/ Reschedule
        \/ Restart

Spec == Init /\ [][Next]_vars

(* The runtime schedules a runnable goroutine, every controller call runs   *)
(* under a context with a deadline of 120 seconds, and the sleep ends.      *)
Fairness == WF_vars(Receive) /\ WF_vars(Process) /\ WF_vars(Reschedule)

FairSpec == Spec /\ Fairness
-----------------------------------------------------------------------------
(* Types of the variables. *)
TypeOK ==
  /\ channel \in Seq(Requests)
  /\ worker \in {"receiving", "processing", "backoff", "blocked"}
  /\ current \in Requests \cup {None}
  /\ retires \in [Requests -> 0..MaxRetries]
  /\ status \in [Requests -> Statuses]
  /\ attempts \in [Requests -> 0..AttemptsBound]

(* A request that was handed over and has not ended is in exactly one       *)
(* place, the channel or the worker's hands, and once: rescheduling neither *)
(* loses nor doubles it, whatever was sent in between (manager.go:166-187). *)
HeldOnce ==
  /\ \A i, j \in 1..Len(channel) : channel[i] = channel[j] => i = j
  /\ current \notin InChannel
  /\ Live = InChannel \cup ({current} \ {None})

(* A request is given up only after its first attempt and MaxRetries more   *)
(* have failed, and never gets a further one (manager.go:173-183).          *)
RetryBudget ==
  \A r \in Requests : /\ attempts[r] <= MaxRetries + 1
                      /\ status[r] = "abandoned" => attempts[r] = MaxRetries + 1

(* The worker parks in its own send, from which nothing but a restart frees *)
(* it, only while more requests are unfinished than the buffer holds        *)
(* (manager.go:40-42 and 184).                                              *)
BlockedOnlyOverCapacity ==
  worker = "blocked" => Len(channel) > Capacity /\ Cardinality(Live) > Capacity

(* Every request handed over ends (it succeeds, is given up, or is lost in  *)
(* a restart), unless the worker comes to park in its own send: nothing     *)
(* else ever stops the queue (manager.go:127-138 and 166-187).              *)
EveryRequestEnds ==
  \A r \in Requests : status[r] = "live" ~> status[r] # "live" \/ worker = "blocked"

(* What still lies before a live request: its retries, the requests that    *)
(* are received up to it, and the worker's stage of the request in hand.    *)
Place(r) == IF r \in InChannel THEN CHOOSE i \in 1..Len(channel) : channel[i] = r ELSE 0
Stage == CASE worker = "processing" -> 2
           [] worker = "backoff"    -> 1
           [] OTHER                 -> 0
Before(r) == <<MaxRetries - retires[r], Place(r), Stage>>

Less(a, b) == \/ a[1] < b[1]
              \/ a[1] = b[1] /\ a[2] < b[2]
              \/ a[1] = b[1] /\ a[2] = b[2] /\ a[3] < b[3]

(* Every step of the worker brings every unfinished request nearer to its   *)
(* end, and nobody else's step sets one back: requests that arrive later,   *)
(* or fail and come back, never overtake it, and its own retries run out    *)
(* (manager.go:127-138 and 166-187).                                        *)
NearerToEnd ==
  [][\A r \in Live \cap Live' :
       IF worker' # worker THEN Less(Before(r)', Before(r)) ELSE UNCHANGED Before(r)]_vars

(* The worker has something to do as long as there is an unfinished         *)
(* request, unless it is parked in its own send.                            *)
WorkAtHand == Live # {} => worker # "receiving" \/ channel # <<>>

(* A request the worker announces as rescheduled is attempted again unless  *)
(* the process restarts (manager.go:181).                                   *)
RescheduledIsAttempted ==
  \A r \in Requests :
     (worker = "backoff" /\ current = r)
        ~> (worker = "processing" /\ current = r) \/ status[r] = "lost"

(* The queue implements the abstract service (RequestService): attempts are *)
(* serialised and bounded whatever the channel's capacity.                  *)
Service == INSTANCE RequestService WITH
             MaxAttempts <- MaxRetries + 1,
             busy <- IF worker = "processing" THEN current ELSE None
ServiceSpec == Service!Spec
=============================================================================
