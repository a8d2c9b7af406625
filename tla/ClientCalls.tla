---------------------------- MODULE ClientCalls ----------------------------
(* What clients see of the whole program: gRPC handlers that look into the    *)
(* database and answer at once (server.go), the channel they hand requests    *)
(* to, the worker that carries them out (manager.go) and the records it       *)
(* leaves, with the connector "awi", where no mapping rewrites them.  Watches *)
(* are the module ConnectionController, the channel's capacity RequestQueue.  *)
EXTENDS Naturals, Sequences

CONSTANTS
  None, Ids, Clients,
  MaxRetries,   \* manager.go: how often a failed request goes back to the channel
  MaxCalls,     \* bound: calls of clients
  MaxFaults     \* bound: failed steps and crashes

ASSUME CallsAssumption == MaxRetries \in Nat /\ MaxCalls \in Nat /\ MaxFaults \in Nat /\ None \notin Ids

VARIABLES
  stored,    \* the ids that have a connection record
  linked,    \* the ids whose domains the provider connects
  policy,    \* whether the access policy the connects select exists
  handler,   \* what each client's call is doing
  queue,     \* the channel
  job,       \* the worker's request, or NoJob
  step,      \* where it is in it
  calls, faults,
  last,      \* history: the last operation asked for an id
  crossed,   \* history: ids asked for while an opposite request was under way
  dropped,   \* history: ids a request of which was given up or lost
  torn       \* history: ids a disconnect of which stopped between link and record

disk == <<stored, policy>>
hist == <<last, crossed, dropped, torn>>
vars == <<stored, linked, policy, handler, queue, job, step, calls, faults, last, crossed, dropped, torn>>

Ops == {"connect", "disconnect"}
Requests == [op : Ops, id : Ids, retries : 0..MaxRetries]
NoJob == [op |-> "none", id |-> None, retries |-> 0]
Asleep == [op |-> "none", id |-> None, at |-> "idle"]
Handlers == [op : Ops \cup {"get"}, id : Ids, at : {"look", "send"}] \cup {Asleep}

Queued(op, id) == \E i \in DOMAIN queue : queue[i].op = op /\ queue[i].id = id
Handled(op, id) == \E c \in Clients : handler[c].op = op /\ handler[c].id = id
Outstanding(op, id) == Queued(op, id) \/ Handled(op, id) \/ (job.op = op /\ job.id = id)
Opposite(op) == IF op = "connect" THEN "disconnect" ELSE "connect"

-----------------------------------------------------------------------------
Init ==
  /\ stored = {} /\ linked = {} /\ policy = TRUE
  /\ handler = [c \in Clients |-> Asleep] /\ queue = <<>> /\ job = NoJob /\ step = "idle"
  /\ calls = 0 /\ faults = 0
  /\ last = [i \in Ids |-> "disconnect"] /\ crossed = {} /\ dropped = {} /\ torn = {}

(* A call that passes the validators; the others are answered InvalidArgument *)
(* and change nothing.                                                        *)
Call(c, op, id) ==
  /\ handler[c] = Asleep /\ calls < MaxCalls
  /\ handler' = [handler EXCEPT ![c] = [op |-> op, id |-> id, at |-> "look"]]
  /\ calls' = calls + 1
  /\ last' = IF op = "get" THEN last ELSE [last EXCEPT ![id] = op]
  /\ crossed' = IF op # "get" /\ Outstanding(Opposite(op), id) THEN crossed \cup {id} ELSE crossed
  /\ UNCHANGED <<disk, linked, queue, job, step, faults, dropped, torn>>

(* Everything in memory goes with the process.                                *)
Lost == {i \in Ids : \E op \in Ops : Outstanding(op, i)}
Interrupted == IF job.op = "disconnect" /\ step = "record" THEN {job.id} ELSE {}
ProcessEnds ==
  /\ handler' = [c \in Clients |-> Asleep]
  /\ queue' = <<>> /\ job' = NoJob /\ step' = "idle"
  /\ dropped' = dropped \cup Lost
  /\ torn' = torn \cup Interrupted
  /\ UNCHANGED <<disk, linked, calls, last, crossed>>

(* Connect: looked up under "<source id>:<destination id>", which exists only *)
(* for selectors by id; a record is answered with its status.                 *)
Connect(c) ==
  /\ handler[c].op = "connect" /\ handler[c].at = "look"
  /\ \/ handler' = [handler EXCEPT ![c].at = "send"]
     \/ handler[c].id \in stored /\ handler' = [handler EXCEPT ![c] = Asleep]
  /\ UNCHANGED <<disk, linked, queue, job, step, calls, faults, hist>>

(* Disconnect: no record is answered SUCCESS and nothing is sent.             *)
Disconnect(c) ==
  /\ handler[c].op = "disconnect" /\ handler[c].at = "look"
  /\ handler' = [handler EXCEPT ![c] =
       IF @.id \in stored THEN [@ EXCEPT !.at = "send"] ELSE Asleep]
  /\ UNCHANGED <<disk, linked, queue, job, step, calls, faults, hist>>

MutantSend(c) ==         \* a send that does not wait for the worker
  /\ handler[c].at = "send"
  /\ queue' = IF job = NoJob
              THEN Append(queue, [op |-> handler[c].op, id |-> handler[c].id, retries |-> 0]) ELSE queue
  /\ handler' = [handler EXCEPT ![c] = Asleep]
  /\ UNCHANGED <<disk, linked, job, step, calls, faults, hist>>

(* AddConnectionRequest, AddDisconnectRequest: into the channel, and the      *)
(* answer is IN_PROGRESS.                                                     *)
Send(c) ==
  /\ handler[c].at = "send"
  /\ queue' = Append(queue, [op |-> handler[c].op, id |-> handler[c].id, retries |-> 0])
  /\ handler' = [handler EXCEPT ![c] = Asleep]
  /\ UNCHANGED <<disk, linked, job, step, calls, faults, hist>>

(* GetConnection, GetConnectionStatus: getRequestStatus dereferences a record *)
(* that is not there, and nothing recovers.                                   *)
GetConnection(c) ==
  /\ handler[c].op = "get" /\ handler[c].at = "look"
  /\ \/ /\ handler[c].id \in stored
        /\ handler' = [handler EXCEPT ![c] = Asleep]
        /\ UNCHANGED <<disk, linked, queue, job, step, calls, hist>>
     \/ handler[c].id \notin stored /\ ProcessEnds
  /\ UNCHANGED faults

(* CreateAccessPolicy and DeleteAccessPolicy: one write, whoever selects it.  *)
ChangePolicy ==
  /\ calls < MaxCalls
  /\ policy' = ~policy /\ calls' = calls + 1
  /\ UNCHANGED <<stored, linked, handler, queue, job, step, faults, hist>>

-----------------------------------------------------------------------------
(* ProcessQueue: one request after the other.                                 *)
Receive ==
  /\ job = NoJob /\ queue # <<>>
  /\ job' = Head(queue) /\ queue' = Tail(queue) /\ step' = "find"
  /\ UNCHANGED <<disk, linked, handler, calls, faults, hist>>

Done == job' = NoJob /\ step' = "idle"

(* The worker looks for itself: the record may have come or gone since.       *)
Find ==
  /\ step = "find"
  /\ job.op = "connect" => policy
  /\ IF (job.op = "connect") = (job.id \in stored) THEN Done ELSE step' = "link" /\ UNCHANGED job
  /\ UNCHANGED <<disk, linked, handler, queue, calls, faults, hist>>

MutantLink ==            \* an error of the provider's connect is not returned
  /\ step = "link"
  /\ linked' \in {linked, IF job.op = "connect" THEN linked \cup {job.id} ELSE linked \ {job.id}}
  /\ step' = "record"
  /\ UNCHANGED <<disk, handler, queue, job, calls, faults, hist>>

(* connectVPCsWithAWI, disconnectVPCsWithAWI.                                 *)
Link ==
  /\ step = "link"
  /\ linked' = IF job.op = "connect" THEN linked \cup {job.id} ELSE linked \ {job.id}
  /\ step' = "record"
  /\ UNCHANGED <<disk, handler, queue, job, calls, faults, hist>>

Record ==
  /\ step = "record"
  /\ stored' = IF job.op = "connect" THEN stored \cup {job.id} ELSE stored \ {job.id}
  /\ Done
  /\ torn' = torn \ {job.id}
  /\ UNCHANGED <<policy, linked, handler, queue, calls, faults, last, crossed, dropped>>

MutantStillTries(n) == n <= MaxRetries
StillTries(n) == n < MaxRetries

MutantRequeue(request) == queue
Requeue(request) == Append(queue, [request EXCEPT !.retries = @ + 1])

(* processRequest: a failed request goes to the end of the channel, and is    *)
(* dropped without a word after its last retry.                               *)
FailJob ==
  /\ \/ step \in {"link", "record"} /\ faults < MaxFaults /\ faults' = faults + 1
     \/ step = "find" /\ faults < MaxFaults /\ faults' = faults + 1
     \/ step = "find" /\ job.op = "connect" /\ ~policy /\ UNCHANGED faults
  /\ Done
  /\ \/ /\ StillTries(job.retries)
        /\ queue' = Requeue(job)
        /\ UNCHANGED dropped
     \/ /\ ~StillTries(job.retries)
        /\ dropped' = dropped \cup {job.id}
        /\ UNCHANGED queue
  /\ torn' = torn \cup Interrupted
  /\ UNCHANGED <<disk, linked, handler, calls, last, crossed>>

Crash ==
  /\ faults < MaxFaults /\ faults' = faults + 1
  /\ ProcessEnds

Work == Receive \/ Find \/ Link \/ Record \/ FailJob

Handle(c) == Connect(c) \/ Disconnect(c) \/ Send(c) \/ GetConnection(c)

Next ==
  \/ \E c \in Clients, op \in Ops \cup {"get"}, id \in Ids : Call(c, op, id)
  \/ \E c \in Clients : Handle(c)
  \/ ChangePolicy \/ Work \/ Crash

Spec == Init /\ [][Next]_vars

(* Handlers and the worker run on; calls and crashes come as they please.     *)
FairSpec == Spec /\ WF_vars(Work) /\ \A c \in Clients : WF_vars(Handle(c))

-----------------------------------------------------------------------------
(* Type: the worker has a request exactly when it is at a step of one.        *)
TypeOK ==
  /\ stored \subseteq Ids /\ linked \subseteq Ids /\ policy \in BOOLEAN
  /\ handler \in [Clients -> Handlers] /\ queue \in Seq(Requests)
  /\ job \in Requests \cup {NoJob} /\ step \in {"idle", "find", "link", "record"}
  /\ (job = NoJob <=> step = "idle")
  /\ calls \in 0..MaxCalls /\ faults \in 0..MaxFaults
  /\ last \in [Ids -> Ops] /\ crossed \subseteq Ids /\ dropped \subseteq Ids /\ torn \subseteq Ids

(* Once nothing is under way for an id, the record shows what was last asked  *)
(* for: only a connect and a disconnect that overlap, a request given up      *)
(* after its retries or one lost with the process make an exception.  Any     *)
(* number of clients asking for the same thing at once do not.                *)
LastWordWins ==
  \A i \in Ids \ (crossed \cup dropped) :
    (\A op \in Ops : ~Outstanding(op, i)) => (i \in stored <=> last[i] = "connect")

(* A connection that Connect and GetConnection answer SUCCESS for is linked   *)
(* at the provider, except while a disconnect is between the two or after one *)
(* stopped there.                                                             *)
SuccessIsLinked ==
  \A i \in stored \ linked : i \in torn \cup Interrupted

(* A disconnect that was answered IN_PROGRESS takes effect, whatever else is  *)
(* asked for, unless the process ends or the retries are used up.             *)
DisconnectHappens ==
  \A i \in Ids : Queued("disconnect", i) ~> i \notin stored \/ i \in dropped

(* The program implements the register of ClientService: whatever handlers,   *)
(* channel and worker do in between and however stale what a handler looked   *)
(* up, a request leaves the program only when the record shows what it asked  *)
(* for, or as one given up (server.go:173-243, manager.go:127-187).           *)
Asked == {request \in Ops \X Ids : Outstanding(request[1], request[2])}
Service == INSTANCE ClientService WITH recorded <- stored, asked <- Asked, givenUp <- dropped
ServiceSpec == Service!Spec
=============================================================================
