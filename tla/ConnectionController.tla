------------------------ MODULE ConnectionController ------------------------
(***************************************************************************)
(* How pkg/connection-controller creates and deletes network domain        *)
(* connections with the AWI connector.  Two goroutines share one           *)
(* AWIConnectionController and one database without a lock: the worker     *)
(* runs the requests of the gRPC handlers (CreateConnection and            *)
(* DeleteConnection), the refresher re-creates whatever the stored         *)
(* "watching" requests match (RefreshNetworkDomainConnections).            *)
(*                                                                         *)
(* A step is one database transaction, one access to deletedConnection or  *)
(* one call of a cloud provider.  All network domains are VPCs, so every   *)
(* default-access rule of the code applies.  The request channel is the    *)
(* one of module RequestQueue with room to spare.  Operators named         *)
(* Mutant... are faulty variants of the operator after them, used by the   *)
(* mutation checks only.                                                   *)
(***************************************************************************)
EXTENDS Naturals, Sequences, FiniteSets

CONSTANTS
  Conns,       (* network domain connections: source and destination pairs   *)
  MultiCloud,  (* those whose two domains belong to different providers      *)
  Configs,     (* what users ask for: spec and metadata of a request, no two *)
               (* of them with the same name                                 *)
  ById,        (* the connection a config names by the two ids, or None      *)
  Matches,     (* the connections whose domains a config's selectors match   *)
  Access,      (* Destination.DefaultAccess that the config's policies give  *)
  Watches,     (* configs with the label that asks for a watch               *)
  Key,         (* the place of a config's watch record in the order of keys  *)
  Known,       (* connections whose domains a former process discovered      *)
  MaxRetries,  (* Manager.maxRetries                                         *)
  None,
  MaxJobs,     (* bound: requests in the channel                             *)
  MaxFaults    (* bound: failing calls and restarts of the process           *)

ASSUME ConfigAssumption ==
  /\ MultiCloud \subseteq Conns
  /\ Watches \subseteq Configs
  /\ ById \in [Configs -> Conns \cup {None}]
  /\ Matches \in [Configs -> SUBSET Conns]
  /\ Access \in [Configs -> {"allow", "deny"}]
  /\ Key \in [Configs -> Nat]
  /\ Known \subseteq Conns
ASSUME NameAssumption ==
  /\ None \notin Conns \cup Configs
  /\ Conns \cap Configs = {}
ASSUME BoundAssumption ==
  MaxRetries \in Nat /\ MaxJobs \in Nat /\ MaxFaults \in Nat

Procs == {"worker", "refresher"}
Other(p) == IF p = "worker" THEN "refresher" ELSE "worker"
Sides == {"src", "dst"}

VARIABLES
  (* Stored on disk. *)
  db,        (* db[c]: the config c's record was made for, None without one  *)
  watching,  (* configs with a record of status Watching                     *)
  visible,   (* connections both of whose network domains are discovered     *)
  (* State of the cloud providers. *)
  attached,  (* attached[c]: the sides of c connected to the transit network *)
  rule,      (* rule[c]: the configs under whose name an allow rule of c is  *)
             (* in place                                                     *)
  (* In memory. *)
  marked,    (* deletedConnection: deleted or pending deletion               *)
  jobs,      (* the request channel                                          *)
  job,       (* the worker's request                                         *)
  targets,   (* the connections the worker's connect request stands for      *)
  failed,    (* failedErr # nil in CreateConnection                          *)
  snapshot,  (* watches the refresher's pass has not come to                 *)
  pc,        (* where each goroutine is                                      *)
  conn,      (* the connection it works on                                   *)
  config,    (* the config whose name and DefaultAccess it works with        *)
  todo,      (* connections left in the goroutine's loop                     *)
  left,      (* sides it has still to connect or disconnect                  *)
  (* Bound: failed calls and restarts so far. *)
  faults,
  (* History. *)
  raced,     (* connections two goroutines have worked on at the same time   *)
  torn,      (* connections whose record outlives the start of a detachment  *)
  leftover   (* leftover[c]: the configs a creation of c broke off for and   *)
             (* nothing undid                                                *)

stored == <<db, watching, visible>>
cloud  == <<attached, rule>>
queue  == <<jobs, job, targets, failed>>
local  == <<pc, conn, config, todo, left>>
history == <<raced, torn, leftover>>
vars == <<stored, cloud, marked, queue, snapshot, local, faults, history>>

Jobs == [op : {"connect"}, target : Configs, retires : 0..MaxRetries]
        \cup [op : {"disconnect"}, target : Conns \cup Configs, retires : 0..MaxRetries]
NoJob == [op |-> "idle", target |-> None, retires |-> 0]

CreatePCs == {"rule", "connect", "save"}
DeletePCs == {"detach", "unrule", "delete"}
PCs == {"idle", "loop", "lookup", "dlookup", "backoff"} \cup CreatePCs \cup DeletePCs

(* Goroutine p has found c absent and is creating it, or has found it and is *)
(* deleting it.                                                              *)
Creating(p, c) == pc[p] \in CreatePCs /\ conn[p] = c
Deleting(p, c) == pc[p] \in DeletePCs /\ conn[p] = c
Busy(p, c) == Creating(p, c) \/ Deleting(p, c)

(* c is being created, and for which configs. *)
BeingMade(c) == \E p \in Procs : Creating(p, c)
MadeFor(c) == {config[p] : p \in {q \in Procs : Creating(q, c)}}

(* The configs that allow by default, and the rule of one of them: getSGName *)
(* names the rule of a connection after the config, so that every config has *)
(* its own, and one that denies (or none) has no rule.                       *)
Allowing == {cfg \in Configs : Access[cfg] = "allow"}
RuleOf(cfg) == {cfg} \cap Allowing

(* findNetworkDomains: the connections among the discovered domains. *)
Found(cfg) == Matches[cfg] \cap visible
-----------------------------------------------------------------------------
Init ==
  /\ db = [c \in Conns |-> None]
  /\ watching = {}
  /\ visible = Known
  /\ attached = [c \in Conns |-> {}]
  /\ rule = [c \in Conns |-> {}]
  /\ marked = {}
  /\ jobs = <<>>
  /\ job = NoJob
  /\ targets = {}
  /\ failed = FALSE
  /\ snapshot = {}
  /\ pc = [p \in Procs |-> "idle"]
  /\ conn = [p \in Procs |-> None]
  /\ config = [p \in Procs |-> None]
  /\ todo = [p \in Procs |-> {}]
  /\ left = [p \in Procs |-> {}]
  /\ faults = 0
  /\ raced = {}
  /\ torn = {}
  /\ leftover = [c \in Conns |-> {}]

-----------------------------------------------------------------------------
(* The handlers of pkg/server.  Connect asks for work only when the ids it   *)
(* was given name no record, Disconnect only when the id has one; every      *)
(* other call is answered at once and changes nothing.                       *)
SubmitConnect(cfg) ==
  /\ Len(jobs) < MaxJobs
  /\ ById[cfg] # None => db[ById[cfg]] = None
  /\ jobs' = Append(jobs, [op |-> "connect", target |-> cfg, retires |-> 0])
  /\ UNCHANGED <<stored, cloud, marked, job, targets, failed, snapshot, local, faults, history>>

SubmitDisconnect(t) ==
  /\ Len(jobs) < MaxJobs
  /\ t \in watching \/ (t \in Conns /\ db[t] # None)
  /\ jobs' = Append(jobs, [op |-> "disconnect", target |-> t, retires |-> 0])
  /\ UNCHANGED <<stored, cloud, marked, job, targets, failed, snapshot, local, faults, history>>

(* DiscoverNetworkDomains only ever adds network domains. *)
Discover ==
  /\ \E new \in SUBSET (Conns \ visible) \ {{}} : visible' = visible \cup new
  /\ UNCHANGED <<db, watching, cloud, marked, queue, snapshot, local, faults, history>>
-----------------------------------------------------------------------------
(* The two loops: over the connections of a request (CreateConnection) and   *)
(* of a watch (RefreshNetworkDomainConnections).                             *)

(* A call fails or the process ends; MaxFaults bounds how often. *)
Fault == faults < MaxFaults /\ faults' = faults + 1

NextItem(p) ==
  /\ pc' = [pc EXCEPT ![p] = "loop"]
  /\ conn' = [conn EXCEPT ![p] = None]
  /\ left' = [left EXCEPT ![p] = {}]
  /\ UNCHANGED <<config, todo>>

(* Mutant: the error is only logged. *)
MutantRemember(p) == UNCHANGED failed
(* Only the worker's request reports that one of its connections failed. *)
Remember(p) == failed' = (failed \/ p = "worker")

(* Mutant: the refresher does not look at the mark. *)
MutantLeftAlone(p, c) == FALSE
LeftAlone(p, c) == p = "refresher" /\ c \in marked

(* createNetworkDomainConnection up to the mark: a request of a user         *)
(* (force) forgets that the connection was deleted, the refresher leaves a   *)
(* connection that is marked alone.                                          *)
BeginItem(p) ==
  /\ pc[p] = "loop"
  /\ \E c \in todo[p] :
       /\ todo' = [todo EXCEPT ![p] = @ \ {c}]
       /\ marked' = IF p = "worker" THEN marked \ {c} ELSE marked
       /\ IF LeftAlone(p, c)
          THEN UNCHANGED <<pc, conn>>
          ELSE pc' = [pc EXCEPT ![p] = "lookup"] /\ conn' = [conn EXCEPT ![p] = c]
  /\ UNCHANGED <<stored, cloud, queue, snapshot, config, left, faults, history>>

(* The record exists: nothing is created and nil is returned. *)
AlreadyExists(p) ==
  /\ pc[p] = "lookup"
  /\ db[conn[p]] # None
  /\ NextItem(p)
  /\ UNCHANGED <<stored, cloud, marked, queue, snapshot, faults, history>>

(* Goroutine p starts to work on c: from now on a second one races with it.  *)
Enter(p, c) == raced' = IF Busy(Other(p), c) THEN raced \cup {c} ELSE raced

(* Mutant: it creates whether or not the record exists.                      *)
MutantStartCreation(p) ==
  /\ pc[p] = "lookup"
  /\ Enter(p, conn[p])
  /\ pc' = [pc EXCEPT ![p] = IF config[p] \in Allowing THEN "rule" ELSE "connect"]
  /\ left' = [left EXCEPT ![p] = Sides]
  /\ UNCHANGED <<stored, cloud, marked, queue, snapshot, conn, config, todo, faults, torn, leftover>>

StartCreation(p) ==
  /\ pc[p] = "lookup"
  /\ db[conn[p]] = None
  /\ Enter(p, conn[p])
  /\ pc' = [pc EXCEPT ![p] = IF config[p] \in Allowing THEN "rule" ELSE "connect"]
  /\ left' = [left EXCEPT ![p] = Sides]
  /\ UNCHANGED <<stored, cloud, marked, queue, snapshot, conn, config, todo, faults, torn, leftover>>

(* createVPCPolicy: the default-access allow rule, under the config's name. *)
AddRule(p) ==
  /\ pc[p] = "rule"
  /\ rule' = [rule EXCEPT ![conn[p]] = @ \cup {config[p]}]
  /\ pc' = [pc EXCEPT ![p] = "connect"]
  /\ UNCHANGED <<stored, attached, marked, queue, snapshot, conn, config, todo, left, faults, history>>

(* The sides the next provider call covers: both at once in a single cloud,  *)
(* the source and then the destination otherwise.                            *)
CallCovers(p) ==
  IF conn[p] \in MultiCloud /\ "src" \in left[p] THEN {"src"} ELSE left[p]

(* Mutant: the destination's provider is never called. *)
MutantStillLeft(p) == {}
StillLeft(p) == left[p] \ CallCovers(p)

(* connectVPCsWithAWI; connecting a side again changes nothing. *)
Connect(p) ==
  /\ pc[p] = "connect"
  /\ attached' = [attached EXCEPT ![conn[p]] = @ \cup CallCovers(p)]
  /\ left' = [left EXCEPT ![p] = StillLeft(p)]
  /\ pc' = [pc EXCEPT ![p] = IF StillLeft(p) = {} THEN "save" ELSE "connect"]
  /\ UNCHANGED <<stored, rule, marked, queue, snapshot, conn, config, todo, faults, history>>

(* createDBConnectionRequest: what an earlier creation of the connection left *)
(* behind belongs to the record now, except for rules under other names.     *)
Save(p) ==
  /\ pc[p] = "save"
  /\ db' = [db EXCEPT ![conn[p]] = config[p]]
  /\ leftover' = [leftover EXCEPT ![conn[p]] = (@ \cap rule[conn[p]]) \ RuleOf(config[p])]
  /\ NextItem(p)
  /\ UNCHANGED <<watching, visible, cloud, marked, queue, snapshot, faults, raced, torn>>

(* A call of the creation returns an error, with or without having had its   *)
(* effect: nothing that was done before is undone, the loop goes on.         *)
CreateFails(p) ==
  /\ pc[p] \in {"lookup"} \cup CreatePCs
  /\ Fault
  /\ \/ UNCHANGED cloud
     \/ /\ pc[p] = "rule"
        /\ rule' = [rule EXCEPT ![conn[p]] = @ \cup {config[p]}]
        /\ UNCHANGED attached
     \/ /\ pc[p] = "connect"
        /\ attached' = [attached EXCEPT ![conn[p]] = @ \cup CallCovers(p)]
        /\ UNCHANGED rule
  /\ leftover' = IF pc[p] \in CreatePCs
                 THEN [leftover EXCEPT ![conn[p]] = @ \cup {config[p]}] ELSE leftover
  /\ Remember(p)
  /\ NextItem(p)
  /\ UNCHANGED <<stored, marked, jobs, job, targets, snapshot, raced, torn>>
-----------------------------------------------------------------------------
(* The worker: processRequest on one request after the other. *)

TakeJob(op) ==
  /\ pc["worker"] = "idle"
  /\ jobs # <<>>
  /\ Head(jobs).op = op
  /\ job' = Head(jobs)
  /\ jobs' = Tail(jobs)

(* processConnectionConfig: the watch is stored first, on every attempt, and *)
(* stays when no network domain matches.                                     *)
TakeConnect ==
  /\ TakeJob("connect")
  /\ LET cfg == Head(jobs).target
     IN /\ watching' = watching \cup ({cfg} \cap Watches)
        /\ targets' = Found(cfg)
        /\ failed' = (Found(cfg) = {})
        /\ todo' = [todo EXCEPT !["worker"] = Found(cfg)]
        /\ config' = [config EXCEPT !["worker"] = cfg]
  /\ pc' = [pc EXCEPT !["worker"] = "loop"]
  /\ UNCHANGED <<db, visible, cloud, marked, snapshot, conn, left, faults, history>>

(* processConnectionConfig finds no policy or cannot read the database.      *)
ConfigFails ==
  /\ TakeJob("connect")
  /\ Fault
  /\ failed' = TRUE
  /\ targets' = {}
  /\ pc' = [pc EXCEPT !["worker"] = "loop"]
  /\ UNCHANGED <<stored, cloud, marked, snapshot, conn, config, todo, left, history>>

(* DeleteConnection marks the id before it looks for the record; the mark of *)
(* a watch's id is never looked at, and left out.                            *)
TakeDisconnect ==
  /\ TakeJob("disconnect")
  /\ marked' = marked \cup ({Head(jobs).target} \cap Conns)
  /\ failed' = FALSE
  /\ targets' = {}
  /\ conn' = [conn EXCEPT !["worker"] = Head(jobs).target]
  /\ pc' = [pc EXCEPT !["worker"] = "dlookup"]
  /\ UNCHANGED <<stored, cloud, snapshot, config, todo, left, faults, history>>

(* disconnectConnections: of a watch only the record is removed. *)
DropWatch ==
  /\ pc["worker"] = "dlookup"
  /\ conn["worker"] \in Configs
  /\ watching' = watching \ {conn["worker"]}
  /\ NextItem("worker")
  /\ UNCHANGED <<db, visible, cloud, marked, queue, snapshot, faults, history>>

NothingToDelete ==
  /\ pc["worker"] = "dlookup"
  /\ conn["worker"] \in Conns
  /\ db[conn["worker"]] = None
  /\ NextItem("worker")
  /\ UNCHANGED <<stored, cloud, marked, queue, snapshot, faults, history>>

StartDeletion ==
  /\ pc["worker"] = "dlookup"
  /\ conn["worker"] \in Conns
  /\ db[conn["worker"]] # None
  /\ Enter("worker", conn["worker"])
  /\ config' = [config EXCEPT !["worker"] = db[conn["worker"]]]
  /\ left' = [left EXCEPT !["worker"] = Sides]
  /\ pc' = [pc EXCEPT !["worker"] = "detach"]
  /\ UNCHANGED <<stored, cloud, marked, queue, snapshot, conn, todo, faults, torn, leftover>>

(* disconnectVPCsWithAWI; disconnecting a side again changes nothing. *)
Detach ==
  /\ pc["worker"] = "detach"
  /\ attached' = [attached EXCEPT ![conn["worker"]] = @ \ CallCovers("worker")]
  /\ torn' = torn \cup {conn["worker"]}
  /\ left' = [left EXCEPT !["worker"] = StillLeft("worker")]
  /\ pc' = [pc EXCEPT !["worker"] = IF StillLeft("worker") = {} THEN "unrule" ELSE "detach"]
  /\ UNCHANGED <<stored, rule, marked, queue, snapshot, conn, config, todo, faults, raced, leftover>>

(* Mutant: the rule is never removed. *)
MutantRuleToRemove == {}
(* removeRulesFromSecurityGroup goes by the name and the access stored with  *)
(* the record.                                                               *)
RuleToRemove == RuleOf(config["worker"])

RemoveRule ==
  /\ pc["worker"] = "unrule"
  /\ rule' = [rule EXCEPT ![conn["worker"]] = @ \ RuleToRemove]
  /\ torn' = torn \cup {conn["worker"]}
  /\ pc' = [pc EXCEPT !["worker"] = "delete"]
  /\ UNCHANGED <<stored, attached, marked, queue, snapshot, conn, config, todo, left, faults, raced, leftover>>

(* Nothing is left of c, and nobody else is at work on it. *)
Gone(c) == attached[c] = {} /\ rule[c] = {} /\ ~Busy("refresher", c)

(* DeleteConnectionRequest: with nothing left, c's history is over as well.  *)
DeleteRecord ==
  /\ pc["worker"] = "delete"
  /\ LET c == conn["worker"]
     IN /\ db' = [db EXCEPT ![c] = None]
        /\ torn' = torn \ {c}
        /\ raced' = IF Gone(c) THEN raced \ {c} ELSE raced
        /\ leftover' = [leftover EXCEPT ![c] = @ \cap rule[c]]
  /\ NextItem("worker")
  /\ UNCHANGED <<watching, visible, cloud, marked, queue, snapshot, faults>>

(* A call of the deletion returns an error, with or without its effect: the  *)
(* record stays, and so does whatever was already taken down.                *)
DeleteFails ==
  /\ pc["worker"] \in {"dlookup"} \cup DeletePCs
  /\ Fault
  /\ \/ UNCHANGED <<cloud, torn>>
     \/ /\ pc["worker"] = "detach"
        /\ attached' = [attached EXCEPT ![conn["worker"]] = @ \ CallCovers("worker")]
        /\ torn' = torn \cup {conn["worker"]}
        /\ UNCHANGED rule
     \/ /\ pc["worker"] = "unrule"
        /\ rule' = [rule EXCEPT ![conn["worker"]] = @ \ RuleToRemove]
        /\ UNCHANGED <<attached, torn>>
  /\ Remember("worker")
  /\ NextItem("worker")
  /\ UNCHANGED <<stored, marked, jobs, job, targets, snapshot, raced, leftover>>

(* Mutant: off by one. *)
MutantTryAgain == failed /\ job.retires <= MaxRetries
TryAgain == failed /\ job.retires < MaxRetries

(* The controller's call returns: success, another attempt, or giving up.    *)
EndJob ==
  /\ pc["worker"] = "loop"
  /\ todo["worker"] = {}
  /\ IF TryAgain
     THEN pc' = [pc EXCEPT !["worker"] = "backoff"] /\ UNCHANGED job
     ELSE pc' = [pc EXCEPT !["worker"] = "idle"] /\ job' = NoJob
  /\ failed' = FALSE
  /\ targets' = {}
  /\ config' = [config EXCEPT !["worker"] = None]
  /\ UNCHANGED <<stored, cloud, marked, jobs, snapshot, conn, todo, left, faults, history>>

(* The request goes behind everything that was accepted in the meantime.     *)
Reschedule ==
  /\ pc["worker"] = "backoff"
  /\ jobs' = Append(jobs, [job EXCEPT !.retires = @ + 1])
  /\ job' = NoJob
  /\ pc' = [pc EXCEPT !["worker"] = "idle"]
  /\ UNCHANGED <<stored, cloud, marked, targets, failed, snapshot, conn, config, todo, left, faults, history>>
-----------------------------------------------------------------------------
(* The refresher: RefreshNetworkDomainConnections on every tick. *)

(* The records are listed once; the pass works on that snapshot.  A pass     *)
(* that lists no watch does nothing.                                         *)
StartPass ==
  /\ pc["refresher"] = "idle"
  /\ watching # {}
  /\ snapshot' = watching
  /\ pc' = [pc EXCEPT !["refresher"] = "loop"]
  /\ UNCHANGED <<stored, cloud, marked, queue, conn, config, todo, left, faults, history>>

(* The loop comes to the next watch of the snapshot, in the order of keys.   *)
NextWatch(w) ==
  /\ pc["refresher"] = "loop"
  /\ todo["refresher"] = {}
  /\ w \in snapshot
  /\ \A v \in snapshot : Key[w] <= Key[v]

(* Mutant: the pass ends after its first watch. *)
MutantRemaining(w) == {}
Remaining(w) == snapshot \ {w}

RefreshWatch(w) ==
  /\ NextWatch(w)
  /\ Found(w) # {}
  /\ todo' = [todo EXCEPT !["refresher"] = Found(w)]
  /\ config' = [config EXCEPT !["refresher"] = w]
  /\ snapshot' = Remaining(w)
  /\ UNCHANGED <<stored, cloud, marked, queue, pc, conn, left, faults, history>>

(* The first watch that matches no network domain ends the pass. *)
AbortPass(w) ==
  /\ NextWatch(w)
  /\ Found(w) = {}
  /\ snapshot' = {}
  /\ pc' = [pc EXCEPT !["refresher"] = "idle"]
  /\ config' = [config EXCEPT !["refresher"] = None]
  /\ UNCHANGED <<stored, cloud, marked, queue, conn, todo, left, faults, history>>

EndPass ==
  /\ pc["refresher"] = "loop"
  /\ todo["refresher"] = {}
  /\ snapshot = {}
  /\ pc' = [pc EXCEPT !["refresher"] = "idle"]
  /\ config' = [config EXCEPT !["refresher"] = None]
  /\ UNCHANGED <<stored, cloud, marked, queue, snapshot, conn, todo, left, faults, history>>
-----------------------------------------------------------------------------
(* The process ends and starts again: what is not on disk is gone. *)
Restart ==
  /\ Fault
  /\ marked' = {}
  /\ jobs' = <<>>
  /\ job' = NoJob
  /\ targets' = {}
  /\ failed' = FALSE
  /\ snapshot' = {}
  /\ pc' = [p \in Procs |-> "idle"]
  /\ conn' = [p \in Procs |-> None]
  /\ config' = [p \in Procs |-> None]
  /\ todo' = [p \in Procs |-> {}]
  /\ left' = [p \in Procs |-> {}]
  /\ leftover' = [c \in Conns |-> leftover[c] \cup MadeFor(c)]
  /\ UNCHANGED <<stored, cloud, raced, torn>>

Create(p) == \/ BeginItem(p)
             \/ AlreadyExists(p)
             \/ StartCreation(p)
             \/ AddRule(p)
             \/ Connect(p)
             \/ Save(p)
             \/ CreateFails(p)

Delete == \/ DropWatch
          \/ NothingToDelete
          \/ StartDeletion
          \/ Detach
          \/ RemoveRule
          \/ DeleteRecord
          \/ DeleteFails

Worker == \/ Create("worker")
          \/ Delete
          \/ TakeConnect
          \/ ConfigFails
          \/ TakeDisconnect
          \/ EndJob
          \/ Reschedule

Refresher == \/ Create("refresher")
             \/ StartPass
             \/ \E w \in Configs : RefreshWatch(w) \/ AbortPass(w)
             \/ EndPass

Next == \/ \E cfg \in Configs : SubmitConnect(cfg)
        \/ \E t \in Conns \cup Configs : SubmitDisconnect(t)
        \/ Discover
        \/ Worker
        \/ Refresher
        \/ Restart

Spec == Init /\ [][Next]_vars

(* The ticker fires every 30 seconds and every call of a pass has a deadline. *)
FairSpec == Spec /\ WF_vars(Refresher)
-----------------------------------------------------------------------------
(* Types of the variables. *)
TypeOK ==
  /\ db \in [Conns -> Configs \cup {None}]
  /\ watching \subseteq Configs
  /\ visible \subseteq Conns
  /\ attached \in [Conns -> SUBSET Sides]
  /\ rule \in [Conns -> SUBSET Configs]
  /\ marked \subseteq Conns
  /\ jobs \in Seq(Jobs)
  /\ job \in Jobs \cup {NoJob}
  /\ targets \subseteq Conns
  /\ failed \in BOOLEAN
  /\ snapshot \subseteq Configs
  /\ pc \in [Procs -> PCs]
  /\ conn \in [Procs -> Conns \cup Configs \cup {None}]
  /\ config \in [Procs -> Configs \cup {None}]
  /\ todo \in [Procs -> SUBSET Conns]
  /\ left \in [Procs -> SUBSET Sides]
  /\ faults \in 0..MaxFaults
  /\ raced \subseteq Conns
  /\ torn \subseteq Conns
  /\ leftover \in [Conns -> SUBSET Configs]

(* A stored connection is really there: both domains attached, and its       *)
(* default-access rule in place.  The only exceptions are connections that   *)
(* worker and refresher handled at the same time and connections whose       *)
(* deletion has begun: failed provider calls, retries, restarts and the      *)
(* other goroutine's work on other connections make none                     *)
(* (awi_connection_controller.go:281-347).                                   *)
RecordBacked ==
  \A c \in Conns \ (raced \cup torn) :
     db[c] # None => attached[c] = Sides /\ RuleOf(db[c]) \subseteq rule[c]

(* What is set up in the clouds is known to the database or to a goroutine   *)
(* at work on it, except for what a creation that broke off left: its links  *)
(* until the connection is created or deleted completely, its rule, which    *)
(* bears the name of that creation's config, until a record made for the     *)
(* same config is deleted.  In particular a deletion leaves no attachment,   *)
(* and no rule but those (awi_connection_controller.go:1538-1587,            *)
(* disconnect.go:104-143 and 261-262).                                       *)
Accounted(c) ==
  /\ attached[c] # {} => db[c] # None \/ leftover[c] # {} \/ BeingMade(c)
  /\ rule[c] \subseteq Allowing \cap ({db[c]} \cup leftover[c] \cup MadeFor(c))
NoOrphans == \A c \in Conns \ raced : Accounted(c)

(* Both together: of a connection that is not one of those exceptions and    *)
(* that nobody is creating, exactly what its record says is set up           *)
(* (awi_connection_controller.go:281-347, disconnect.go:104-143).            *)
SetUp(c) == [links |-> attached[c], rules |-> rule[c]]
Recorded(c) == [links |-> IF db[c] = None THEN {} ELSE Sides, rules |-> RuleOf(db[c])]
RecordExact ==
  \A c \in Conns \ (raced \cup torn) :
     (leftover[c] = {} /\ ~BeingMade(c)) => SetUp(c) = Recorded(c)

(* A connect request ends in success only with a record for every            *)
(* connection it stands for, however many were created, found or failed on   *)
(* the way (awi_connection_controller.go:265-279).                           *)
SuccessMeansRecorded ==
  (pc["worker"] = "loop" /\ todo["worker"] = {} /\ ~failed)
     => \A c \in targets : db[c] # None

(* Every connection a stored watch matches among the discovered domains gets *)
(* a record, unless a user deletes it or the watch, provided the watches     *)
(* with smaller keys match something too: the refresher makes up for lost    *)
(* requests, failed calls and restarts (manager.go:140-164 and               *)
(* awi_connection_controller.go:238-263).                                    *)
Reachable(w) == \A v \in watching : Key[v] <= Key[w] => Found(v) # {}
WatchConverges ==
  \A w \in Watches : \A c \in Matches[w] :
     (w \in watching /\ c \in visible)
        ~> (db[c] # None \/ c \in marked \/ w \notin watching \/ ~Reachable(w))

(* "Connections marked as already deleted or pending deleted": once a marked *)
(* connection has no record and the refresher is not at work on it, it stays *)
(* without one until a user asks for it again or the process restarts; the   *)
(* refresher undoes a deletion only when it looked at the mark before it was *)
(* set (awi_connection_controller.go:132 and 281-297).                       *)
Settled(c) == c \in marked /\ db[c] = None /\ conn["refresher"] # c
DeletionSettles ==
  [][\A c \in Conns : Settled(c) => Settled(c)' \/ c \notin marked']_vars

(* A pass of the refresher ends: each of its steps takes it nearer to its    *)
(* end, in the watches it lists, then in their connections, then in the      *)
(* calls for one of them, and nobody else's step adds to it: watches stored, *)
(* domains discovered and calls that fail in the meantime prolong no pass    *)
(* (awi_connection_controller.go:238-263).                                   *)
StepsLeft == [at \in PCs |-> CASE at = "lookup" -> 4 [] at = "rule" -> 3 [] at = "connect" -> 2
                               [] at = "save" -> 1 [] OTHER -> 0]
Within(S, T) == S \subseteq T /\ S # T
Nearer(p) ==
  \/ pc'[p] = "idle"
  \/ Within(snapshot', snapshot)
  \/ /\ snapshot' = snapshot
     /\ \/ Within(todo'[p], todo[p])
        \/ /\ todo'[p] = todo[p]
           /\ \/ StepsLeft[pc'[p]] < StepsLeft[pc[p]]
              \/ pc'[p] = pc[p] /\ Within(left'[p], left[p])
PassShortens ==
  [][pc["refresher"] # "idle" =>
       IF Refresher THEN Nearer("refresher")
       ELSE pc'["refresher"] = "idle" \/
            UNCHANGED <<snapshot, pc["refresher"], todo["refresher"], left["refresher"]>>]_vars

(* A pass under way always has a next step: there is one watch to go on      *)
(* with, the first of those that remain, or a connection, or its end.        *)
PassGoesOn ==
  \/ pc["refresher"] \in {"idle", "lookup"} \cup CreatePCs
  \/ /\ pc["refresher"] = "loop"
     /\ \/ todo["refresher"] # {}
        \/ snapshot = {}
        \/ \E w \in Configs : NextWatch(w)

(* What becomes of a connection, whatever worker, refresher, providers and   *)
(* restarts do, is the life ConnectionLife describes: it is up only with     *)
(* both sides attached and the rule its record allows, nothing is taken from *)
(* it before its deletion and nothing added after its creation, its record   *)
(* goes last and with its own rule, and only two creations at once make it   *)
(* contested (awi_connection_controller.go:281-347, disconnect.go:30-143).   *)
LifeOf(c) ==
  IF c \in raced THEN "contested"
  ELSE IF db[c] # None THEN IF c \in torn THEN "unmaking" ELSE "up"
  ELSE IF BeingMade(c) THEN "making"
  ELSE IF leftover[c] # {} THEN "partial" ELSE "absent"
Lives == [c \in Conns |-> LifeOf(c)]
Life == INSTANCE ConnectionLife WITH
          life <- Lives, record <- db, links <- attached, ruled <- rule
LifeSpec == Life!Spec
=============================================================================
