----------------------------- MODULE AppRefresh -----------------------------
(***************************************************************************)
(* How the source addresses of app connections follow the clouds.  Every   *)
(* thirty seconds RefreshAppConnections lists the app connections and goes *)
(* through them in the order of their ids: it asks which instances or pods *)
(* match the source labels now, passes the difference to the addresses of  *)
(* the listed record on to the destination, and writes that record back.   *)
(* Meanwhile the worker creates and deletes app connections.               *)
(*                                                                         *)
(* A destination is a security group of the app connection's own, or a     *)
(* Kubernetes load balancer in GCP whose loadBalancerSourceRanges all app  *)
(* connections to it share; one such service is modelled.  The numbers of  *)
(* children and the names of groups are in the module AppConnections.      *)
(***************************************************************************)
EXTENDS Naturals

CONSTANTS
  Apps,        (* app connections, numbered in the order of their ids         *)
  Kind,        (* "group", "service", or a record without rules: "reference"  *)
               (* (for all connections) or "url" (URL filtering)              *)
  Addrs,       (* source addresses                                            *)
  None,
  MaxRequests, (* bound: creations and deletions                              *)
  MaxChanges,  (* bound: changes of what the labels match                     *)
  MaxFaults    (* bound: failing calls and restarts                           *)

Kinds == {"group", "service", "reference", "url"}
ASSUME AppAssumption == Apps \subseteq Nat /\ Kind \in [Apps -> Kinds] /\ None \notin Nat
ASSUME BoundAssumption == MaxRequests \in Nat /\ MaxChanges \in Nat /\ MaxFaults \in Nat

Procs == {"worker", "refresher"}
Ruled == {r \in Apps : Kind[r] \in {"group", "service"}}
Grouped == {r \in Apps : Kind[r] = "group"}
Services == {r \in Apps : Kind[r] = "service"}

VARIABLES
  matching,  (* the addresses each app connection's source matches now        *)
  (* Stored on disk. *)
  stored,    (* app connections with a record                                 *)
  cidrs,     (* Source.CIDRs of the record, {} without one                    *)
  (* Destinations. *)
  exists,    (* app connections whose security group exists                   *)
  rules,     (* the sources it allows, {} without one                         *)
  ranges,    (* the source ranges of the shared service                       *)
  (* Local to worker and refresher. *)
  pc,        (* where it is                                                   *)
  at,        (* the app connection it works on, or None                       *)
  new,       (* the addresses it has read for it                              *)
  listed,    (* records left in the refresher's pass                          *)
  old,       (* the CIDRs of the records as listed                            *)
  (* Bounds. *)
  begun,     (* app connections that were created or begun to be              *)
  requests, changes, faults,
  (* History. *)
  raced,     (* deleted while the refresher was using the record              *)
  broken,    (* a call failed between destination and record                  *)
  contested  (* addresses two app connections of the service have had at once *)

disk    == <<stored, cidrs>>
dest    == <<exists, rules, ranges>>
local   == <<pc, at, new>>
pass    == <<listed, old>>
bounds  == <<begun, requests, changes, faults>>
history == <<raced, broken, contested>>
vars == <<matching, disk, dest, local, pass, bounds, history>>

Nothing == [r \in Apps |-> {}]
-----------------------------------------------------------------------------
Init ==
  /\ \E m \in [Ruled -> SUBSET Addrs] :
       matching = [r \in Apps |-> IF r \in Ruled THEN m[r] ELSE {}]
  /\ stored = {}
  /\ cidrs = Nothing
  /\ exists = {}
  /\ rules = Nothing
  /\ ranges = {}
  /\ pc = [p \in Procs |-> "idle"]
  /\ at = [p \in Procs |-> None]
  /\ new = [p \in Procs |-> {}]
  /\ listed = {}
  /\ old = Nothing
  /\ begun = {}
  /\ requests = 0
  /\ changes = 0
  /\ faults = 0
  /\ raced = {}
  /\ broken = {}
  /\ contested = {}

(* Instances and pods come and go, labels change.                            *)
Change(r) ==
  /\ r \in Ruled
  /\ changes < MaxChanges
  /\ changes' = changes + 1
  /\ \E a \in Addrs : matching' = [matching EXCEPT ![r] = IF a \in @ THEN @ \ {a} ELSE @ \cup {a}]
  /\ UNCHANGED <<disk, dest, local, pass, begun, requests, faults, history>>

Goto(p, where, r, addrs) ==
  /\ pc' = [pc EXCEPT ![p] = where]
  /\ at' = [at EXCEPT ![p] = r]
  /\ new' = [new EXCEPT ![p] = addrs]

(* Addresses the service's other app connections have, or are getting.       *)
Others(r) ==
  (UNION {cidrs[s] : s \in Services \ {r}})
    \cup (UNION {new[p] : p \in {q \in Procs : at[q] \in Services \ {r}}})
Contest(r, addrs) == contested' = IF r \in Services THEN contested \cup (addrs \cap Others(r)) ELSE contested
-----------------------------------------------------------------------------
(* The worker takes a request.                                               *)
Take == /\ pc["worker"] = "idle"
        /\ requests < MaxRequests
        /\ requests' = requests + 1

(* The worker creates: source addresses, destination, record.                *)
StartCreation(r) ==
  /\ Take
  /\ r \in Ruled \ begun
  /\ begun' = begun \cup {r}
  /\ Goto("worker", "create", r, matching[r])
  /\ Contest(r, matching[r])
  /\ UNCHANGED <<matching, disk, dest, pass, changes, faults, raced, broken>>

(* A reference, or the record of a URL filtering, stands for no rule here.   *)
StoreMarker(r) ==
  /\ Take
  /\ r \in Apps \ (Ruled \cup begun)
  /\ begun' = begun \cup {r}
  /\ stored' = stored \cup {r}
  /\ UNCHANGED <<matching, cidrs, dest, local, pass, changes, faults, history>>

(* Mutant: the service's ranges are replaced.                                *)
MutantOpen(r, addrs) ==
  IF r \in Services THEN ranges' = addrs /\ UNCHANGED <<exists, rules>>
  ELSE exists' = exists \cup {r} /\ rules' = [rules EXCEPT ![r] = addrs] /\ UNCHANGED ranges
(* updateSecurityGroupsInDestination: a group of its own, or more ranges of  *)
(* the service.                                                              *)
Open(r, addrs) ==
  IF r \in Services THEN ranges' = ranges \cup addrs /\ UNCHANGED <<exists, rules>>
  ELSE /\ exists' = exists \cup {r}
       /\ rules' = [rules EXCEPT ![r] = addrs]
       /\ UNCHANGED ranges

AddSources ==
  /\ pc["worker"] = "create"
  /\ Open(at["worker"], new["worker"])
  /\ Goto("worker", "record", at["worker"], new["worker"])
  /\ UNCHANGED <<matching, disk, pass, bounds, history>>

SaveCreated ==
  /\ pc["worker"] = "record"
  /\ stored' = stored \cup {at["worker"]}
  /\ cidrs' = [cidrs EXCEPT ![at["worker"]] = new["worker"]]
  /\ Goto("worker", "idle", None, {})
  /\ UNCHANGED <<matching, dest, pass, bounds, history>>

(* The worker deletes: the record is read, its addresses are taken off the   *)
(* destination, the record is deleted, that of a group twice.                *)
InPass(r) == r \in listed \/ at["refresher"] = r

StartDeletion(r) ==
  /\ Take
  /\ r \in stored
  /\ Goto("worker", IF r \in Ruled THEN "remove" ELSE "forget", r, cidrs[r])
  /\ raced' = IF InPass(r) THEN raced \cup {r} ELSE raced
  /\ UNCHANGED <<matching, disk, dest, pass, begun, changes, faults, broken, contested>>

(* deleteInboundRules.                                                       *)
Shut(r, addrs) ==
  IF r \in Services THEN ranges' = ranges \ addrs /\ UNCHANGED <<exists, rules>>
  ELSE /\ exists' = exists \ {r}
       /\ rules' = [rules EXCEPT ![r] = {}]
       /\ UNCHANGED ranges

RemoveSources ==
  /\ pc["worker"] = "remove"
  /\ Shut(at["worker"], new["worker"])
  /\ Goto("worker", "forget", at["worker"], new["worker"])
  /\ UNCHANGED <<matching, disk, pass, bounds, history>>

(* Mutant: the row goes and its data stays. *)
MutantDeleteRecord ==
  /\ pc["worker"] \in {"forget", "erase"}
  /\ stored' = stored \ {at["worker"]}
  /\ Goto("worker", "idle", None, {})
  /\ UNCHANGED <<matching, cidrs, dest, pass, bounds, history>>

(* By deleteInboundRules, for a group, and by DeleteAppConnection.           *)
DeleteRecord ==
  /\ pc["worker"] \in {"forget", "erase"}
  /\ stored' = stored \ {at["worker"]}
  /\ cidrs' = [cidrs EXCEPT ![at["worker"]] = {}]
  /\ IF pc["worker"] = "forget" /\ at["worker"] \in Grouped
     THEN Goto("worker", "erase", at["worker"], new["worker"])
     ELSE Goto("worker", "idle", None, {})
  /\ UNCHANGED <<matching, dest, pass, bounds, history>>
-----------------------------------------------------------------------------
(* The refresher's pass.  All records are listed at its start.               *)
StartPass ==
  /\ pc["refresher"] = "idle"
  /\ stored # {}
  /\ listed' = stored
  /\ old' = cidrs
  /\ Goto("refresher", "next", None, {})
  /\ raced' = raced \cup ({at["worker"]} \cap stored)
  /\ UNCHANGED <<matching, disk, dest, bounds, broken, contested>>

EndPass == listed' = {} /\ old' = Nothing /\ Goto("refresher", "idle", None, {})

(* The pass returns at the first record for all connections and at the first *)
(* one without a connection.                                                 *)
StopsAt(r) == r \notin Ruled

(* Mutant: the pass is over after its first record. *)
MutantRemaining(r) == {}
Remaining(r) == listed \ {r}

(* getSourceDataForLabels and its sibling for pods: what matches now.        *)
NextApp ==
  /\ pc["refresher"] = "next"
  /\ \E r \in listed :
       /\ \A s \in listed : r <= s
       /\ ~StopsAt(r)
       /\ listed' = Remaining(r)
       /\ Goto("refresher", "apply", r, matching[r])
       /\ Contest(r, matching[r])
  /\ UNCHANGED <<matching, disk, dest, old, bounds, raced, broken>>

PassOver ==
  /\ pc["refresher"] = "next"
  /\ \A r \in listed : (\A s \in listed : r <= s) => StopsAt(r)
  /\ EndPass
  /\ UNCHANGED <<matching, disk, dest, bounds, history>>

(* Mutant: addresses are only ever added. *)
MutantUpdated(addrs, r) == addrs \cup (new["refresher"] \ old[r])
(* ipsToAdd and ipsToRemove are differences to the record as listed.         *)
Updated(addrs, r) == (addrs \cup (new["refresher"] \ old[r])) \ (old[r] \ new["refresher"])

(* RefreshInboundAllowRule, or UpdateServiceSourceRanges unless there is no  *)
(* difference.                                                               *)
Apply(r) ==
  IF r \in Services THEN ranges' = Updated(ranges, r) /\ UNCHANGED <<exists, rules>>
  ELSE /\ rules' = [rules EXCEPT ![r] = Updated(@, r)]
       /\ UNCHANGED <<exists, ranges>>

RefreshSources ==
  /\ pc["refresher"] = "apply"
  /\ at["refresher"] \in exists \cup Services
  /\ Apply(at["refresher"])
  /\ Goto("refresher", IF at["refresher"] \in Services THEN "again" ELSE "save",
          at["refresher"], new["refresher"])
  /\ UNCHANGED <<matching, disk, pass, bounds, history>>

(* The security group is gone: the provider's error ends the pass.           *)
GroupMissing ==
  /\ pc["refresher"] = "apply"
  /\ at["refresher"] \notin exists \cup Services
  /\ EndPass
  /\ UNCHANGED <<matching, disk, dest, bounds, history>>

(* The listed record is written back, whether or not it is still stored, by  *)
(* refreshSecurityGroups for a group and again by RefreshAppConnections.     *)
SaveRefreshed ==
  /\ pc["refresher"] \in {"save", "again"}
  /\ stored' = stored \cup {at["refresher"]}
  /\ cidrs' = [cidrs EXCEPT ![at["refresher"]] = new["refresher"]]
  /\ IF pc["refresher"] = "save"
     THEN Goto("refresher", "again", at["refresher"], new["refresher"])
     ELSE Goto("refresher", "next", None, {})
  /\ UNCHANGED <<matching, dest, pass, bounds, history>>
-----------------------------------------------------------------------------
(* A call fails or the process ends; MaxFaults bounds how often.             *)
Fault == faults < MaxFaults /\ faults' = faults + 1

(* What was done to the destination and is not in the record, or the other   *)
(* way round.                                                                *)
HalfDone(p) == IF pc[p] \in {"create", "record", "remove", "forget", "erase", "apply", "save", "again"}
               THEN {at[p]} ELSE {}

CallFails(p) ==
  /\ Fault
  /\ pc[p] \notin {"idle", "next"}
  /\ \/ UNCHANGED dest
     \/ pc[p] = "create" /\ Open(at[p], new[p])
     \/ pc[p] = "remove" /\ Shut(at[p], new[p])
     \/ pc[p] = "apply" /\ at[p] \in exists \cup Services /\ Apply(at[p])
  /\ broken' = broken \cup HalfDone(p)
  /\ IF p = "refresher" THEN EndPass ELSE Goto(p, "idle", None, {}) /\ UNCHANGED pass
  /\ UNCHANGED <<matching, disk, begun, requests, changes, raced, contested>>

Restart ==
  /\ Fault
  /\ broken' = broken \cup HalfDone("worker") \cup HalfDone("refresher")
  /\ listed' = {}
  /\ old' = Nothing
  /\ pc' = [p \in Procs |-> "idle"]
  /\ at' = [p \in Procs |-> None]
  /\ new' = [p \in Procs |-> {}]
  /\ UNCHANGED <<matching, disk, dest, begun, requests, changes, raced, contested>>

Worker == \/ \E r \in Apps : StartCreation(r) \/ StoreMarker(r) \/ StartDeletion(r)
          \/ AddSources
          \/ SaveCreated
          \/ RemoveSources
          \/ DeleteRecord
          \/ CallFails("worker")

Refresher == \/ StartPass
             \/ NextApp
             \/ PassOver
             \/ RefreshSources
             \/ GroupMissing
             \/ SaveRefreshed
             \/ CallFails("refresher")

Next == Worker \/ Refresher \/ Restart \/ \E r \in Apps : Change(r)

Spec == Init /\ [][Next]_vars

(* The ticker fires every 30 seconds and every call of a pass has a deadline. *)
FairSpec == Spec /\ WF_vars(Refresher)
-----------------------------------------------------------------------------
(* Types of the variables; what has no record or no group has no addresses.  *)
TypeOK ==
  /\ matching \in [Apps -> SUBSET Addrs]
  /\ stored \subseteq Apps
  /\ cidrs \in [Apps -> SUBSET Addrs]
  /\ \A r \in Apps : cidrs[r] # {} => r \in stored \cap Ruled
  /\ exists \subseteq Grouped
  /\ rules \in [Apps -> SUBSET Addrs]
  /\ \A r \in Apps : rules[r] # {} => r \in exists
  /\ ranges \subseteq Addrs
  /\ pc \in [Procs -> {"idle", "create", "record", "remove", "forget", "erase", "next", "apply", "save",
                       "again"}]
  /\ at \in [Procs -> Apps \cup {None}]
  /\ new \in [Procs -> SUBSET Addrs]
  /\ listed \subseteq Apps
  /\ old \in [Apps -> SUBSET Addrs]
  /\ begun \subseteq Apps
  /\ requests \in 0..MaxRequests
  /\ changes \in 0..MaxChanges
  /\ faults \in 0..MaxFaults
  /\ raced \subseteq Apps /\ broken \subseteq Apps /\ contested \subseteq Addrs

(* A security group allows exactly the addresses of the stored record, or,   *)
(* between the provider's call and the save, those the refresher has just    *)
(* read, or nothing when it is being deleted.  The differences a pass        *)
(* computes are therefore right, however often the sources changed before.   *)
(* Exceptions: records deleted while a pass was using them, and calls that   *)
(* failed half way (security_groups.go:332-419,                              *)
(* awi_connection_controller.go:210-236).                                    *)
GroupsFollow ==
  \A r \in (stored \cap Grouped) \ (raced \cup broken) :
     \/ at["worker"] = r /\ pc["worker"] \in {"forget", "erase"}
     \/ /\ r \in exists
        /\ rules[r] = IF at["refresher"] = r /\ pc["refresher"] = "save" THEN new["refresher"] ELSE cidrs[r]

(* The shared service admits exactly the addresses of its stored app         *)
(* connections, except those a goroutine is just adding or removing.  It     *)
(* does not hold of addresses that two of them have had at once: deleting or *)
(* refreshing one takes them from the other                                  *)
(* (kubernetes.go:157-164, disconnect.go:233-236, security_groups.go:386-390). *)
Moving(a) ==
  \E p \in Procs : /\ at[p] \in Services
                   /\ pc[p] \in {"record", "forget", "again"}
                   /\ a \in new[p] \cup old[at[p]]
RangesFollow ==
  Services \cap (raced \cup broken) = {} =>
    \A a \in Addrs \ contested :
       ~Moving(a) => (a \in ranges <=> \E r \in Services : a \in cidrs[r])

(* When the sources have stopped changing, the refresher brings every record *)
(* it gets to up to date, by itself and in spite of failed calls and         *)
(* restarts.  It gets to the records before the first reference or URL       *)
(* filtering, and not beyond a security group that is missing                *)
(* (manager.go:140-164, awi_connection_controller.go:210-236).               *)
Reached(r) == \A s \in stored : s <= r => s \in exists \cup Services
Converges ==
  <>[](\A r \in stored : Reached(r) => cidrs[r] = matching[r])

(* An app connection that was deleted is not stored again, although the      *)
(* refresher writes back records it listed long before, unless the deletion  *)
(* began while the pass had the record still to do, or the pass while the    *)
(* deletion was under way; a failed call or a restart between them makes no  *)
(* exception (awi_connection_controller.go:210-236).                         *)
NoReturn ==
  [][\A r \in Apps :
       r \in begun /\ r \notin stored /\ r \in stored'
         => r \in raced \/ (at["worker"] = r /\ pc["worker"] = "record")]_vars

(* A pass draws to its end: each of its steps leaves fewer records, or less  *)
(* to do for the one at hand, and what the worker and the cloud do meanwhile *)
(* does not prolong it (awi_connection_controller.go:210-236).               *)
StepsLeft == [where \in {"idle", "next", "apply", "save", "again"} |->
                CASE where = "apply" -> 3 [] where = "save" -> 2 [] where = "again" -> 1 [] OTHER -> 0]
PassShortens ==
  [][pc["refresher"] # "idle" =>
       IF Refresher
       THEN \/ pc'["refresher"] = "idle"
            \/ listed' \subseteq listed /\ listed' # listed
            \/ listed' = listed /\ StepsLeft[pc'["refresher"]] < StepsLeft[pc["refresher"]]
       ELSE pc'["refresher"] = "idle" \/ UNCHANGED <<listed, pc["refresher"]>>]_vars
=============================================================================
