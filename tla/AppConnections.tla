--------------------------- MODULE AppConnections ---------------------------
(***************************************************************************)
(* App connections between cloud domains: the allow rules the controller   *)
(* keeps in the security groups of the providers, and the records of them. *)
(* A request names one network domain connection or "all".  For "all" it   *)
(* creates one app connection per stored network domain connection, named  *)
(* "<name>-1", "<name>-2", ..., and then a reference record with the last  *)
(* number; whoever creates a network domain connection afterwards goes     *)
(* through the references and adds the next child of each.  Worker and     *)
(* refresher both create network domain connections; only the worker runs  *)
(* requests.                                                               *)
(*                                                                         *)
(* Record ids are random and taken as distinct.  Requests come from        *)
(* anywhere at any time, which covers the channel and its retries (module  *)
(* RequestQueue); how a network domain connection is set up is the module  *)
(* ConnectionController.  The sources of a rule are the module AppRefresh. *)
(***************************************************************************)
EXTENDS Naturals

CONSTANTS
  Conns,      (* network domain connections, numbered in database order       *)
  Requests,   (* app connection requests, each with a name of its own         *)
  Target,     (* the connection a request names, or All                       *)
  All,        (* AllNetworkDomainConnectionsIdentifier                        *)
  NodePorts,  (* requests whose destination is a NodePort service             *)
  None,
  MaxStarts,  (* bound: how often one request is begun                        *)
  MaxRemoved, (* bound: deletions users ask for                               *)
  MaxFaults   (* bound: failing calls and restarts                            *)

ASSUME ConnAssumption == Conns \subseteq Nat /\ All \notin Conns /\ None \notin Requests \cup Nat
ASSUME RequestAssumption == Target \in [Requests -> Conns \cup {All}]
ASSUME BoundAssumption == MaxStarts \in Nat /\ MaxRemoved \in Nat /\ MaxFaults \in Nat

Procs == {"worker", "refresher"}
Other(p) == IF p = "worker" THEN "refresher" ELSE "worker"

(* A child: the request it comes from, its connection and its number, 0 for  *)
(* a request that names its connection.  Request and number make its name,   *)
(* and the security group is "awi-rule-<name>" at the connection's           *)
(* destination.                                                              *)
Children == [req : Requests, conn : Conns, n : Nat]
NoWork == [req |-> None, conn |-> None, n |-> 0]
NoReferences == [r \in Requests |-> None]

VARIABLES
  (* Stored on disk. *)
  conns,     (* network domain connections                                   *)
  records,   (* children                                                     *)
  refs,      (* the Counter of each reference record, or None                *)
  (* The providers. *)
  groups,    (* children whose allow rule exists                             *)
  (* Local to the goroutines. *)
  pc,        (* where it is                                                  *)
  work,      (* the child it works on; only its connection while that is new *)
  snap,      (* the references it listed and has still to apply              *)
  todo,      (* connections left in the worker's loop over "all"             *)
  (* Bounds. *)
  starts, removed, faults,
  (* History. *)
  doubled,   (* children created a second time under the same name           *)
  torn,      (* children whose record outlives the removal of their rule     *)
  leftover,  (* children a creation broke off on after adding the rule       *)
  raced,     (* references one goroutine wrote while the other was using them *)
  uncounted, (* references whose Counter was not written after a child       *)
  settled    (* pairs of request and connection that have had a child, or    *)
             (* whose child failed, or that nobody was to create one for     *)

stored  == <<conns, records, refs>>
local   == <<pc, work, snap, todo>>
bounds  == <<starts, removed, faults>>
history == <<doubled, torn, leftover, raced, uncounted, settled>>
vars == <<stored, groups, local, bounds, history>>

IsAll(r) == Target[r] = All
(* p has listed reference r and not finished with it. *)
Holds(p, r) == snap[p][r] # None
-----------------------------------------------------------------------------
Init ==
  /\ conns = {}
  /\ records = {}
  /\ refs = NoReferences
  /\ groups = {}
  /\ pc = [p \in Procs |-> "idle"]
  /\ work = [p \in Procs |-> NoWork]
  /\ snap = [p \in Procs |-> NoReferences]
  /\ todo = {}
  /\ starts = [r \in Requests |-> 0]
  /\ removed = 0
  /\ faults = 0
  /\ doubled = {} /\ torn = {} /\ leftover = {}
  /\ raced = {} /\ uncounted = {} /\ settled = {}

Goto(p, where, child) == pc' = [pc EXCEPT ![p] = where] /\ work' = [work EXCEPT ![p] = child]
-----------------------------------------------------------------------------
(* A new network domain connection: createNetworkDomainConnection finds no   *)
(* record, sets it up and saves it, and then applies the references.         *)
StartConnection(p, c) ==
  /\ pc[p] = "idle"
  /\ c \notin conns
  /\ Goto(p, "connect", [NoWork EXCEPT !.conn = c])
  /\ UNCHANGED <<stored, groups, snap, todo, bounds, history>>

(* Mutant: the references are applied to what users ask for only. *)
MutantSaveConnection(p) ==
  /\ pc[p] = "connect"
  /\ conns' = conns \cup {work[p].conn}
  /\ IF p = "worker" THEN Goto(p, "list", work[p]) ELSE Goto(p, "idle", NoWork)
  /\ UNCHANGED <<records, refs, groups, snap, todo, bounds, history>>

SaveConnection(p) ==
  /\ pc[p] = "connect"
  /\ conns' = conns \cup {work[p].conn}
  /\ Goto(p, "list", work[p])
  /\ UNCHANGED <<records, refs, groups, snap, todo, bounds, history>>

(* The worker is between listing the connections for "all" and storing the   *)
(* reference of request r.                                                   *)
Midway(r) == /\ pc["worker"] \in {"each", "add", "record"}
             /\ work["worker"].req = r /\ IsAll(r) /\ ~Holds("worker", r)

(* applyAppConnectionsForAllNDConnections lists the references once.  A      *)
(* reference about to be stored is not among them.                           *)
ListReferences(p) ==
  /\ pc[p] = "list"
  /\ snap' = [snap EXCEPT ![p] = refs]
  /\ Goto(p, "apply", work[p])
  /\ raced' = raced \cup {r \in Requests : refs[r] # None /\ Holds(Other(p), r)}
  /\ settled' = settled \cup {<<r, work[p].conn>> : r \in {s \in Requests : Midway(s)}}
  /\ UNCHANGED <<stored, groups, todo, bounds, doubled, torn, leftover, uncounted>>

NextNumber(p, r) == snap[p][r] + 1

ApplyReference(p) ==
  /\ pc[p] = "apply"
  /\ \E r \in Requests :
       /\ Holds(p, r)
       /\ Goto(p, "add", [req |-> r, conn |-> work[p].conn, n |-> NextNumber(p, r)])
  /\ UNCHANGED <<stored, groups, snap, todo, bounds, history>>

EndApply(p) ==
  /\ pc[p] = "apply"
  /\ snap[p] = NoReferences
  /\ Goto(p, "idle", NoWork)
  /\ UNCHANGED <<stored, groups, snap, todo, bounds, history>>

(* The listed record is written back with the next Counter, whatever became  *)
(* of the stored one in the meantime.                                        *)
CountChild(p) ==
  /\ pc[p] = "count"
  /\ LET r == work[p].req
     IN /\ refs' = [refs EXCEPT ![r] = NextNumber(p, r)]
        /\ snap' = [snap EXCEPT ![p][r] = None]
        /\ raced' = IF Holds(Other(p), r) THEN raced \cup {r} ELSE raced
  /\ Goto(p, "apply", work[p])
  /\ UNCHANGED <<conns, records, groups, todo, bounds, doubled, torn, leftover, uncounted, settled>>
-----------------------------------------------------------------------------
(* createAppConnection for one cloud connection: the provider's rule first,  *)
(* then the record.                                                          *)
Twice(p) == IF work[p] \in records \/ work[Other(p)] = work[p] THEN {work[p]} ELSE {}

AddRule(p) ==
  /\ pc[p] = "add"
  /\ groups' = groups \cup {work[p]}
  /\ doubled' = doubled \cup Twice(p)
  /\ Goto(p, "record", work[p])
  /\ UNCHANGED <<stored, snap, todo, bounds, torn, leftover, raced, uncounted, settled>>

(* Where a goroutine goes on after a child: on to the Counter of the         *)
(* reference it applies, to the next connection of "all", or to nothing.     *)
Applies(p) == Holds(p, work[p].req)
AfterChild(p) == IF Applies(p) THEN "count" ELSE IF IsAll(work[p].req) THEN "each" ELSE "idle"

SaveChild(p) ==
  /\ pc[p] = "record"
  /\ records' = records \cup {work[p]}
  /\ settled' = settled \cup {<<work[p].req, work[p].conn>>}
  /\ leftover' = leftover \ {work[p]}
  /\ Goto(p, AfterChild(p), IF AfterChild(p) = "idle" THEN NoWork ELSE work[p])
  /\ UNCHANGED <<conns, refs, groups, snap, todo, bounds, doubled, torn, raced, uncounted>>
-----------------------------------------------------------------------------
(* CreateAppConnection, run by the worker. *)
Start(r) == /\ pc["worker"] = "idle"
            /\ starts[r] < MaxStarts
            /\ starts' = [starts EXCEPT ![r] = @ + 1]

(* One connection, found by id or name; a request that finds none fails.     *)
StartOne(r) ==
  /\ Start(r)
  /\ Target[r] \in conns
  /\ Goto("worker", "add", [req |-> r, conn |-> Target[r], n |-> 0])
  /\ UNCHANGED <<stored, groups, snap, todo, removed, faults, history>>

(* createAppConnectionForAllNDConnections lists the connections once ... *)
StartAll(r) ==
  /\ Start(r)
  /\ IsAll(r)
  /\ todo' = conns
  /\ Goto("worker", "each", [NoWork EXCEPT !.req = r])
  /\ UNCHANGED <<stored, groups, snap, removed, faults, history>>

(* ... creates a child for each, counting also those that fail ... *)
NextConnection ==
  /\ pc["worker"] = "each"
  /\ \E c \in todo :
       /\ \A d \in todo : c <= d
       /\ todo' = todo \ {c}
       /\ Goto("worker", "add", [req |-> work["worker"].req, conn |-> c, n |-> work["worker"].n + 1])
  /\ UNCHANGED <<stored, groups, snap, bounds, history>>

(* Mutants: the Counter of a new reference is that of the first child, or    *)
(* counted from zero.                                                        *)
MutantFinalCount == 0
MutantFinalIndex == work["worker"].n - 1
FinalCount == work["worker"].n

(* ... and stores the reference. *)
SaveReference ==
  /\ pc["worker"] = "each"
  /\ todo = {}
  /\ LET r == work["worker"].req
     IN /\ refs' = [refs EXCEPT ![r] = FinalCount]
        /\ raced' = IF Holds("refresher", r) THEN raced \cup {r} ELSE raced
  /\ Goto("worker", "idle", NoWork)
  /\ UNCHANGED <<conns, records, groups, snap, todo, bounds, doubled, torn, leftover, uncounted, settled>>
-----------------------------------------------------------------------------
(* DeleteAppConnection, run by the worker. *)
Deletion == /\ pc["worker"] = "idle"
            /\ removed < MaxRemoved
            /\ removed' = removed + 1

StartRemoval(k) ==
  /\ Deletion
  /\ k \in records
  /\ Goto("worker", "remove", k)
  /\ UNCHANGED <<stored, groups, snap, todo, starts, faults, history>>

(* Mutants: no rule is removed, or all of the request's.                     *)
MutantRulesOf(k) == {}
MutantRulesOfRequest(k) == {g \in groups : g.req = k.req}
(* deleteInboundRules: of a service only the source ranges are taken back,   *)
(* although a NodePort service has its rule in a security group.             *)
RulesOf(k) == IF k.req \in NodePorts THEN {} ELSE {k}

RemoveRule ==
  /\ pc["worker"] = "remove"
  /\ groups' = groups \ RulesOf(work["worker"])
  /\ torn' = torn \cup {work["worker"]}
  /\ leftover' = leftover \ RulesOf(work["worker"])
  /\ Goto("worker", "forget", work["worker"])
  /\ UNCHANGED <<stored, snap, todo, bounds, doubled, raced, uncounted, settled>>

(* One record goes; another one of the same name stays.  (Deleting it a      *)
(* second time, as is done after a group's rule, finds nothing.)             *)
DeleteRecord ==
  /\ pc["worker"] = "forget"
  /\ LET k == work["worker"]
     IN /\ \/ records' = records \ {k} /\ torn' = torn \ {k}
           \/ k \in doubled /\ UNCHANGED <<records, torn>>
  /\ Goto("worker", "idle", NoWork)
  /\ UNCHANGED <<conns, refs, groups, snap, todo, bounds, doubled, leftover, raced, uncounted, settled>>

(* Of a reference only its own record is deleted, its children stay.         *)
StartDrop(r) ==
  /\ Deletion
  /\ refs[r] # None
  /\ Goto("worker", "drop", [NoWork EXCEPT !.req = r])
  /\ UNCHANGED <<stored, groups, snap, todo, starts, faults, history>>

DropReference ==
  /\ pc["worker"] = "drop"
  /\ LET r == work["worker"].req
     IN /\ refs' = [refs EXCEPT ![r] = None]
        /\ raced' = IF Holds("refresher", r) THEN raced \cup {r} ELSE raced
  /\ Goto("worker", "idle", NoWork)
  /\ UNCHANGED <<conns, records, groups, snap, todo, bounds, doubled, torn, leftover, uncounted, settled>>

(* DeleteConnection of a network domain connection leaves its children.      *)
RemoveConnection(c) ==
  /\ Deletion
  /\ c \in conns
  /\ conns' = conns \ {c}
  /\ UNCHANGED <<records, refs, groups, local, starts, faults, history>>
-----------------------------------------------------------------------------
(* A call fails or the process ends; MaxFaults bounds how often. *)
Fault == faults < MaxFaults /\ faults' = faults + 1

(* The children p will not come to when it stops here.                       *)
Dropped(p) ==
  {<<r, work[p].conn>> : r \in {s \in Requests : \/ pc[p] = "list" /\ (refs[s] # None \/ Midway(s))
                                                 \/ Holds(p, s)
                                                 \/ pc[p] \in {"add", "record"} /\ work[p].req = s}}

(* An error ends what the goroutine does, except that the loop over "all"    *)
(* goes on with the next connection; the error of a request for one          *)
(* connection is logged and not returned.                                    *)
AfterFailure(p) ==
  IF pc[p] \in {"add", "record"} /\ IsAll(work[p].req) /\ ~Applies(p) THEN "each" ELSE "idle"

CallFails(p) ==
  /\ Fault
  /\ pc[p] \notin {"idle", "apply"}
  /\ pc[p] = "each" => todo = {}
  /\ \/ UNCHANGED <<groups, torn>>
     \/ pc[p] = "add" /\ groups' = groups \cup {work[p]} /\ UNCHANGED torn
     \/ /\ pc[p] = "remove" /\ groups' = groups \ RulesOf(work[p])
        /\ torn' = torn \cup {work[p]}
  /\ doubled' = IF pc[p] = "add" THEN doubled \cup Twice(p) ELSE doubled
  /\ leftover' = IF pc[p] \in {"add", "record"} THEN leftover \cup {work[p]} ELSE leftover
  /\ uncounted' = IF pc[p] = "count" THEN uncounted \cup {work[p].req} ELSE uncounted
  /\ settled' = settled \cup Dropped(p)
  /\ snap' = [snap EXCEPT ![p] = NoReferences]
  /\ todo' = IF p = "worker" /\ AfterFailure(p) = "idle" THEN {} ELSE todo
  /\ Goto(p, AfterFailure(p), IF AfterFailure(p) = "idle" THEN NoWork ELSE work[p])
  /\ UNCHANGED <<stored, starts, removed, raced>>

Restart ==
  /\ Fault
  /\ leftover' = leftover \cup {work[p] : p \in {q \in Procs : pc[q] = "record"}}
  /\ uncounted' = uncounted \cup {work[p].req : p \in {q \in Procs : pc[q] = "count"}}
  /\ settled' = settled \cup UNION {Dropped(p) : p \in Procs}
  /\ pc' = [p \in Procs |-> "idle"]
  /\ work' = [p \in Procs |-> NoWork]
  /\ snap' = [p \in Procs |-> NoReferences]
  /\ todo' = {}
  /\ UNCHANGED <<stored, groups, starts, removed, doubled, torn, raced>>

Connecting(p) == \/ \E c \in Conns : StartConnection(p, c)
                 \/ SaveConnection(p)
                 \/ ListReferences(p)
                 \/ ApplyReference(p)
                 \/ EndApply(p)
                 \/ CountChild(p)
                 \/ AddRule(p)
                 \/ SaveChild(p)
                 \/ CallFails(p)

Requesting == \/ \E r \in Requests : StartOne(r) \/ StartAll(r) \/ StartDrop(r)
              \/ NextConnection
              \/ SaveReference
              \/ \E k \in records : StartRemoval(k)
              \/ RemoveRule
              \/ DeleteRecord
              \/ DropReference
              \/ \E c \in Conns : RemoveConnection(c)

Next == (\E p \in Procs : Connecting(p)) \/ Requesting \/ Restart

Spec == Init /\ [][Next]_vars
-----------------------------------------------------------------------------
(* Types of the variables. *)
TypeOK ==
  /\ conns \subseteq Conns
  /\ records \subseteq Children
  /\ refs \in [Requests -> Nat \cup {None}]
  /\ groups \subseteq Children
  /\ pc \in [Procs -> {"idle", "connect", "list", "apply", "add", "record", "count", "each",
                       "remove", "forget", "drop"}]
  /\ work \in [Procs -> [req : Requests \cup {None}, conn : Conns \cup {None}, n : Nat]]
  /\ snap \in [Procs -> [Requests -> Nat \cup {None}]]
  /\ todo \subseteq Conns
  /\ starts \in [Requests -> 0..MaxStarts]
  /\ removed \in 0..MaxRemoved
  /\ faults \in 0..MaxFaults
  /\ doubled \subseteq Children /\ torn \subseteq Children /\ leftover \subseteq Children
  /\ raced \subseteq Requests /\ uncounted \subseteq Requests
  /\ settled \subseteq Requests \X Conns

(* An allow rule in a cloud belongs to a stored app connection, or to a      *)
(* goroutine about to store it.  The exceptions are namesakes, the creations *)
(* that broke off, whose error CreateAppConnection does not return (so that  *)
(* nobody tries again), and NodePort services, whose rule no deletion takes  *)
(* (awi_connection_controller.go:573-580, disconnect.go:224-250,             *)
(* security_groups.go:33-88).                                                *)
RulesOwned ==
  \A k \in groups : \/ k \in records \cup leftover \cup doubled
                    \/ \E p \in Procs : pc[p] = "record" /\ work[p] = k
                    \/ k.req \in NodePorts

(* The rule of a stored app connection is in the cloud: no other app         *)
(* connection's deletion, failure or restart takes it away, except a         *)
(* namesake's, because the security group goes by the name                   *)
(* (security_groups.go:265 and 300-308, disconnect.go:237-245).              *)
RecordsEnforced == \A k \in records : k \in groups \cup torn \cup doubled

(* The children of a reference have names of their own, also across the two  *)
(* goroutines and for connections created later, unless the goroutines used  *)
(* the reference at the same time, a Counter was not written after its       *)
(* child, or the request was begun again, by a user or a retry               *)
(* (awi_connection_controller.go:583-653).                                   *)
NamesUnique ==
  \A j, k \in records :
     (j.req = k.req /\ j.n = k.n /\ j.req \notin raced \cup uncounted /\ starts[j.req] <= 1)
        => j = k

(* "Create reference app connection, which will be used for creating such    *)
(* app connection for all new network domain connections": every network     *)
(* domain connection has had its child of every reference, unless creating   *)
(* it failed, the connection was saved while the request for "all" was being *)
(* carried out, or the goroutines used the reference at the same time        *)
(* (awi_connection_controller.go:608-609, 340-345 and 629-655).              *)
InFlight(r, c) ==
  \E p \in Procs : work[p].conn = c /\ (pc[p] = "list" \/ Holds(p, r))
AllServed ==
  \A r \in Requests \ raced : \A c \in conns :
     refs[r] # None => <<r, c>> \in settled \/ InFlight(r, c)

(* The Counter of a stored reference goes up by one, for the child just      *)
(* made, and never back, although it is written from a listing of long       *)
(* before; with the exceptions of NamesUnique                                *)
(* (awi_connection_controller.go:629-655).                                   *)
CounterSteps ==
  [][\A r \in Requests :
       refs[r] # None /\ refs'[r] # None /\ r \notin raced' \cup uncounted' /\ starts'[r] <= 1
         => \/ refs'[r] = refs[r]
            \/ /\ refs'[r] = refs[r] + 1
               /\ \E p \in Procs : pc[p] = "count" /\ work[p].req = r /\ work[p].n = refs'[r]]_vars
=============================================================================
