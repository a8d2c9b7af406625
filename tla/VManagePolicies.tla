-------------------------- MODULE VManagePolicies --------------------------
(* The objects the controller chains together in vManage: a site's ACL, the   *)
(* policy that contains it, the device template the policy is bound to and    *)
(* the interface template that lists the ACL (createACLPolicy,                *)
(* deleteACLPolicy); an app's URL list and the URL filtering that refers to   *)
(* it (createURLFiltering, deleteURLFiltering).  The worker carries out one   *)
(* request at a time, one client call per step; a call may fail and the       *)
(* process may end between any two.                                           *)
EXTENDS Naturals, FiniteSets

CONSTANTS
  None,
  Connections, Sites, Apps,
  SiteOf,        \* the source site of a connection
  Access,        \* the access type its policy gives: "unset" (empty), "allow" or "deny"
  Stored,        \* connections recorded while the connector was "awi", which makes no site policy
  MaxStarts,     \* bound: jobs the worker begins
  MaxFaults      \* bound: failed calls and restarts

ASSUME VManageAssumption ==
  /\ SiteOf \in [Connections -> Sites] /\ Access \in [Connections -> {"unset", "allow", "deny"}]
  /\ Stored \subseteq Connections
  /\ None \notin Sites \cup {"accept", "drop"}
  /\ MaxStarts \in Nat /\ MaxFaults \in Nat

VARIABLES
  acls,        \* vManage: the default action of a site's ACL, None without one
  policies,    \* vManage: the sites that have a policy
  bound,       \* vManage: the sites whose device template names their policy
  listed,      \* vManage: the site whose ACL the interface template lists
  tagged,      \* vManage: the connections whose source VPC has a tag
  records,     \* database: the connections
  lists, filterings,   \* vManage: the apps with a URL list, with a filtering
  urlRecords,  \* database: the apps with a URL filtering
  asked,       \* the apps whose creation has begun
  job,         \* the worker's request: its operation and target
  pc,          \* where the worker is in it
  held,        \* deviceTemplate.PolicyID as the worker read it: was there one
  starts, faults

chain == <<acls, policies, bound, listed>>
urls == <<lists, filterings, urlRecords, asked>>
count == <<starts, faults>>
vars == <<acls, policies, bound, listed, tagged, records, lists, filterings, urlRecords, asked,
          job, pc, held, starts, faults>>

Jobs == [op : {"connect", "disconnect"}, on : Connections] \cup [op : {"create", "delete"}, on : Apps]
Idle == [op |-> "none", on |-> None]
Places == {"idle", "tag", "find", "create", "policy", "bind", "list", "update", "save",
           "clear", "unbind", "unpolicy", "unacl", "forget",
           "newlist", "newfilter", "newrecord", "get", "unfilter", "unlist", "unrecord"}

Site == SiteOf[job.on]

MutantAction(access) == IF access = "allow" THEN "accept" ELSE IF access = "unset" THEN "drop" ELSE access
Action(access) == IF access = "allow" THEN "accept" ELSE "drop"

-----------------------------------------------------------------------------
Init ==
  /\ acls = [s \in Sites |-> None] /\ policies = {} /\ bound = {} /\ listed = None
  /\ tagged = {} /\ records = Stored
  /\ lists = {} /\ filterings = {} /\ urlRecords = {} /\ asked = {}
  /\ job = Idle /\ pc = "idle" /\ held = FALSE /\ starts = 0 /\ faults = 0

Goto(place) == pc' = place /\ UNCHANGED <<job, held>>
Return == job' = Idle /\ pc' = "idle" /\ held' = FALSE

(* A job reads its record first: a stored connection is not made again, a     *)
(* missing one is not unmade.  An app is asked for once: CreateAppConnection  *)
(* logs an error and returns none, so that the queue never retries it.        *)
Begin(j) ==
  /\ pc = "idle" /\ starts < MaxStarts
  /\ \/ j.op = "connect" /\ j.on \notin records /\ pc' = "tag"
     \/ j.op = "disconnect" /\ j.on \in records /\ pc' = "tag"
     \/ j.op = "create" /\ j.on \notin asked /\ pc' = "newlist"
     \/ j.op = "delete" /\ j.on \in urlRecords /\ pc' = "get"
  /\ job' = j /\ held' = FALSE /\ starts' = starts + 1
  /\ asked' = IF j.op = "create" THEN asked \cup {j.on} ELSE asked
  /\ UNCHANGED <<chain, tagged, records, lists, filterings, urlRecords, faults>>

(* tagConnection: a VPC that has a tag keeps it.                              *)
Tag ==
  /\ pc = "tag"
  /\ tagged' = tagged \cup {job.on}
  /\ Goto(IF job.op = "connect" THEN "find" ELSE "clear")
  /\ UNCHANGED <<chain, records, urls, count>>

(* createACLPolicy: the ACL of the site decides, whatever else is there.      *)
FindACL ==
  /\ pc = "find"
  /\ Goto(IF acls[Site] = None THEN "create" ELSE "update")
  /\ UNCHANGED <<chain, tagged, records, urls, count>>

WriteACL ==
  /\ pc \in {"create", "update"}
  /\ acls' = [acls EXCEPT ![Site] = Action(Access[job.on])]
  /\ Goto(IF pc = "create" THEN "policy" ELSE "save")
  /\ UNCHANGED <<policies, bound, listed, tagged, records, urls, count>>

CreatePolicy ==
  /\ pc = "policy"
  /\ policies' = policies \cup {Site}
  /\ Goto("bind")
  /\ UNCHANGED <<acls, bound, listed, tagged, records, urls, count>>

BindDevice ==
  /\ pc = "bind"
  /\ bound' = bound \cup {Site}
  /\ Goto("list")
  /\ UNCHANGED <<acls, policies, listed, tagged, records, urls, count>>

(* The connection's FeatureTemplateID is never set, so every site's ACL goes  *)
(* to the one template with the empty id.                                     *)
ListACL ==
  /\ pc = "list"
  /\ listed' = Site
  /\ Goto("save")
  /\ UNCHANGED <<acls, policies, bound, tagged, records, urls, count>>

(* A network domain connection passes no app connection, and saving the       *)
(* result sets a timestamp in its nil Config: the process panics.             *)
SaveResult ==
  /\ pc = "save"
  /\ Return
  /\ UNCHANGED <<chain, tagged, records, urls, count>>

-----------------------------------------------------------------------------
(* deleteACLPolicy, in disconnectSource.                                      *)
MutantClearList ==      \* the template is written back as it was read
  /\ pc = "clear"
  /\ Goto("unbind")
  /\ UNCHANGED <<chain, tagged, records, urls, count>>

ClearList ==
  /\ pc = "clear"
  /\ listed' = None
  /\ Goto("unbind")
  /\ UNCHANGED <<acls, policies, bound, tagged, records, urls, count>>

MutantUnbindDevice ==   \* the template's policy is read after it was cleared
  /\ pc = "unbind"
  /\ bound' = bound \ {Site}
  /\ held' = (Site \in bound')
  /\ pc' = "unpolicy"
  /\ UNCHANGED <<acls, policies, listed, tagged, records, urls, count, job>>

UnbindDevice ==
  /\ pc = "unbind"
  /\ bound' = bound \ {Site}
  /\ held' = (Site \in bound)
  /\ pc' = "unpolicy"
  /\ UNCHANGED <<acls, policies, listed, tagged, records, urls, count, job>>

(* Policy().Get of the id that was read: an empty id is an error, and the job *)
(* ends here, as every later one will.                                        *)
DeletePolicy ==
  /\ pc = "unpolicy"
  /\ \/ held /\ policies' = policies \ {Site} /\ Goto("unacl")
     \/ ~held /\ Return /\ UNCHANGED policies
  /\ UNCHANGED <<acls, bound, listed, tagged, records, urls, count>>

MutantDeleteACL ==      \* the record is removed without the ACL
  /\ pc = "unacl"
  /\ Goto("forget")
  /\ UNCHANGED <<chain, tagged, records, urls, count>>

DeleteACL ==
  /\ pc = "unacl"
  /\ acls' = [acls EXCEPT ![Site] = None]
  /\ Goto("forget")
  /\ UNCHANGED <<policies, bound, listed, tagged, records, urls, count>>

DeleteRecord ==
  /\ pc = "forget"
  /\ records' = records \ {job.on}
  /\ Return
  /\ UNCHANGED <<chain, tagged, urls, count>>

-----------------------------------------------------------------------------
(* createURLFiltering, in CreateAppConnection.                                *)
CreateList ==
  /\ pc = "newlist"
  /\ lists' = lists \cup {job.on}
  /\ Goto("newfilter")
  /\ UNCHANGED <<chain, tagged, records, filterings, urlRecords, asked, count>>

CreateFiltering ==
  /\ pc = "newfilter"
  /\ filterings' = filterings \cup {job.on}
  /\ Goto("newrecord")
  /\ UNCHANGED <<chain, tagged, records, lists, urlRecords, asked, count>>

SaveFiltering ==
  /\ pc = "newrecord"
  /\ urlRecords' = urlRecords \cup {job.on}
  /\ Return
  /\ UNCHANGED <<chain, tagged, records, lists, filterings, asked, count>>

(* deleteURLFiltering, in DeleteAppConnection.                                *)
GetFiltering ==
  /\ pc = "get"
  /\ \/ job.on \in filterings /\ Goto("unfilter")
     \/ job.on \notin filterings /\ Return     \* not found: an error, as at every retry
  /\ UNCHANGED <<chain, tagged, records, urls, count>>

DeleteFiltering ==
  /\ pc = "unfilter"
  /\ filterings' = filterings \ {job.on}
  /\ Goto("unlist")
  /\ UNCHANGED <<chain, tagged, records, lists, urlRecords, asked, count>>

DeleteList ==
  /\ pc = "unlist"
  /\ lists' = lists \ {job.on}
  /\ Goto("unrecord")
  /\ UNCHANGED <<chain, tagged, records, filterings, urlRecords, asked, count>>

DeleteUrlRecord ==
  /\ pc = "unrecord"
  /\ urlRecords' = urlRecords \ {job.on}
  /\ Return
  /\ UNCHANGED <<chain, tagged, records, lists, filterings, asked, count>>

-----------------------------------------------------------------------------
(* A call returns an error, or the process restarts: the job is over until it *)
(* is asked for again or the queue retries it, which begins at the start.     *)
Stop ==
  /\ pc # "idle" /\ faults < MaxFaults
  /\ Return
  /\ faults' = faults + 1
  /\ UNCHANGED <<chain, tagged, records, urls, starts>>

Work ==
  \/ Tag \/ FindACL \/ WriteACL \/ CreatePolicy \/ BindDevice \/ ListACL \/ SaveResult
  \/ ClearList \/ UnbindDevice \/ DeletePolicy \/ DeleteACL \/ DeleteRecord
  \/ CreateList \/ CreateFiltering \/ SaveFiltering
  \/ GetFiltering \/ DeleteFiltering \/ DeleteList \/ DeleteUrlRecord

Next == (\E j \in Jobs : Begin(j)) \/ Work \/ Stop

Spec == Init /\ [][Next]_vars

-----------------------------------------------------------------------------
(* Type: the worker is at a place of the operation it carries out.            *)
PlacesOf(op) ==
  CASE op = "none" -> {"idle"}
    [] op = "connect" -> {"tag", "find", "create", "policy", "bind", "list", "update", "save"}
    [] op = "disconnect" -> {"tag", "clear", "unbind", "unpolicy", "unacl", "forget"}
    [] op = "create" -> {"newlist", "newfilter", "newrecord"}
    [] op = "delete" -> {"get", "unfilter", "unlist", "unrecord"}

TypeOK ==
  /\ acls \in [Sites -> {None, "accept", "drop"}] /\ policies \subseteq Sites /\ bound \subseteq Sites
  /\ listed \in Sites \cup {None} /\ tagged \subseteq Connections /\ records \subseteq Stored
  /\ lists \subseteq Apps /\ filterings \subseteq Apps /\ urlRecords \subseteq Apps /\ asked \subseteq Apps
  /\ job \in Jobs \cup {Idle} /\ pc \in PlacesOf(job.op) /\ held \in BOOLEAN
  /\ starts \in 0..MaxStarts /\ faults \in 0..MaxFaults

(* Nothing in vManage refers to what is gone, after any failure or restart:   *)
(* a bound policy exists, its ACL exists, the listed ACL exists and a URL     *)
(* filtering's list exists.  Creation makes the referred object first and     *)
(* deletion unmakes it last.                                                  *)
ReferencesExist ==
  /\ bound \subseteq policies
  /\ \A s \in policies \cup {listed} : s \in Sites => acls[s] # None
  /\ filterings \subseteq lists

(* A record disappears only when all of its chain has: whatever failed and    *)
(* was retried on the way, a removed connection leaves no ACL, policy or      *)
(* binding of its site and a removed app leaves no filtering and no list.     *)
RemovedClean ==
  [][/\ \A c \in records \ records' :
          LET s == SiteOf[c] IN acls'[s] = None /\ s \notin policies' \cup bound'
     /\ urlRecords \ urlRecords' \subseteq Apps \ (lists' \cup filterings')]_vars

(* Without a failed call or a restart no chain stays half made: a site that   *)
(* no job is working on has a policy and is bound exactly when it has an ACL, *)
(* even after the panic at the end of a connection's creation, and an app     *)
(* that no job works on has a list, a filtering and a record or none of them. *)
Busy(target) ==
  \/ job.op \in {"create", "delete"} /\ target = job.on
  \/ job.op \in {"connect", "disconnect"} /\ target = Site

NoHalf ==
  faults = 0 =>
    /\ \A s \in Sites : ~Busy(s) => (s \in bound <=> s \in policies) /\ (s \in policies <=> acls[s] # None)
    /\ \A a \in Apps : ~Busy(a) =>
         (a \in lists <=> a \in filterings) /\ (a \in filterings <=> a \in urlRecords)
=============================================================================
