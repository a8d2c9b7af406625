--------------------------- MODULE StatusMapping ---------------------------
(***************************************************************************)
(* How the database follows vManage when vManage is the connector.  Every  *)
(* thirty seconds RunMapping asks vManage for the state of all mappings,   *)
(* cloud by cloud, and UpdateConnectionStatus rewrites the connection      *)
(* records accordingly: it lists them in one transaction and writes in     *)
(* another.  Meanwhile the worker and the refresher create and delete      *)
(* connections through the same vManage and the same table.                *)
(*                                                                         *)
(* All network domains are discovered, and no site has an access list.     *)
(* The worker's requests come from anywhere at any time, which covers the  *)
(* channel and its retries (module RequestQueue).  Operators named         *)
(* Mutant... are faulty variants of the operator after them, used by the   *)
(* mutation checks only.                                                   *)
(***************************************************************************)
EXTENDS Naturals, Sequences

CONSTANTS
  Conns,     (* network domain connections: source and destination pairs     *)
  Clouds,    (* supportedClouds, in the order they are polled                *)
  CloudOf,   (* the cloud whose status lists the connection                  *)
  Watched,   (* the connections that match the one watch of this model       *)
  None,
  MaxFaults  (* bound: failing calls and restarts of the process             *)

CloudSet == {Clouds[i] : i \in 1..Len(Clouds)}

ASSUME CloudAssumption == Clouds \in Seq(CloudSet) /\ CloudOf \in [Conns -> CloudSet]
ASSUME WatchedAssumption == Watched \subseteq Conns /\ None \notin Conns
ASSUME FaultsAssumption == MaxFaults \in Nat

Procs == {"worker", "refresher"}
(* Where a goroutine is while it is at work on one connection. *)
AtWork == {"lookup", "enable", "save", "dlookup", "disable", "delete"}
Reports == {"absent", "outstanding", "mapped", "unmapped"}
Statuses == {"Pending", "Running", "Failed", "Watching"}
(* A record has a status and, when the controller wrote it, the config and   *)
(* metadata the user gave.                                                   *)
Records == [status : Statuses \cup {"none"}, config : BOOLEAN]
NoRecord == [status |-> "none", config |-> FALSE]
NoRecords == [c \in Conns |-> NoRecord]
NoReports == [c \in Conns |-> "absent"]

VARIABLES
  (* Stored on disk. *)
  records,   (* the record of each connection, or NoRecord                   *)
  watch,     (* the record of the watch exists                               *)
  (* vManage. *)
  enabled,   (* connections the last request about them asked to enable      *)
  mapping,   (* the list GetStatus would show each connection in             *)
  (* Worker and refresher. *)
  marked,    (* deletedConnection                                            *)
  pc,        (* where each of the two is                                     *)
  conn,      (* the connection it works on, or None                          *)
  todo,      (* connections left in its loop                                 *)
  (* The goroutine of RunMapping. *)
  mapper,    (* "idle", "poll" or "write"                                    *)
  unpolled,  (* clouds whose status the pass has still to ask for            *)
  seen,      (* the statuses collected                                       *)
  listed,    (* the records as the first transaction of the update saw them  *)
  (* Bound: failed calls and restarts so far. *)
  faults,
  (* History. *)
  owned,     (* connections whose record the controller saved and nobody     *)
             (* removed since                                                *)
  clobbered, (* those of them saved between the mapper's two transactions    *)
  reported   (* connections vManage has shown ever since the pass began      *)

stored  == <<records, watch>>
vManage == <<enabled, mapping>>
local   == <<pc, conn, todo>>
pass    == <<mapper, unpolled, seen, listed>>
history == <<owned, clobbered, reported>>
vars == <<stored, vManage, marked, local, pass, faults, history>>

Nothing == [records |-> NoRecords, watch |-> FALSE]
-----------------------------------------------------------------------------
(* vManage may have mappings already that the controller never asked for.    *)
Init ==
  /\ records = NoRecords
  /\ watch = FALSE
  /\ enabled \in SUBSET Conns
  /\ mapping = [c \in Conns |-> IF c \in enabled THEN "mapped" ELSE "absent"]
  /\ marked = {}
  /\ pc = [p \in Procs |-> "idle"]
  /\ conn = [p \in Procs |-> None]
  /\ todo = [p \in Procs |-> {}]
  /\ mapper = "idle"
  /\ unpolled = <<>>
  /\ seen = NoReports
  /\ listed = Nothing
  /\ faults = 0
  /\ owned = {}
  /\ clobbered = {}
  /\ reported = {}

(* A call fails or the process ends; MaxFaults bounds how often. *)
Fault == faults < MaxFaults /\ faults' = faults + 1

(* vManage carries out what it was asked for, some time later. *)
Settle(c) ==
  /\ \/ c \in enabled /\ mapping[c] = "outstanding"
        /\ \E m \in {"mapped", "unmapped"} : mapping' = [mapping EXCEPT ![c] = m]
     \/ c \notin enabled /\ mapping[c] # "absent"
        /\ mapping' = [mapping EXCEPT ![c] = "absent"]
  /\ reported' = IF c \in enabled THEN reported ELSE reported \ {c}
  /\ UNCHANGED <<stored, enabled, marked, local, pass, faults, owned, clobbered>>
-----------------------------------------------------------------------------
(* Worker and refresher: the loops of CreateConnection and of                *)
(* RefreshNetworkDomainConnections.                                          *)

Goto(p, where, c) == pc' = [pc EXCEPT ![p] = where] /\ conn' = [conn EXCEPT ![p] = c]

(* A connect request, for one connection or with a watch; the watch is       *)
(* stored first.                                                             *)
TakeConnect ==
  /\ pc["worker"] = "idle"
  /\ \/ \E c \in Conns : todo' = [todo EXCEPT !["worker"] = {c}] /\ UNCHANGED watch
     \/ watch' = TRUE /\ todo' = [todo EXCEPT !["worker"] = Watched]
  /\ Goto("worker", "loop", None)
  /\ UNCHANGED <<records, vManage, marked, pass, faults, history>>

(* A refresh pass acts on every record of status Watching, and a connection  *)
(* the refresher created has that status as well, with the watch's config.   *)
StartPass ==
  /\ pc["refresher"] = "idle"
  /\ watch \/ \E c \in Conns : records[c].status = "Watching"
  /\ todo' = [todo EXCEPT !["refresher"] = Watched]
  /\ Goto("refresher", "loop", None)
  /\ UNCHANGED <<stored, vManage, marked, pass, faults, history>>

(* createNetworkDomainConnection: the mark, and then the lookup.             *)
BeginItem(p) ==
  /\ pc[p] = "loop"
  /\ \E c \in todo[p] :
       /\ todo' = [todo EXCEPT ![p] = @ \ {c}]
       /\ marked' = IF p = "worker" THEN marked \ {c} ELSE marked
       /\ IF p = "refresher" /\ c \in marked
          THEN UNCHANGED <<pc, conn>>
          ELSE Goto(p, "lookup", c)
  /\ UNCHANGED <<stored, vManage, pass, faults, history>>

LookUp(p) ==
  /\ pc[p] = "lookup"
  /\ IF records[conn[p]] = NoRecord THEN Goto(p, "enable", conn[p]) ELSE Goto(p, "loop", None)
  /\ UNCHANGED <<stored, vManage, marked, todo, pass, faults, history>>

(* What a Create call with the matrices of c changes in vManage at once. *)
EnableInVManage(c) ==
  /\ enabled' = enabled \cup {c}
  /\ mapping' = [mapping EXCEPT ![c] = IF @ = "mapped" THEN @ ELSE "outstanding"]

(* updateConnectionRequest(enable): vManage takes the request.               *)
Enable(p) ==
  /\ pc[p] = "enable"
  /\ EnableInVManage(conn[p])
  /\ Goto(p, "save", conn[p])
  /\ UNCHANGED <<stored, marked, todo, pass, faults, history>>

(* createDBConnectionRequest: the status is still the one of the request the *)
(* connection was found for.                                                 *)
Save(p) ==
  /\ pc[p] = "save"
  /\ records' = [records EXCEPT ![conn[p]] =
                   [status |-> IF p = "worker" THEN "Pending" ELSE "Watching", config |-> TRUE]]
  /\ owned' = owned \cup {conn[p]}
  /\ clobbered' = IF mapper = "write" THEN clobbered \cup {conn[p]} ELSE clobbered
  /\ Goto(p, "loop", None)
  /\ UNCHANGED <<watch, vManage, marked, todo, pass, faults, reported>>

EndLoop(p) ==
  /\ pc[p] = "loop"
  /\ todo[p] = {}
  /\ Goto(p, "idle", None)
  /\ UNCHANGED <<stored, vManage, marked, todo, pass, faults, history>>

(* DeleteConnection marks the id first. *)
TakeDisconnect ==
  /\ pc["worker"] = "idle"
  /\ \E c \in Conns : marked' = marked \cup {c} /\ Goto("worker", "dlookup", c)
  /\ UNCHANGED <<stored, vManage, todo, pass, faults, history>>

(* disconnectConnections on the id of the watch. *)
DropWatch ==
  /\ pc["worker"] = "idle"
  /\ watch' = FALSE
  /\ UNCHANGED <<records, vManage, marked, local, pass, faults, history>>

RemoveRecord(c) ==
  /\ records' = [records EXCEPT ![c] = NoRecord]
  /\ owned' = owned \ {c}
  /\ clobbered' = clobbered \ {c}

(* disconnectConnections: a record of status Watching is taken for a watch.  *)
DeleteLookUp ==
  /\ pc["worker"] = "dlookup"
  /\ LET c == conn["worker"]
     IN CASE records[c] = NoRecord ->
               Goto("worker", "loop", None) /\ UNCHANGED <<records, owned, clobbered>>
          [] records[c].status = "Watching" ->
               Goto("worker", "loop", None) /\ RemoveRecord(c)
          [] OTHER ->
               Goto("worker", "disable", c) /\ UNCHANGED <<records, owned, clobbered>>
  /\ UNCHANGED <<watch, vManage, marked, todo, pass, faults, reported>>

(* disconnectSource: updateConnectionRequest(disable), then the record.      *)
Disable ==
  /\ pc["worker"] = "disable"
  /\ enabled' = enabled \ {conn["worker"]}
  /\ Goto("worker", "delete", conn["worker"])
  /\ UNCHANGED <<stored, mapping, marked, todo, pass, faults, history>>

DeleteRecord ==
  /\ pc["worker"] = "delete"
  /\ RemoveRecord(conn["worker"])
  /\ Goto("worker", "loop", None)
  /\ UNCHANGED <<watch, vManage, marked, todo, pass, faults, reported>>

(* A call fails, with or without its effect: the loop goes on. *)
CallFails(p) ==
  /\ pc[p] \in AtWork
  /\ Fault
  /\ \/ UNCHANGED vManage
     \/ pc[p] = "enable" /\ EnableInVManage(conn[p])
     \/ pc[p] = "disable" /\ enabled' = enabled \ {conn[p]} /\ UNCHANGED mapping
  /\ Goto(p, "loop", None)
  /\ UNCHANGED <<stored, marked, todo, pass, history>>
-----------------------------------------------------------------------------
(* RunMapping. *)

StartMapping ==
  /\ mapper = "idle"
  /\ mapper' = "poll"
  /\ unpolled' = Clouds
  /\ reported' = {c \in Conns : mapping[c] # "absent"}
  /\ UNCHANGED <<stored, vManage, marked, local, seen, listed, faults, owned, clobbered>>

EndMapping ==
  /\ mapper' = "idle"
  /\ unpolled' = <<>>
  /\ seen' = NoReports
  /\ listed' = Nothing
  /\ reported' = {}

(* GetStatus of the next cloud. *)
Poll ==
  /\ mapper = "poll"
  /\ unpolled # <<>>
  /\ seen' = [c \in Conns |-> IF CloudOf[c] = Head(unpolled) THEN mapping[c] ELSE seen[c]]
  /\ unpolled' = Tail(unpolled)
  /\ UNCHANGED <<stored, vManage, marked, local, mapper, listed, faults, history>>

(* Mutant: a cloud that cannot be asked is skipped. *)
MutantPollFails ==
  /\ mapper = "poll"
  /\ unpolled # <<>>
  /\ Fault
  /\ unpolled' = Tail(unpolled)
  /\ UNCHANGED <<stored, vManage, marked, local, mapper, seen, listed, history>>

(* One cloud that cannot be asked ends the pass. *)
PollFails ==
  /\ mapper = "poll"
  /\ unpolled # <<>>
  /\ Fault
  /\ EndMapping
  /\ UNCHANGED <<stored, vManage, marked, local, owned, clobbered>>

(* UpdateConnectionStatus, first transaction. *)
List ==
  /\ mapper = "poll"
  /\ unpolled = <<>>
  /\ mapper' = "write"
  /\ listed' = [records |-> records, watch |-> watch]
  /\ UNCHANGED <<stored, vManage, marked, local, unpolled, seen, faults, history>>

(* Mutant: the list a mapping is in is stored instead of a status. *)
MutantStatusOf(report) == report
(* transformConnectionMapping. *)
StatusOf(report) == CASE report = "mapped"      -> "Running"
                      [] report = "unmapped"    -> "Failed"
                      [] report = "outstanding" -> "Pending"

(* Mutant: the record made from the mapping replaces the listed one. *)
MutantMerge(c) ==
  IF seen[c] # "absent" THEN [status |-> StatusOf(seen[c]), config |-> FALSE]
  ELSE IF listed.records[c] # NoRecord THEN NoRecord
  ELSE records[c]

(* Mutant: records vManage no longer reports are left alone. *)
MutantMergeKeeps(c) ==
  IF seen[c] = "absent" THEN records[c]
  ELSE [status |-> StatusOf(seen[c]), config |-> listed.records[c].config]

(* What the second transaction leaves of c's record: of a listed record only *)
(* the status changes, one that vManage does not report is deleted, and a    *)
(* mapping without a listed record gets one without config.  A record that   *)
(* was neither listed nor reported is left as it is.                         *)
Merge(c) ==
  IF seen[c] # "absent"
  THEN [status |-> StatusOf(seen[c]), config |-> listed.records[c].config]
  ELSE IF listed.records[c] # NoRecord THEN NoRecord ELSE records[c]

(* UpdateConnectionStatus, second transaction.  The id of a watch is never   *)
(* among those vManage reports.                                              *)
Write ==
  /\ mapper = "write"
  /\ records' = [c \in Conns |-> Merge(c)]
  /\ watch' = (watch /\ ~listed.watch)
  /\ owned' = {c \in owned : records'[c] # NoRecord}
  /\ clobbered' = {c \in clobbered : records'[c] # NoRecord}
  /\ EndMapping
  /\ UNCHANGED <<vManage, marked, local, faults>>

WriteFails ==
  /\ mapper = "write"
  /\ Fault
  /\ EndMapping
  /\ UNCHANGED <<stored, vManage, marked, local, owned, clobbered>>
-----------------------------------------------------------------------------
(* The process ends and starts again: what is not on disk is gone. *)
Restart ==
  /\ Fault
  /\ marked' = {}
  /\ pc' = [p \in Procs |-> "idle"]
  /\ conn' = [p \in Procs |-> None]
  /\ todo' = [p \in Procs |-> {}]
  /\ EndMapping
  /\ UNCHANGED <<stored, vManage, owned, clobbered>>

Create(p) == BeginItem(p) \/ LookUp(p) \/ Enable(p) \/ Save(p) \/ EndLoop(p) \/ CallFails(p)

Delete == TakeDisconnect \/ DropWatch \/ DeleteLookUp \/ Disable \/ DeleteRecord

Mapper == StartMapping \/ Poll \/ PollFails \/ List \/ Write \/ WriteFails

Next == \/ \E c \in Conns : Settle(c)
        \/ \E p \in Procs : Create(p)
        \/ TakeConnect
        \/ StartPass
        \/ Delete
        \/ Mapper
        \/ Restart

Spec == Init /\ [][Next]_vars

(* The ticker fires every 30 seconds and every status call has a deadline;   *)
(* worker and refresher finish what they have begun.                         *)
FairSpec == Spec /\ WF_vars(Mapper) /\ \A p \in Procs : WF_vars(Create(p))
-----------------------------------------------------------------------------
(* Types of the variables. *)
TypeOK ==
  /\ records \in [Conns -> Records]
  /\ watch \in BOOLEAN
  /\ enabled \subseteq Conns
  /\ mapping \in [Conns -> Reports]
  /\ marked \subseteq Conns
  /\ pc \in [Procs -> {"idle", "loop"} \cup AtWork]
  /\ conn \in [Procs -> Conns \cup {None}]
  /\ todo \in [Procs -> SUBSET Conns]
  /\ mapper \in {"idle", "poll", "write"}
  /\ unpolled \in Seq(CloudSet)
  /\ seen \in [Conns -> Reports]
  /\ listed \in [records : [Conns -> Records], watch : BOOLEAN]
  /\ faults \in 0..MaxFaults
  /\ owned \subseteq Conns
  /\ clobbered \subseteq owned
  /\ reported \subseteq Conns

(* The config a user gave stays with the record as long as there is one,     *)
(* however often the mapping rewrites it, with one exception: a record saved *)
(* between the two transactions of an update (db.go:167-220).                *)
ConfigKept == \A c \in owned \ clobbered : records[c].config

(* A connection vManage reports all through a mapping pass has a record when *)
(* the pass has written: failing status calls, records saved or deleted      *)
(* meanwhile and restarts make no exception                                  *)
(* (awi_connection_controller.go:1726-1754).                                 *)
ReportedIsRecorded ==
  [][mapper = "write" /\ mapper' = "idle" /\ faults' = faults
       => \A c \in reported : records'[c] # NoRecord]_vars

(* Whatever raced with the mapping, the record of a connection whose state   *)
(* in vManage no longer changes comes to show that state (manager.go:101-112 *)
(* and db.go:167-220).                                                       *)
Shows(c, report) ==
  IF report = "absent" THEN records[c] = NoRecord ELSE records[c].status = StatusOf(report)
StatusConverges ==
  \A c \in Conns : \A report \in Reports :
     <>[](mapping[c] = report) => []<>Shows(c, report)

(* Only a disconnect of it removes a watch: the code announces that it is    *)
(* "Creating Watcher for network domain connection" and answers WATCHING     *)
(* (awi_connection_controller.go:401, server.go:798).                        *)
WatchStays == [][watch /\ ~watch' => mapper' = mapper]_vars

(* A deletion that removes a connection's record has disabled the connection *)
(* in vManage, as TestDisconnectConnection expects (disconnect_test.go:76).  *)
DeletedIsDisabled ==
  [][\A c \in Conns : records[c] # NoRecord /\ records'[c] = NoRecord /\ mapper' = mapper
       => c \notin enabled]_vars

(* An update that completes leaves every connection as the pass saw it in    *)
(* vManage, in spite of the time between its two transactions: what was      *)
(* saved or deleted in between is overwritten, with one exception, a record  *)
(* saved then of a connection that vManage did not report (db.go:167-220).   *)
ShowsNext(c, report) ==
  IF report = "absent" THEN records'[c] = NoRecord ELSE records'[c].status = StatusOf(report)
UpdateShows ==
  [][mapper = "write" /\ mapper' = "idle" /\ faults' = faults
       => \A c \in Conns : ShowsNext(c, seen[c]) \/ (c \in clobbered /\ seen[c] = "absent")]_vars
=============================================================================
