----------------------- MODULE VManagePolicies_proofs -----------------------
(* Proofs about VManagePolicies for all connections, sites and apps and any   *)
(* number of jobs, failed calls and restarts.                                 *)
EXTENDS VManagePolicies, TLAPS

(* Where the worker is says what it has made so far and what it has taken     *)
(* away, whatever failed before.                                              *)
Referred ==
  /\ pc \in {"policy", "bind", "list", "update"} => acls[Site] # None
  /\ pc = "bind" => Site \in policies
  /\ pc \in {"unbind", "unpolicy", "unacl", "forget"} => listed = None
  /\ pc \in {"unpolicy", "unacl", "forget"} => Site \notin bound
  /\ pc \in {"unacl", "forget"} => Site \notin policies
  /\ pc = "forget" => acls[Site] = None
  /\ pc = "newfilter" => job.on \in lists
  /\ pc \in {"unlist", "unrecord"} => job.on \notin filterings
  /\ pc = "unrecord" => job.on \notin lists

(* Nothing is made of an app nobody asked for.                                *)
Asked ==
  /\ lists \cup filterings \cup urlRecords \subseteq asked
  /\ job.op = "create" => job.on \in asked

Whole(s) == (s \in bound <=> s \in policies) /\ (s \in policies <=> acls[s] # None)
OnSite == job.op \in {"connect", "disconnect"}

(* Without a failure a chain is whole except at the worker's site, where it   *)
(* is as far made or unmade as the worker has come.                           *)
SiteProgress ==
  faults = 0 =>
    /\ \A s \in Sites : ~(OnSite /\ s = Site) => Whole(s)
    /\ pc \in {"tag", "find", "update", "save", "clear", "unbind"} => Whole(Site)
    /\ pc = "create" => acls[Site] = None
    /\ pc \in {"create", "policy"} => Site \notin policies
    /\ pc \in {"create", "policy", "bind"} => Site \notin bound
    /\ pc = "list" => Site \in policies \cap bound
    /\ pc = "unpolicy" => (held <=> Site \in policies) /\ (Site \in policies <=> acls[Site] # None)

WholeApp(a) == (a \in lists <=> a \in filterings) /\ (a \in filterings <=> a \in urlRecords)
OnApp == job.op \in {"create", "delete"}

AppProgress ==
  faults = 0 =>
    /\ \A a \in Apps : ~(OnApp /\ a = job.on) => WholeApp(a)
    /\ pc \in {"newlist", "get"} => WholeApp(job.on)
    /\ pc = "newlist" => job.on \notin lists
    /\ pc \in {"newfilter", "newrecord"} => job.on \in lists /\ job.on \notin urlRecords
    /\ pc = "newfilter" => job.on \notin filterings
    /\ pc = "newrecord" => job.on \in filterings
    /\ pc = "unfilter" => job.on \in lists \cap urlRecords
    /\ pc = "unlist" => job.on \in lists \cap urlRecords
    /\ pc = "unrecord" => job.on \in urlRecords

IInv == TypeOK /\ ReferencesExist /\ Referred /\ Asked /\ SiteProgress /\ AppProgress
-----------------------------------------------------------------------------
(* The worker's place tells its operation and what its target is.             *)
LEMMA Placed ==
  ASSUME TypeOK
  PROVE  /\ OnSite => job.on \in Connections /\ Site \in Sites
         /\ OnApp => job.on \in Apps
         /\ pc = "idle" <=> job = Idle
         /\ pc \in {"find", "create", "policy", "bind", "list", "update", "save"} => job.op = "connect"
         /\ pc \in {"clear", "unbind", "unpolicy", "unacl", "forget"} => job.op = "disconnect"
         /\ pc = "tag" => OnSite
         /\ pc \in {"newlist", "newfilter", "newrecord"} => job.op = "create"
         /\ pc \in {"get", "unfilter", "unlist", "unrecord"} => job.op = "delete"
<1>1. pc \in PlacesOf(job.op)
  BY DEF TypeOK
<1>2. CASE job = Idle
  <2>1. job.op = "none" /\ pc = "idle"
    BY <1>1, <1>2 DEF Idle, PlacesOf
  <2> QED BY <1>2, <2>1 DEF OnSite, OnApp
<1>3. CASE job \in [op : {"connect", "disconnect"}, on : Connections]
  <2>1. job.op \in {"connect", "disconnect"} /\ job.on \in Connections /\ job # Idle
    BY <1>3 DEF Idle
  <2>2. Site \in Sites
    BY <2>1, VManageAssumption DEF Site
  <2>3. CASE job.op = "connect"
    BY <1>1, <2>1, <2>2, <2>3 DEF OnSite, OnApp, PlacesOf
  <2>4. CASE job.op = "disconnect"
    BY <1>1, <2>1, <2>2, <2>4 DEF OnSite, OnApp, PlacesOf
  <2> QED BY <2>1, <2>3, <2>4
<1>4. CASE job \in [op : {"create", "delete"}, on : Apps]
  <2>1. job.op \in {"create", "delete"} /\ job.on \in Apps /\ job # Idle
    BY <1>4 DEF Idle
  <2>2. CASE job.op = "create"
    BY <1>1, <2>1, <2>2 DEF OnSite, OnApp, PlacesOf
  <2>3. CASE job.op = "delete"
    BY <1>1, <2>1, <2>3 DEF OnSite, OnApp, PlacesOf
  <2> QED BY <2>1, <2>2, <2>3
<1> QED BY <1>2, <1>3, <1>4 DEF TypeOK, Jobs

(* Nothing has been made at the start.                                        *)
LEMMA InitIInv == Init => IInv
<1> SUFFICES ASSUME Init PROVE IInv
  OBVIOUS
<1>1. TypeOK
  <2>1. job \in Jobs \cup {Idle} /\ job.op = "none" /\ pc = "idle" /\ held \in BOOLEAN
    BY DEF Init, Idle
  <2>2. pc \in PlacesOf(job.op)
    BY <2>1 DEF PlacesOf
  <2>3. starts \in 0..MaxStarts /\ faults \in 0..MaxFaults
    BY VManageAssumption DEF Init
  <2>4. acls \in [Sites -> {None, "accept", "drop"}] /\ policies \subseteq Sites /\ bound \subseteq Sites
    BY DEF Init
  <2>5. listed \in Sites \cup {None} /\ tagged \subseteq Connections /\ records \subseteq Stored
    BY DEF Init
  <2>6. lists \subseteq Apps /\ filterings \subseteq Apps /\ urlRecords \subseteq Apps /\ asked \subseteq Apps
    BY DEF Init
  <2> QED BY <2>1, <2>2, <2>3, <2>4, <2>5, <2>6 DEF TypeOK
<1>2. ReferencesExist /\ Referred /\ Asked
  BY VManageAssumption DEF Init, ReferencesExist, Referred, Asked, Idle
<1>3. SiteProgress /\ AppProgress
  BY DEF Init, SiteProgress, AppProgress, Whole, WholeApp
<1> QED BY <1>1, <1>2, <1>3 DEF IInv

(* From here on: each action preserves the invariant.                         *)

(* Begin preserves the invariant. *)
LEMMA BeginKeeps ==
  ASSUME IInv, NEW j \in Jobs, Begin(j)
  PROVE  IInv'
<1> USE VManageAssumption, Placed DEF IInv, Begin, chain, urls, count, Goto, Return
<1>1. TypeOK'
  <2>1. held' \in BOOLEAN
    BY Zenon
  <2>2. j.op \in {"connect", "disconnect", "create", "delete"} /\ (j.op = "create" => j.on \in Apps)
    BY DEF Jobs
  <2>3. pc' \in PlacesOf(job'.op)
    BY <2>2 DEF PlacesOf
  <2>4. starts' \in 0..MaxStarts /\ faults' \in 0..MaxFaults
    BY DEF TypeOK
  <2>5. asked' \subseteq Apps
    BY <2>2 DEF TypeOK
  <2> QED BY <2>1, <2>3, <2>4, <2>5 DEF TypeOK
<1>2. ReferencesExist' /\ Referred' /\ Asked'
  BY DEF TypeOK, ReferencesExist, Referred, Asked, Idle, Site, OnSite, OnApp, Action
<1>3. SiteProgress'
  <2>1. j.op \in {"connect", "disconnect", "create", "delete"}
        /\ (j.op \in {"connect", "disconnect"} => SiteOf[j.on] \in Sites)
    BY DEF Jobs
  <2>2. ~OnSite
    BY DEF Idle, OnSite
  <2>3. ASSUME faults = 0 PROVE \A s \in Sites : Whole(s)' 
    BY <2>2, <2>3 DEF SiteProgress, Whole
  <2>4. pc' = "tag" => job'.op \in {"connect", "disconnect"} 
    OBVIOUS
  <2>5. pc' \in {"tag", "newlist", "get"} 
    OBVIOUS
  <2> QED BY <2>1, <2>3, <2>4, <2>5 DEF SiteProgress, Site, Whole
<1>4. AppProgress'
  <2>1. j.op \in {"connect", "disconnect", "create", "delete"}
        /\ (j.op \in {"create", "delete"} => j.on \in Apps)
    BY DEF Jobs
  <2>2. ~OnApp
    BY DEF Idle, OnApp
  <2>3. ASSUME faults = 0 PROVE \A a \in Apps : WholeApp(a)'
    BY <2>2, <2>3 DEF AppProgress, WholeApp
  <2>4. /\ pc' \in {"tag", "newlist", "get"}
        /\ pc' = "newlist" => job'.op = "create" /\ job'.on \notin asked
        /\ pc' = "get" => job'.op = "delete"
    OBVIOUS
  <2> QED BY <2>1, <2>3, <2>4 DEF AppProgress, Asked, WholeApp
<1> QED BY <1>1, <1>2, <1>3, <1>4

(* Tag preserves the invariant. *)
LEMMA TagKeeps ==
  ASSUME IInv, Tag
  PROVE  IInv'
<1> USE VManageAssumption, Placed DEF IInv, Tag, chain, urls, count, Goto, Return
<1>1. TypeOK'
  BY DEF TypeOK, PlacesOf, Jobs, Idle, Site, OnSite, OnApp, Action
<1>2. ReferencesExist' /\ Referred' /\ Asked'
  BY DEF TypeOK, ReferencesExist, Referred, Asked, Idle, Site, OnSite, OnApp, Action
<1>3. SiteProgress'
  BY DEF TypeOK, Referred, SiteProgress, Whole, Idle, Jobs, Site, OnSite, OnApp, Action
<1>4. AppProgress'
  BY DEF TypeOK, Referred, Asked, AppProgress, WholeApp, Idle, Jobs, Site, OnSite, OnApp
<1> QED BY <1>1, <1>2, <1>3, <1>4

(* FindACL preserves the invariant. *)
LEMMA FindACLKeeps ==
  ASSUME IInv, FindACL
  PROVE  IInv'
<1> USE VManageAssumption, Placed DEF IInv, FindACL, chain, urls, count, Goto, Return
<1>1. TypeOK'
  BY DEF TypeOK, PlacesOf, Jobs, Idle, Site, OnSite, OnApp, Action
<1>2. ReferencesExist' /\ Referred' /\ Asked'
  BY DEF TypeOK, ReferencesExist, Referred, Asked, Idle, Site, OnSite, OnApp, Action
<1>3. SiteProgress'
  BY DEF TypeOK, Referred, SiteProgress, Whole, Idle, Jobs, Site, OnSite, OnApp, Action
<1>4. AppProgress'
  BY DEF TypeOK, Referred, Asked, AppProgress, WholeApp, Idle, Jobs, Site, OnSite, OnApp
<1> QED BY <1>1, <1>2, <1>3, <1>4

(* WriteACL preserves the invariant. *)
LEMMA WriteACLKeeps ==
  ASSUME IInv, WriteACL
  PROVE  IInv'
<1> USE VManageAssumption, Placed DEF IInv, WriteACL, chain, urls, count, Goto, Return
<1>1. TypeOK'
  BY DEF TypeOK, PlacesOf, Jobs, Idle, Site, OnSite, OnApp, Action
<1>2. ReferencesExist' /\ Referred' /\ Asked'
  BY DEF TypeOK, ReferencesExist, Referred, Asked, Idle, Site, OnSite, OnApp, Action
<1>3. SiteProgress'
  BY DEF TypeOK, Referred, SiteProgress, Whole, Idle, Jobs, Site, OnSite, OnApp, Action
<1>4. AppProgress'
  BY DEF TypeOK, Referred, Asked, AppProgress, WholeApp, Idle, Jobs, Site, OnSite, OnApp
<1> QED BY <1>1, <1>2, <1>3, <1>4

(* CreatePolicy preserves the invariant. *)
LEMMA CreatePolicyKeeps ==
  ASSUME IInv, CreatePolicy
  PROVE  IInv'
<1> USE VManageAssumption, Placed DEF IInv, CreatePolicy, chain, urls, count, Goto, Return
<1>1. TypeOK'
  BY DEF TypeOK, PlacesOf, Jobs, Idle, Site, OnSite, OnApp, Action
<1>2. ReferencesExist' /\ Referred' /\ Asked'
  BY DEF TypeOK, ReferencesExist, Referred, Asked, Idle, Site, OnSite, OnApp, Action
<1>3. SiteProgress'
  BY DEF TypeOK, Referred, SiteProgress, Whole, Idle, Jobs, Site, OnSite, OnApp, Action
<1>4. AppProgress'
  BY DEF TypeOK, Referred, Asked, AppProgress, WholeApp, Idle, Jobs, Site, OnSite, OnApp
<1> QED BY <1>1, <1>2, <1>3, <1>4

(* BindDevice preserves the invariant. *)
LEMMA BindDeviceKeeps ==
  ASSUME IInv, BindDevice
  PROVE  IInv'
<1> USE VManageAssumption, Placed DEF IInv, BindDevice, chain, urls, count, Goto, Return
<1>1. TypeOK'
  BY DEF TypeOK, PlacesOf, Jobs, Idle, Site, OnSite, OnApp, Action
<1>2. ReferencesExist' /\ Referred' /\ Asked'
  BY DEF TypeOK, ReferencesExist, Referred, Asked, Idle, Site, OnSite, OnApp, Action
<1>3. SiteProgress'
  BY DEF TypeOK, Referred, SiteProgress, Whole, Idle, Jobs, Site, OnSite, OnApp, Action
<1>4. AppProgress'
  BY DEF TypeOK, Referred, Asked, AppProgress, WholeApp, Idle, Jobs, Site, OnSite, OnApp
<1> QED BY <1>1, <1>2, <1>3, <1>4

(* ListACL preserves the invariant. *)
LEMMA ListACLKeeps ==
  ASSUME IInv, ListACL
  PROVE  IInv'
<1> USE VManageAssumption, Placed DEF IInv, ListACL, chain, urls, count, Goto, Return
<1>1. TypeOK'
  BY DEF TypeOK, PlacesOf, Jobs, Idle, Site, OnSite, OnApp, Action
<1>2. ReferencesExist' /\ Referred' /\ Asked'
  BY DEF TypeOK, ReferencesExist, Referred, Asked, Idle, Site, OnSite, OnApp, Action
<1>3. SiteProgress'
  BY DEF TypeOK, Referred, SiteProgress, Whole, Idle, Jobs, Site, OnSite, OnApp, Action
<1>4. AppProgress'
  BY DEF TypeOK, Referred, Asked, AppProgress, WholeApp, Idle, Jobs, Site, OnSite, OnApp
<1> QED BY <1>1, <1>2, <1>3, <1>4

(* SaveResult preserves the invariant. *)
LEMMA SaveResultKeeps ==
  ASSUME IInv, SaveResult
  PROVE  IInv'
<1> USE VManageAssumption, Placed DEF IInv, SaveResult, chain, urls, count, Goto, Return
<1>1. TypeOK'
  BY DEF TypeOK, PlacesOf, Jobs, Idle, Site, OnSite, OnApp, Action
<1>2. ReferencesExist' /\ Referred' /\ Asked'
  BY DEF TypeOK, ReferencesExist, Referred, Asked, Idle, Site, OnSite, OnApp, Action
<1>3. SiteProgress'
  BY DEF TypeOK, Referred, SiteProgress, Whole, Idle, Jobs, Site, OnSite, OnApp, Action
<1>4. AppProgress'
  BY DEF TypeOK, Referred, Asked, AppProgress, WholeApp, Idle, Jobs, Site, OnSite, OnApp
<1> QED BY <1>1, <1>2, <1>3, <1>4

(* ClearList preserves the invariant. *)
LEMMA ClearListKeeps ==
  ASSUME IInv, ClearList
  PROVE  IInv'
<1> USE VManageAssumption, Placed DEF IInv, ClearList, chain, urls, count, Goto, Return
<1>1. TypeOK'
  BY DEF TypeOK, PlacesOf, Jobs, Idle, Site, OnSite, OnApp, Action
<1>2. ReferencesExist' /\ Referred' /\ Asked'
  BY DEF TypeOK, ReferencesExist, Referred, Asked, Idle, Site, OnSite, OnApp, Action
<1>3. SiteProgress'
  BY DEF TypeOK, Referred, SiteProgress, Whole, Idle, Jobs, Site, OnSite, OnApp, Action
<1>4. AppProgress'
  BY DEF TypeOK, Referred, Asked, AppProgress, WholeApp, Idle, Jobs, Site, OnSite, OnApp
<1> QED BY <1>1, <1>2, <1>3, <1>4

(* UnbindDevice preserves the invariant. *)
LEMMA UnbindDeviceKeeps ==
  ASSUME IInv, UnbindDevice
  PROVE  IInv'
<1> USE VManageAssumption, Placed DEF IInv, UnbindDevice, chain, urls, count, Goto, Return
<1>1. TypeOK'
  <2>1. held' \in BOOLEAN
    <3>1. (Site \in bound) \in BOOLEAN
      OBVIOUS
    <3>2. held' = (Site \in bound)
      BY Zenon
    <3> QED BY ONLY <3>1, <3>2, Zenon
  <2>2. job.op = "disconnect" /\ pc' \in PlacesOf(job'.op)
    BY DEF PlacesOf
  <2> QED BY <2>1, <2>2 DEF TypeOK
<1>2. ReferencesExist' /\ Referred' /\ Asked'
  BY DEF TypeOK, ReferencesExist, Referred, Asked, Idle, Site, OnSite, OnApp, Action
<1>3. SiteProgress'
  BY DEF TypeOK, Referred, SiteProgress, Whole, Idle, Jobs, Site, OnSite, OnApp, Action
<1>4. AppProgress'
  BY DEF TypeOK, Referred, Asked, AppProgress, WholeApp, Idle, Jobs, Site, OnSite, OnApp
<1> QED BY <1>1, <1>2, <1>3, <1>4

(* DeletePolicy preserves the invariant. *)
LEMMA DeletePolicyKeeps ==
  ASSUME IInv, DeletePolicy
  PROVE  IInv'
<1> USE VManageAssumption, Placed DEF IInv, DeletePolicy, chain, urls, count, Goto, Return
<1>1. TypeOK'
  <2>1. held' \in BOOLEAN
    BY Zenon DEF TypeOK
  <2>2. job' \in Jobs \cup {Idle} /\ pc' \in PlacesOf(job'.op)
    <3>1. CASE Goto("unacl")
      <4>1. job'.op = "disconnect" /\ pc' = "unacl" /\ job' = job
        BY <3>1
      <4> QED BY <4>1 DEF PlacesOf, TypeOK
    <3>2. CASE Return
      <4>1. job' = Idle /\ job'.op = "none" /\ pc' = "idle"
        BY <3>2 DEF Idle
      <4> QED BY <4>1 DEF PlacesOf
    <3> QED BY <3>1, <3>2
  <2>3. policies' \subseteq Sites
    BY DEF TypeOK
  <2> QED BY <2>1, <2>2, <2>3 DEF TypeOK
<1>2. ReferencesExist' /\ Referred' /\ Asked'
  BY DEF TypeOK, ReferencesExist, Referred, Asked, Idle, Site, OnSite, OnApp, Action
<1>3. SiteProgress'
  <2>1. Site \in Sites /\ OnSite
    BY DEF OnSite
  <2>2. CASE held /\ policies' = policies \ {Site} /\ Goto("unacl")
    <3>1. \A s \in Sites : s # Site => (Whole(s)' <=> Whole(s))
      BY <2>2 DEF Whole
    <3> QED BY <2>1, <2>2, <3>1 DEF SiteProgress, OnSite, Site
  <2>3. CASE ~held /\ Return /\ UNCHANGED policies
    <3>1. faults = 0 => Whole(Site)
      BY <2>3 DEF SiteProgress, Referred, Whole
    <3>2. faults = 0 => \A s \in Sites : Whole(s)
      BY <3>1 DEF SiteProgress
    <3>3. \A s : Whole(s)' <=> Whole(s)
      BY <2>3 DEF Whole
    <3> QED BY <2>3, <3>2, <3>3 DEF SiteProgress
  <2> QED BY <2>2, <2>3
<1>4. AppProgress'
  BY DEF TypeOK, Referred, Asked, AppProgress, WholeApp, Idle, Jobs, Site, OnSite, OnApp
<1> QED BY <1>1, <1>2, <1>3, <1>4

(* DeleteACL preserves the invariant. *)
LEMMA DeleteACLKeeps ==
  ASSUME IInv, DeleteACL
  PROVE  IInv'
<1> USE VManageAssumption, Placed DEF IInv, DeleteACL, chain, urls, count, Goto, Return
<1>1. TypeOK'
  BY DEF TypeOK, PlacesOf, Jobs, Idle, Site, OnSite, OnApp, Action
<1>2. ReferencesExist' /\ Referred' /\ Asked'
  BY DEF TypeOK, ReferencesExist, Referred, Asked, Idle, Site, OnSite, OnApp, Action
<1>3. SiteProgress'
  BY DEF TypeOK, Referred, SiteProgress, Whole, Idle, Jobs, Site, OnSite, OnApp, Action
<1>4. AppProgress'
  BY DEF TypeOK, Referred, Asked, AppProgress, WholeApp, Idle, Jobs, Site, OnSite, OnApp
<1> QED BY <1>1, <1>2, <1>3, <1>4

(* DeleteRecord preserves the invariant. *)
LEMMA DeleteRecordKeeps ==
  ASSUME IInv, DeleteRecord
  PROVE  IInv'
<1> USE VManageAssumption, Placed DEF IInv, DeleteRecord, chain, urls, count, Goto, Return
<1>1. TypeOK'
  BY DEF TypeOK, PlacesOf, Jobs, Idle, Site, OnSite, OnApp, Action
<1>2. ReferencesExist' /\ Referred' /\ Asked'
  BY DEF TypeOK, ReferencesExist, Referred, Asked, Idle, Site, OnSite, OnApp, Action
<1>3. SiteProgress'
  BY DEF TypeOK, Referred, SiteProgress, Whole, Idle, Jobs, Site, OnSite, OnApp, Action
<1>4. AppProgress'
  BY DEF TypeOK, Referred, Asked, AppProgress, WholeApp, Idle, Jobs, Site, OnSite, OnApp
<1> QED BY <1>1, <1>2, <1>3, <1>4

(* CreateList preserves the invariant. *)
LEMMA CreateListKeeps ==
  ASSUME IInv, CreateList
  PROVE  IInv'
<1> USE VManageAssumption, Placed DEF IInv, CreateList, chain, urls, count, Goto, Return
<1>1. TypeOK'
  BY DEF TypeOK, PlacesOf, Jobs, Idle, Site, OnSite, OnApp, Action
<1>2. ReferencesExist' /\ Referred' /\ Asked'
  <2>1. ReferencesExist'
    BY DEF ReferencesExist
  <2>2. Referred'
    BY DEF Referred
  <2>3. Asked'
    <3>1. job.op = "create" /\ job.on \in asked
      BY DEF Asked
    <3> QED BY <3>1 DEF Asked
  <2> QED BY <2>1, <2>2, <2>3
<1>3. SiteProgress'
  BY DEF TypeOK, Referred, SiteProgress, Whole, Idle, Jobs, Site, OnSite, OnApp, Action
<1>4. AppProgress'
  BY DEF TypeOK, Referred, Asked, AppProgress, WholeApp, Idle, Jobs, Site, OnSite, OnApp
<1> QED BY <1>1, <1>2, <1>3, <1>4

(* CreateFiltering preserves the invariant. *)
LEMMA CreateFilteringKeeps ==
  ASSUME IInv, CreateFiltering
  PROVE  IInv'
<1> USE VManageAssumption, Placed DEF IInv, CreateFiltering, chain, urls, count, Goto, Return
<1>1. TypeOK'
  BY DEF TypeOK, PlacesOf, Jobs, Idle, Site, OnSite, OnApp, Action
<1>2. ReferencesExist' /\ Referred' /\ Asked'
  BY DEF TypeOK, ReferencesExist, Referred, Asked, Idle, Site, OnSite, OnApp, Action
<1>3. SiteProgress'
  BY DEF TypeOK, Referred, SiteProgress, Whole, Idle, Jobs, Site, OnSite, OnApp, Action
<1>4. AppProgress'
  BY DEF TypeOK, Referred, Asked, AppProgress, WholeApp, Idle, Jobs, Site, OnSite, OnApp
<1> QED BY <1>1, <1>2, <1>3, <1>4

(* SaveFiltering preserves the invariant. *)
LEMMA SaveFilteringKeeps ==
  ASSUME IInv, SaveFiltering
  PROVE  IInv'
<1> USE VManageAssumption, Placed DEF IInv, SaveFiltering, chain, urls, count, Goto, Return
<1>1. TypeOK'
  BY DEF TypeOK, PlacesOf, Jobs, Idle, Site, OnSite, OnApp, Action
<1>2. ReferencesExist' /\ Referred' /\ Asked'
  <2>1. ReferencesExist'
    BY DEF ReferencesExist
  <2>2. Referred'
    BY DEF Referred
  <2>3. Asked'
    <3>1. job.op = "create" /\ job.on \in asked
      BY DEF Asked
    <3> QED BY <3>1 DEF Asked, Idle
  <2> QED BY <2>1, <2>2, <2>3
<1>3. SiteProgress'
  BY DEF TypeOK, Referred, SiteProgress, Whole, Idle, Jobs, Site, OnSite, OnApp, Action
<1>4. AppProgress'
  BY DEF TypeOK, Referred, Asked, AppProgress, WholeApp, Idle, Jobs, Site, OnSite, OnApp
<1> QED BY <1>1, <1>2, <1>3, <1>4

(* GetFiltering preserves the invariant. *)
LEMMA GetFilteringKeeps ==
  ASSUME IInv, GetFiltering
  PROVE  IInv'
<1> USE VManageAssumption, Placed DEF IInv, GetFiltering, chain, urls, count, Goto, Return
<1>1. TypeOK'
  <2>1. held' \in BOOLEAN
    BY Zenon DEF TypeOK
  <2>2. job' \in Jobs \cup {Idle} /\ pc' \in PlacesOf(job'.op)
    <3>1. CASE Goto("unfilter")
      <4>1. job'.op = "delete" /\ pc' = "unfilter" /\ job' = job
        BY <3>1
      <4> QED BY <4>1 DEF PlacesOf, TypeOK
    <3>2. CASE Return
      <4>1. job' = Idle /\ job'.op = "none" /\ pc' = "idle"
        BY <3>2 DEF Idle
      <4> QED BY <4>1 DEF PlacesOf
    <3> QED BY <3>1, <3>2
  <2> QED BY <2>1, <2>2 DEF TypeOK
<1>2. ReferencesExist' /\ Referred' /\ Asked'
  BY DEF TypeOK, ReferencesExist, Referred, Asked, Idle, Site, OnSite, OnApp, Action
<1>3. SiteProgress'
  BY DEF TypeOK, Referred, SiteProgress, Whole, Idle, Jobs, Site, OnSite, OnApp, Action
<1>4. AppProgress'
  BY DEF TypeOK, Referred, Asked, AppProgress, WholeApp, Idle, Jobs, Site, OnSite, OnApp
<1> QED BY <1>1, <1>2, <1>3, <1>4

(* DeleteFiltering preserves the invariant. *)
LEMMA DeleteFilteringKeeps ==
  ASSUME IInv, DeleteFiltering
  PROVE  IInv'
<1> USE VManageAssumption, Placed DEF IInv, DeleteFiltering, chain, urls, count, Goto, Return
<1>1. TypeOK'
  BY DEF TypeOK, PlacesOf, Jobs, Idle, Site, OnSite, OnApp, Action
<1>2. ReferencesExist' /\ Referred' /\ Asked'
  BY DEF TypeOK, ReferencesExist, Referred, Asked, Idle, Site, OnSite, OnApp, Action
<1>3. SiteProgress'
  BY DEF TypeOK, Referred, SiteProgress, Whole, Idle, Jobs, Site, OnSite, OnApp, Action
<1>4. AppProgress'
  BY DEF TypeOK, Referred, Asked, AppProgress, WholeApp, Idle, Jobs, Site, OnSite, OnApp
<1> QED BY <1>1, <1>2, <1>3, <1>4

(* DeleteList preserves the invariant. *)
LEMMA DeleteListKeeps ==
  ASSUME IInv, DeleteList
  PROVE  IInv'
<1> USE VManageAssumption, Placed DEF IInv, DeleteList, chain, urls, count, Goto, Return
<1>1. TypeOK'
  BY DEF TypeOK, PlacesOf, Jobs, Idle, Site, OnSite, OnApp, Action
<1>2. ReferencesExist' /\ Referred' /\ Asked'
  BY DEF TypeOK, ReferencesExist, Referred, Asked, Idle, Site, OnSite, OnApp, Action
<1>3. SiteProgress'
  BY DEF TypeOK, Referred, SiteProgress, Whole, Idle, Jobs, Site, OnSite, OnApp, Action
<1>4. AppProgress'
  BY DEF TypeOK, Referred, Asked, AppProgress, WholeApp, Idle, Jobs, Site, OnSite, OnApp
<1> QED BY <1>1, <1>2, <1>3, <1>4

(* DeleteUrlRecord preserves the invariant. *)
LEMMA DeleteUrlRecordKeeps ==
  ASSUME IInv, DeleteUrlRecord
  PROVE  IInv'
<1> USE VManageAssumption, Placed DEF IInv, DeleteUrlRecord, chain, urls, count, Goto, Return
<1>1. TypeOK'
  BY DEF TypeOK, PlacesOf, Jobs, Idle, Site, OnSite, OnApp, Action
<1>2. ReferencesExist' /\ Referred' /\ Asked'
  BY DEF TypeOK, ReferencesExist, Referred, Asked, Idle, Site, OnSite, OnApp, Action
<1>3. SiteProgress'
  BY DEF TypeOK, Referred, SiteProgress, Whole, Idle, Jobs, Site, OnSite, OnApp, Action
<1>4. AppProgress'
  BY DEF TypeOK, Referred, Asked, AppProgress, WholeApp, Idle, Jobs, Site, OnSite, OnApp
<1> QED BY <1>1, <1>2, <1>3, <1>4

(* Stop preserves the invariant. *)
LEMMA StopKeeps ==
  ASSUME IInv, Stop
  PROVE  IInv'
<1> USE VManageAssumption, Placed DEF IInv, Stop, chain, urls, count, Goto, Return
<1>1. TypeOK'
  <2>1. held' \in BOOLEAN
    BY Zenon
  <2>2. job' \in Jobs \cup {Idle} /\ pc' \in PlacesOf(job'.op)
    BY DEF PlacesOf, Idle
  <2>3. faults' \in 0..MaxFaults
    BY DEF TypeOK
  <2> QED BY <2>1, <2>2, <2>3 DEF TypeOK
<1>2. ReferencesExist' /\ Referred' /\ Asked'
  BY DEF TypeOK, ReferencesExist, Referred, Asked, Idle, Site, OnSite, OnApp, Action
<1>3. SiteProgress'
  <2>1. faults' # 0
    BY DEF TypeOK
  <2> QED BY <2>1 DEF SiteProgress
<1>4. AppProgress'
  <2>1. faults' # 0
    BY DEF TypeOK
  <2> QED BY <2>1 DEF AppProgress
<1> QED BY <1>1, <1>2, <1>3, <1>4

(* Every step preserves the invariant. *)
LEMMA NextKeeps == IInv /\ [Next]_vars => IInv'
<1> SUFFICES ASSUME IInv, [Next]_vars PROVE IInv'
  OBVIOUS
<1>1. CASE \E j \in Jobs : Begin(j)
  BY <1>1, BeginKeeps
<1>2. CASE Work
  BY <1>2, TagKeeps, FindACLKeeps, WriteACLKeeps, CreatePolicyKeeps, BindDeviceKeeps, ListACLKeeps, SaveResultKeeps, ClearListKeeps, UnbindDeviceKeeps, DeletePolicyKeeps, DeleteACLKeeps, DeleteRecordKeeps, CreateListKeeps, CreateFilteringKeeps, SaveFilteringKeeps, GetFilteringKeeps, DeleteFilteringKeeps, DeleteListKeeps, DeleteUrlRecordKeeps
     DEF Work
<1>3. CASE UNCHANGED vars
  BY <1>3 DEF vars, IInv, TypeOK, ReferencesExist, Referred, Asked, SiteProgress, AppProgress,
              Whole, WholeApp, OnSite, OnApp, Site
<1> QED BY <1>1, <1>2, <1>3, StopKeeps DEF Next

(* The inductive invariant holds of every behaviour.                          *)
THEOREM Invariance == Spec => []IInv
BY InitIInv, NextKeeps, PTL DEF Spec
-----------------------------------------------------------------------------
(* The variables keep their types.                                            *)
THEOREM TypeCorrect == Spec => []TypeOK
<1>1. IInv => TypeOK
  BY DEF IInv
<1> QED BY <1>1, Invariance, PTL

(* Nothing in vManage refers to what is gone, whatever fails                  *)
(* (awi_connection_controller.go:1082-1181 and 1589-1689, disconnect.go).     *)
THEOREM NothingDangles == Spec => []ReferencesExist
<1>1. IInv => ReferencesExist
  BY DEF IInv
<1> QED BY <1>1, Invariance, PTL

(* Without a failed call or a restart no chain stays half made.               *)
THEOREM NothingHalfMade == Spec => []NoHalf
<1>1. IInv => NoHalf
  BY DEF IInv, SiteProgress, AppProgress, NoHalf, Busy, OnSite, OnApp, Whole, WholeApp
<1> QED BY <1>1, Invariance, PTL

(* A record goes when its chain is gone                                       *)
(* (disconnect.go:104-213 and 267-292).                                       *)
LEMMA CleanStep ==
  ASSUME IInv, [Next]_vars
  PROVE  /\ \A c \in records \ records' :
              LET s == SiteOf[c] IN acls'[s] = None /\ s \notin policies' \cup bound'
         /\ urlRecords \ urlRecords' \subseteq Apps \ (lists' \cup filterings')
<1>1. CASE DeleteRecord
  BY <1>1 DEF IInv, Referred, Site, DeleteRecord, Return, chain, urls, count
<1>2. CASE DeleteUrlRecord
  BY <1>2, Placed DEF IInv, Referred, OnApp, DeleteUrlRecord, Return, chain, count
<1>3. CASE ~DeleteRecord /\ ~DeleteUrlRecord
  <2>1. records \subseteq records' /\ urlRecords \subseteq urlRecords'
    BY <1>3 DEF Next, Work, vars, chain, urls, count, Begin, Stop, Tag, FindACL, WriteACL, CreatePolicy, BindDevice, ListACL, SaveResult, ClearList, UnbindDevice, DeletePolicy, DeleteACL, CreateList, CreateFiltering, SaveFiltering, GetFiltering, DeleteFiltering, DeleteList
  <2> QED BY <2>1
<1> QED BY <1>1, <1>2, <1>3

(* A removed record leaves nothing of its chain behind. *)
THEOREM RecordsGoLast == Spec => RemovedClean
<1>1. IInv /\ [Next]_vars =>
        [/\ \A c \in records \ records' :
              LET s == SiteOf[c] IN acls'[s] = None /\ s \notin policies' \cup bound'
         /\ urlRecords \ urlRecords' \subseteq Apps \ (lists' \cup filterings')]_vars
  BY CleanStep
<1> QED BY <1>1, Invariance, PTL DEF Spec, RemovedClean
=============================================================================
