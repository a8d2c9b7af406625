-------------------------- MODULE AppRefresh_proofs --------------------------
(***************************************************************************)
(* Proofs about AppRefresh, for any app connections and addresses and any  *)
(* number of requests, changes, failures and restarts.                     *)
(***************************************************************************)
EXTENDS AppRefresh, TLAPS

(* Where each goroutine can be, and what it works on there.                  *)
Places ==
  /\ pc["worker"] \in {"idle", "create", "record", "remove", "forget", "erase"}
  /\ pc["refresher"] \in {"idle", "next", "apply", "save", "again"}
  /\ \A p \in Procs : at[p] = None => pc[p] \in {"idle", "next"} /\ new[p] = {}
  /\ \A p \in Procs : pc[p] \in {"idle", "next"} => at[p] = None
  /\ \A p \in Procs : pc[p] \in {"create", "record", "remove", "apply", "save", "again"} => at[p] \in Ruled
  /\ \A p \in Procs : pc[p] \in {"save", "erase"} => at[p] \in Grouped

Typed == TypeOK /\ Places
-----------------------------------------------------------------------------
(* What has rules is a group or the shared service.                          *)
LEMMA Sorted ==
  /\ Ruled = Grouped \cup Services /\ Grouped \cap Services = {}
  /\ Ruled \subseteq Apps /\ None \notin Apps
BY AppAssumption DEF Ruled, Grouped, Services

(* Nothing is stored and nobody works at the start.                          *)
LEMMA InitTyped == Init => Typed
<1> SUFFICES ASSUME Init PROVE Typed
  OBVIOUS
<1> USE AppAssumption, BoundAssumption DEF Init
<1>1. matching \in [Apps -> SUBSET Addrs]
  BY DEF Ruled
<1>2. TypeOK
  BY <1>1 DEF TypeOK, Nothing, Procs
<1>3. Places
  BY DEF Places, Procs
<1> QED BY <1>2, <1>3 DEF Typed

(* Every step keeps the types.                                               *)
LEMMA TypedStep ==
  ASSUME Typed, [Next]_vars
  PROVE  Typed'
<1> USE DEF disk, dest, local, pass, bounds, history, Goto
<1>1. ASSUME NEW r \in Apps, Change(r) PROVE Typed'
  <2> USE <1>1 DEF Change
  <2>1. TypeOK'
    <3>1. pc' \in [Procs -> {"idle", "create", "record", "remove", "forget", "erase", "next", "apply", "save",
                       "again"}]
      BY DEF Typed, TypeOK
    <3>2. at' \in [Procs -> Apps \cup {None}] /\ new' \in [Procs -> SUBSET Addrs]
      BY DEF Typed, TypeOK, Places, Procs, Ruled, Grouped, Services, Kinds, Nothing
    <3>3. cidrs' \in [Apps -> SUBSET Addrs] /\ (\A s \in Apps : cidrs'[s] # {} => s \in stored' \cap Ruled)
      BY AppAssumption DEF Typed, TypeOK, Places, Procs, Ruled, Grouped, Services, Kinds, Nothing
    <3>4. exists' \subseteq Grouped /\ ranges' \subseteq Addrs
      BY Sorted DEF Typed, TypeOK, Places, Procs
    <3>5. rules' \in [Apps -> SUBSET Addrs] /\ (\A s \in Apps : rules'[s] # {} => s \in exists')
      BY AppAssumption DEF Typed, TypeOK, Places, Procs, Ruled, Grouped, Services, Kinds, Nothing
    <3>6. /\ matching' \in [Apps -> SUBSET Addrs] /\ stored' \subseteq Apps
           /\ listed' \subseteq Apps /\ old' \in [Apps -> SUBSET Addrs] /\ begun' \subseteq Apps
      BY AppAssumption DEF Typed, TypeOK, Places, Procs, Ruled, Grouped, Services, Kinds, Nothing
    <3>7. requests' \in 0..MaxRequests /\ changes' \in 0..MaxChanges /\ faults' \in 0..MaxFaults
      BY BoundAssumption DEF Typed, TypeOK
    <3>8. raced' \subseteq Apps /\ broken' \subseteq Apps /\ contested' \subseteq Addrs
      BY AppAssumption DEF Typed, TypeOK, Places, Procs, Ruled, Grouped, Services, Kinds, Nothing
    <3> QED BY <3>1, <3>2, <3>3, <3>4, <3>5, <3>6, <3>7, <3>8 DEF TypeOK
  <2>2. Places'
    BY AppAssumption DEF Typed, TypeOK, Places, Procs, Ruled, Grouped, Services, Kinds, Nothing
  <2> QED BY <2>1, <2>2 DEF Typed
<1>2. ASSUME NEW r \in Apps, StartCreation(r) PROVE Typed'
  <2> USE <1>2 DEF StartCreation, Take, Contest, Others
  <2>1. TypeOK'
    <3>1. pc' \in [Procs -> {"idle", "create", "record", "remove", "forget", "erase", "next", "apply", "save",
                       "again"}]
      BY DEF Typed, TypeOK
    <3>2. at' \in [Procs -> Apps \cup {None}] /\ new' \in [Procs -> SUBSET Addrs]
      BY DEF Typed, TypeOK, Places, Procs, Ruled, Grouped, Services, Kinds, Nothing
    <3>3. cidrs' \in [Apps -> SUBSET Addrs] /\ (\A s \in Apps : cidrs'[s] # {} => s \in stored' \cap Ruled)
      BY AppAssumption DEF Typed, TypeOK, Places, Procs, Ruled, Grouped, Services, Kinds, Nothing
    <3>4. exists' \subseteq Grouped /\ ranges' \subseteq Addrs
      BY Sorted DEF Typed, TypeOK, Places, Procs
    <3>5. rules' \in [Apps -> SUBSET Addrs] /\ (\A s \in Apps : rules'[s] # {} => s \in exists')
      BY AppAssumption DEF Typed, TypeOK, Places, Procs, Ruled, Grouped, Services, Kinds, Nothing
    <3>6. /\ matching' \in [Apps -> SUBSET Addrs] /\ stored' \subseteq Apps
           /\ listed' \subseteq Apps /\ old' \in [Apps -> SUBSET Addrs] /\ begun' \subseteq Apps
      BY AppAssumption DEF Typed, TypeOK, Places, Procs, Ruled, Grouped, Services, Kinds, Nothing
    <3>7. requests' \in 0..MaxRequests /\ changes' \in 0..MaxChanges /\ faults' \in 0..MaxFaults
      BY BoundAssumption DEF Typed, TypeOK
    <3>8. raced' \subseteq Apps /\ broken' \subseteq Apps /\ contested' \subseteq Addrs
      BY AppAssumption DEF Typed, TypeOK, Places, Procs, Ruled, Grouped, Services, Kinds, Nothing
    <3> QED BY <3>1, <3>2, <3>3, <3>4, <3>5, <3>6, <3>7, <3>8 DEF TypeOK
  <2>2. Places'
    BY AppAssumption DEF Typed, TypeOK, Places, Procs, Ruled, Grouped, Services, Kinds, Nothing
  <2> QED BY <2>1, <2>2 DEF Typed
<1>3. ASSUME NEW r \in Apps, StoreMarker(r) PROVE Typed'
  <2> USE <1>3 DEF StoreMarker, Take
  <2>1. TypeOK'
    BY AppAssumption, BoundAssumption DEF Typed, TypeOK, Places, Procs, Ruled, Grouped, Services,
       Kinds, Nothing
  <2>2. Places'
    BY AppAssumption DEF Typed, TypeOK, Places, Procs, Ruled, Grouped, Services, Kinds, Nothing
  <2> QED BY <2>1, <2>2 DEF Typed
<1>4. ASSUME NEW r \in Apps, StartDeletion(r) PROVE Typed'
  <2> USE <1>4 DEF StartDeletion, Take, InPass
  <2>1. TypeOK'
    <3>1. pc' \in [Procs -> {"idle", "create", "record", "remove", "forget", "erase", "next", "apply", "save",
                       "again"}]
      BY DEF Typed, TypeOK
    <3>2. at' \in [Procs -> Apps \cup {None}] /\ new' \in [Procs -> SUBSET Addrs]
      BY DEF Typed, TypeOK, Places, Procs, Ruled, Grouped, Services, Kinds, Nothing
    <3>3. cidrs' \in [Apps -> SUBSET Addrs] /\ (\A s \in Apps : cidrs'[s] # {} => s \in stored' \cap Ruled)
      BY AppAssumption DEF Typed, TypeOK, Places, Procs, Ruled, Grouped, Services, Kinds, Nothing
    <3>4. exists' \subseteq Grouped /\ ranges' \subseteq Addrs
      BY Sorted DEF Typed, TypeOK, Places, Procs
    <3>5. rules' \in [Apps -> SUBSET Addrs] /\ (\A s \in Apps : rules'[s] # {} => s \in exists')
      BY AppAssumption DEF Typed, TypeOK, Places, Procs, Ruled, Grouped, Services, Kinds, Nothing
    <3>6. /\ matching' \in [Apps -> SUBSET Addrs] /\ stored' \subseteq Apps
           /\ listed' \subseteq Apps /\ old' \in [Apps -> SUBSET Addrs] /\ begun' \subseteq Apps
      BY AppAssumption DEF Typed, TypeOK, Places, Procs, Ruled, Grouped, Services, Kinds, Nothing
    <3>7. requests' \in 0..MaxRequests /\ changes' \in 0..MaxChanges /\ faults' \in 0..MaxFaults
      BY BoundAssumption DEF Typed, TypeOK
    <3>8. raced' \subseteq Apps /\ broken' \subseteq Apps /\ contested' \subseteq Addrs
      BY AppAssumption DEF Typed, TypeOK, Places, Procs, Ruled, Grouped, Services, Kinds, Nothing
    <3> QED BY <3>1, <3>2, <3>3, <3>4, <3>5, <3>6, <3>7, <3>8 DEF TypeOK
  <2>2. Places'
    BY AppAssumption DEF Typed, TypeOK, Places, Procs, Ruled, Grouped, Services, Kinds, Nothing
  <2> QED BY <2>1, <2>2 DEF Typed
<1>5. ASSUME AddSources PROVE Typed'
  <2> USE <1>5 DEF AddSources, Open
  <2>1. TypeOK'
    <3>1. pc' \in [Procs -> {"idle", "create", "record", "remove", "forget", "erase", "next", "apply", "save",
                       "again"}]
      BY DEF Typed, TypeOK
    <3>2. at' \in [Procs -> Apps \cup {None}] /\ new' \in [Procs -> SUBSET Addrs]
      BY DEF Typed, TypeOK, Places, Procs, Ruled, Grouped, Services, Kinds, Nothing
    <3>3. cidrs' \in [Apps -> SUBSET Addrs] /\ (\A s \in Apps : cidrs'[s] # {} => s \in stored' \cap Ruled)
      BY AppAssumption DEF Typed, TypeOK, Places, Procs, Ruled, Grouped, Services, Kinds, Nothing
    <3>4. exists' \subseteq Grouped /\ ranges' \subseteq Addrs
      BY Sorted DEF Typed, TypeOK, Places, Procs
    <3>5. rules' \in [Apps -> SUBSET Addrs] /\ (\A s \in Apps : rules'[s] # {} => s \in exists')
      BY AppAssumption DEF Typed, TypeOK, Places, Procs, Ruled, Grouped, Services, Kinds, Nothing
    <3>6. /\ matching' \in [Apps -> SUBSET Addrs] /\ stored' \subseteq Apps
           /\ listed' \subseteq Apps /\ old' \in [Apps -> SUBSET Addrs] /\ begun' \subseteq Apps
      BY AppAssumption DEF Typed, TypeOK, Places, Procs, Ruled, Grouped, Services, Kinds, Nothing
    <3>7. requests' \in 0..MaxRequests /\ changes' \in 0..MaxChanges /\ faults' \in 0..MaxFaults
      BY BoundAssumption DEF Typed, TypeOK
    <3>8. raced' \subseteq Apps /\ broken' \subseteq Apps /\ contested' \subseteq Addrs
      BY AppAssumption DEF Typed, TypeOK, Places, Procs, Ruled, Grouped, Services, Kinds, Nothing
    <3> QED BY <3>1, <3>2, <3>3, <3>4, <3>5, <3>6, <3>7, <3>8 DEF TypeOK
  <2>2. Places'
    BY AppAssumption DEF Typed, TypeOK, Places, Procs, Ruled, Grouped, Services, Kinds, Nothing
  <2> QED BY <2>1, <2>2 DEF Typed
<1>6. ASSUME SaveCreated PROVE Typed'
  <2> USE <1>6 DEF SaveCreated
  <2>1. TypeOK'
    BY AppAssumption, BoundAssumption DEF Typed, TypeOK, Places, Procs, Ruled, Grouped, Services,
       Kinds, Nothing
  <2>2. Places'
    BY AppAssumption DEF Typed, TypeOK, Places, Procs, Ruled, Grouped, Services, Kinds, Nothing
  <2> QED BY <2>1, <2>2 DEF Typed
<1>7. ASSUME RemoveSources PROVE Typed'
  <2> USE <1>7 DEF RemoveSources, Shut
  <2>1. TypeOK'
    BY ZenonT(40), AppAssumption, BoundAssumption DEF Typed, TypeOK, Places, Procs, Ruled, Grouped, Services,
       Kinds, Nothing
  <2>2. Places'
    BY AppAssumption DEF Typed, TypeOK, Places, Procs, Ruled, Grouped, Services, Kinds, Nothing
  <2> QED BY <2>1, <2>2 DEF Typed
<1>8. ASSUME DeleteRecord PROVE Typed'
  <2> USE <1>8 DEF DeleteRecord
  <2>1. TypeOK'
    <3>1. pc' \in [Procs -> {"idle", "create", "record", "remove", "forget", "erase", "next", "apply", "save",
                       "again"}]
      BY DEF Typed, TypeOK
    <3>2. at' \in [Procs -> Apps \cup {None}] /\ new' \in [Procs -> SUBSET Addrs]
      BY DEF Typed, TypeOK, Places, Procs, Ruled, Grouped, Services, Kinds, Nothing
    <3>3. cidrs' \in [Apps -> SUBSET Addrs] /\ (\A s \in Apps : cidrs'[s] # {} => s \in stored' \cap Ruled)
      BY AppAssumption DEF Typed, TypeOK, Places, Procs, Ruled, Grouped, Services, Kinds, Nothing
    <3>4. exists' \subseteq Grouped /\ ranges' \subseteq Addrs
      BY Sorted DEF Typed, TypeOK, Places, Procs
    <3>5. rules' \in [Apps -> SUBSET Addrs] /\ (\A s \in Apps : rules'[s] # {} => s \in exists')
      BY AppAssumption DEF Typed, TypeOK, Places, Procs, Ruled, Grouped, Services, Kinds, Nothing
    <3>6. /\ matching' \in [Apps -> SUBSET Addrs] /\ stored' \subseteq Apps
           /\ listed' \subseteq Apps /\ old' \in [Apps -> SUBSET Addrs] /\ begun' \subseteq Apps
      BY AppAssumption DEF Typed, TypeOK, Places, Procs, Ruled, Grouped, Services, Kinds, Nothing
    <3>7. requests' \in 0..MaxRequests /\ changes' \in 0..MaxChanges /\ faults' \in 0..MaxFaults
      BY BoundAssumption DEF Typed, TypeOK
    <3>8. raced' \subseteq Apps /\ broken' \subseteq Apps /\ contested' \subseteq Addrs
      BY AppAssumption DEF Typed, TypeOK, Places, Procs, Ruled, Grouped, Services, Kinds, Nothing
    <3> QED BY <3>1, <3>2, <3>3, <3>4, <3>5, <3>6, <3>7, <3>8 DEF TypeOK
  <2>2. Places'
    BY AppAssumption DEF Typed, TypeOK, Places, Procs, Ruled, Grouped, Services, Kinds, Nothing
  <2> QED BY <2>1, <2>2 DEF Typed
<1>9. ASSUME NEW p \in Procs, CallFails(p) PROVE Typed'
  <2> USE <1>9 DEF CallFails, Fault, HalfDone, Open, Shut, Apply, Updated, EndPass
  <2>1. TypeOK'
    <3>1. pc' \in [Procs -> {"idle", "create", "record", "remove", "forget", "erase", "next", "apply", "save",
                       "again"}]
      BY DEF Typed, TypeOK
    <3>2. at' \in [Procs -> Apps \cup {None}] /\ new' \in [Procs -> SUBSET Addrs]
      BY DEF Typed, TypeOK, Places, Procs, Ruled, Grouped, Services, Kinds, Nothing
    <3>3. cidrs' \in [Apps -> SUBSET Addrs] /\ (\A s \in Apps : cidrs'[s] # {} => s \in stored' \cap Ruled)
      BY AppAssumption DEF Typed, TypeOK, Places, Procs, Ruled, Grouped, Services, Kinds, Nothing
    <3>4. exists' \subseteq Grouped /\ ranges' \subseteq Addrs
      BY Sorted DEF Typed, TypeOK, Places, Procs
    <3>5. rules' \in [Apps -> SUBSET Addrs] /\ (\A s \in Apps : rules'[s] # {} => s \in exists')
      BY AppAssumption DEF Typed, TypeOK, Places, Procs, Ruled, Grouped, Services, Kinds, Nothing
    <3>6. /\ matching' \in [Apps -> SUBSET Addrs] /\ stored' \subseteq Apps
           /\ listed' \subseteq Apps /\ old' \in [Apps -> SUBSET Addrs] /\ begun' \subseteq Apps
      BY AppAssumption DEF Typed, TypeOK, Places, Procs, Ruled, Grouped, Services, Kinds, Nothing
    <3>7. requests' \in 0..MaxRequests /\ changes' \in 0..MaxChanges /\ faults' \in 0..MaxFaults
      BY BoundAssumption DEF Typed, TypeOK
    <3>8. raced' \subseteq Apps /\ broken' \subseteq Apps /\ contested' \subseteq Addrs
      BY ZenonT(40), AppAssumption DEF Typed, TypeOK, Places, Procs, Ruled, Grouped, Services, Kinds, Nothing
    <3> QED BY <3>1, <3>2, <3>3, <3>4, <3>5, <3>6, <3>7, <3>8 DEF TypeOK
  <2>2. Places'
    BY AppAssumption DEF Typed, TypeOK, Places, Procs, Ruled, Grouped, Services, Kinds, Nothing
  <2> QED BY <2>1, <2>2 DEF Typed
<1>10. ASSUME StartPass PROVE Typed'
  <2> USE <1>10 DEF StartPass
  <2>1. TypeOK'
    <3>1. pc' \in [Procs -> {"idle", "create", "record", "remove", "forget", "erase", "next", "apply", "save",
                       "again"}]
      BY DEF Typed, TypeOK
    <3>2. at' \in [Procs -> Apps \cup {None}] /\ new' \in [Procs -> SUBSET Addrs]
      BY DEF Typed, TypeOK, Places, Procs, Ruled, Grouped, Services, Kinds, Nothing
    <3>3. cidrs' \in [Apps -> SUBSET Addrs] /\ (\A s \in Apps : cidrs'[s] # {} => s \in stored' \cap Ruled)
      BY AppAssumption DEF Typed, TypeOK, Places, Procs, Ruled, Grouped, Services, Kinds, Nothing
    <3>4. exists' \subseteq Grouped /\ ranges' \subseteq Addrs
      BY Sorted DEF Typed, TypeOK, Places, Procs
    <3>5. rules' \in [Apps -> SUBSET Addrs] /\ (\A s \in Apps : rules'[s] # {} => s \in exists')
      BY AppAssumption DEF Typed, TypeOK, Places, Procs, Ruled, Grouped, Services, Kinds, Nothing
    <3>6. /\ matching' \in [Apps -> SUBSET Addrs] /\ stored' \subseteq Apps
           /\ listed' \subseteq Apps /\ old' \in [Apps -> SUBSET Addrs] /\ begun' \subseteq Apps
      BY AppAssumption DEF Typed, TypeOK, Places, Procs, Ruled, Grouped, Services, Kinds, Nothing
    <3>7. requests' \in 0..MaxRequests /\ changes' \in 0..MaxChanges /\ faults' \in 0..MaxFaults
      BY BoundAssumption DEF Typed, TypeOK
    <3>8. raced' \subseteq Apps /\ broken' \subseteq Apps /\ contested' \subseteq Addrs
      BY AppAssumption DEF Typed, TypeOK, Places, Procs, Ruled, Grouped, Services, Kinds, Nothing
    <3> QED BY <3>1, <3>2, <3>3, <3>4, <3>5, <3>6, <3>7, <3>8 DEF TypeOK
  <2>2. Places'
    BY AppAssumption DEF Typed, TypeOK, Places, Procs, Ruled, Grouped, Services, Kinds, Nothing
  <2> QED BY <2>1, <2>2 DEF Typed
<1>11. ASSUME NextApp PROVE Typed'
  <2> USE <1>11 DEF NextApp, Remaining, Contest, Others, StopsAt
  <2>1. TypeOK'
    <3>1. pc' \in [Procs -> {"idle", "create", "record", "remove", "forget", "erase", "next", "apply", "save",
                       "again"}]
      BY DEF Typed, TypeOK
    <3>2. at' \in [Procs -> Apps \cup {None}] /\ new' \in [Procs -> SUBSET Addrs]
      BY DEF Typed, TypeOK, Places, Procs, Ruled, Grouped, Services, Kinds, Nothing
    <3>3. cidrs' \in [Apps -> SUBSET Addrs] /\ (\A s \in Apps : cidrs'[s] # {} => s \in stored' \cap Ruled)
      BY AppAssumption DEF Typed, TypeOK, Places, Procs, Ruled, Grouped, Services, Kinds, Nothing
    <3>4. exists' \subseteq Grouped /\ ranges' \subseteq Addrs
      BY Sorted DEF Typed, TypeOK, Places, Procs
    <3>5. rules' \in [Apps -> SUBSET Addrs] /\ (\A s \in Apps : rules'[s] # {} => s \in exists')
      BY AppAssumption DEF Typed, TypeOK, Places, Procs, Ruled, Grouped, Services, Kinds, Nothing
    <3>6. /\ matching' \in [Apps -> SUBSET Addrs] /\ stored' \subseteq Apps
           /\ listed' \subseteq Apps /\ old' \in [Apps -> SUBSET Addrs] /\ begun' \subseteq Apps
      BY AppAssumption DEF Typed, TypeOK, Places, Procs, Ruled, Grouped, Services, Kinds, Nothing
    <3>7. requests' \in 0..MaxRequests /\ changes' \in 0..MaxChanges /\ faults' \in 0..MaxFaults
      BY BoundAssumption DEF Typed, TypeOK
    <3>8. raced' \subseteq Apps /\ broken' \subseteq Apps /\ contested' \subseteq Addrs
      BY AppAssumption DEF Typed, TypeOK, Places, Procs, Ruled, Grouped, Services, Kinds, Nothing
    <3> QED BY <3>1, <3>2, <3>3, <3>4, <3>5, <3>6, <3>7, <3>8 DEF TypeOK
  <2>2. Places'
    BY AppAssumption DEF Typed, TypeOK, Places, Procs, Ruled, Grouped, Services, Kinds, Nothing
  <2> QED BY <2>1, <2>2 DEF Typed
<1>12. ASSUME PassOver PROVE Typed'
  <2> USE <1>12 DEF PassOver, EndPass
  <2>1. TypeOK'
    BY AppAssumption, BoundAssumption DEF Typed, TypeOK, Places, Procs, Ruled, Grouped, Services,
       Kinds, Nothing
  <2>2. Places'
    BY AppAssumption DEF Typed, TypeOK, Places, Procs, Ruled, Grouped, Services, Kinds, Nothing
  <2> QED BY <2>1, <2>2 DEF Typed
<1>13. ASSUME RefreshSources PROVE Typed'
  <2> USE <1>13 DEF RefreshSources, Apply, Updated
  <2>1. TypeOK'
    <3>1. pc' \in [Procs -> {"idle", "create", "record", "remove", "forget", "erase", "next", "apply", "save",
                       "again"}]
      BY DEF Typed, TypeOK
    <3>2. at' \in [Procs -> Apps \cup {None}] /\ new' \in [Procs -> SUBSET Addrs]
      BY DEF Typed, TypeOK, Places, Procs, Ruled, Grouped, Services, Kinds, Nothing
    <3>3. cidrs' \in [Apps -> SUBSET Addrs] /\ (\A s \in Apps : cidrs'[s] # {} => s \in stored' \cap Ruled)
      BY AppAssumption DEF Typed, TypeOK, Places, Procs, Ruled, Grouped, Services, Kinds, Nothing
    <3>4. exists' \subseteq Grouped /\ ranges' \subseteq Addrs
      BY Sorted DEF Typed, TypeOK, Places, Procs
    <3>5. rules' \in [Apps -> SUBSET Addrs] /\ (\A s \in Apps : rules'[s] # {} => s \in exists')
      BY AppAssumption DEF Typed, TypeOK, Places, Procs, Ruled, Grouped, Services, Kinds, Nothing
    <3>6. /\ matching' \in [Apps -> SUBSET Addrs] /\ stored' \subseteq Apps
           /\ listed' \subseteq Apps /\ old' \in [Apps -> SUBSET Addrs] /\ begun' \subseteq Apps
      BY AppAssumption DEF Typed, TypeOK, Places, Procs, Ruled, Grouped, Services, Kinds, Nothing
    <3>7. requests' \in 0..MaxRequests /\ changes' \in 0..MaxChanges /\ faults' \in 0..MaxFaults
      BY BoundAssumption DEF Typed, TypeOK
    <3>8. raced' \subseteq Apps /\ broken' \subseteq Apps /\ contested' \subseteq Addrs
      BY AppAssumption DEF Typed, TypeOK, Places, Procs, Ruled, Grouped, Services, Kinds, Nothing
    <3> QED BY <3>1, <3>2, <3>3, <3>4, <3>5, <3>6, <3>7, <3>8 DEF TypeOK
  <2>2. Places'
    BY AppAssumption DEF Typed, TypeOK, Places, Procs, Ruled, Grouped, Services, Kinds, Nothing
  <2> QED BY <2>1, <2>2 DEF Typed
<1>14. ASSUME GroupMissing PROVE Typed'
  <2> USE <1>14 DEF GroupMissing, EndPass
  <2>1. TypeOK'
    BY AppAssumption, BoundAssumption DEF Typed, TypeOK, Places, Procs, Ruled, Grouped, Services,
       Kinds, Nothing
  <2>2. Places'
    BY AppAssumption DEF Typed, TypeOK, Places, Procs, Ruled, Grouped, Services, Kinds, Nothing
  <2> QED BY <2>1, <2>2 DEF Typed
<1>15. ASSUME SaveRefreshed PROVE Typed'
  <2> USE <1>15 DEF SaveRefreshed
  <2>1. TypeOK'
    <3>1. pc' \in [Procs -> {"idle", "create", "record", "remove", "forget", "erase", "next", "apply", "save",
                       "again"}]
      BY DEF Typed, TypeOK
    <3>2. at' \in [Procs -> Apps \cup {None}] /\ new' \in [Procs -> SUBSET Addrs]
      BY DEF Typed, TypeOK, Places, Procs, Ruled, Grouped, Services, Kinds, Nothing
    <3>3. cidrs' \in [Apps -> SUBSET Addrs] /\ (\A s \in Apps : cidrs'[s] # {} => s \in stored' \cap Ruled)
      BY AppAssumption DEF Typed, TypeOK, Places, Procs, Ruled, Grouped, Services, Kinds, Nothing
    <3>4. exists' \subseteq Grouped /\ ranges' \subseteq Addrs
      BY Sorted DEF Typed, TypeOK, Places, Procs
    <3>5. rules' \in [Apps -> SUBSET Addrs] /\ (\A s \in Apps : rules'[s] # {} => s \in exists')
      BY AppAssumption DEF Typed, TypeOK, Places, Procs, Ruled, Grouped, Services, Kinds, Nothing
    <3>6. /\ matching' \in [Apps -> SUBSET Addrs] /\ stored' \subseteq Apps
           /\ listed' \subseteq Apps /\ old' \in [Apps -> SUBSET Addrs] /\ begun' \subseteq Apps
      BY AppAssumption DEF Typed, TypeOK, Places, Procs, Ruled, Grouped, Services, Kinds, Nothing
    <3>7. requests' \in 0..MaxRequests /\ changes' \in 0..MaxChanges /\ faults' \in 0..MaxFaults
      BY BoundAssumption DEF Typed, TypeOK
    <3>8. raced' \subseteq Apps /\ broken' \subseteq Apps /\ contested' \subseteq Addrs
      BY AppAssumption DEF Typed, TypeOK, Places, Procs, Ruled, Grouped, Services, Kinds, Nothing
    <3> QED BY <3>1, <3>2, <3>3, <3>4, <3>5, <3>6, <3>7, <3>8 DEF TypeOK
  <2>2. Places'
    BY AppAssumption DEF Typed, TypeOK, Places, Procs, Ruled, Grouped, Services, Kinds, Nothing
  <2> QED BY <2>1, <2>2 DEF Typed
<1>16. ASSUME Restart PROVE Typed'
  <2> USE <1>16 DEF Restart, Fault, HalfDone
  <2>1. TypeOK'
    <3>1. pc' \in [Procs -> {"idle", "create", "record", "remove", "forget", "erase", "next", "apply", "save",
                       "again"}]
      BY DEF Typed, TypeOK
    <3>2. at' \in [Procs -> Apps \cup {None}] /\ new' \in [Procs -> SUBSET Addrs]
      BY DEF Typed, TypeOK, Places, Procs, Ruled, Grouped, Services, Kinds, Nothing
    <3>3. cidrs' \in [Apps -> SUBSET Addrs] /\ (\A s \in Apps : cidrs'[s] # {} => s \in stored' \cap Ruled)
      BY AppAssumption DEF Typed, TypeOK, Places, Procs, Ruled, Grouped, Services, Kinds, Nothing
    <3>4. exists' \subseteq Grouped /\ ranges' \subseteq Addrs
      BY Sorted DEF Typed, TypeOK, Places, Procs
    <3>5. rules' \in [Apps -> SUBSET Addrs] /\ (\A s \in Apps : rules'[s] # {} => s \in exists')
      BY AppAssumption DEF Typed, TypeOK, Places, Procs, Ruled, Grouped, Services, Kinds, Nothing
    <3>6. /\ matching' \in [Apps -> SUBSET Addrs] /\ stored' \subseteq Apps
           /\ listed' \subseteq Apps /\ old' \in [Apps -> SUBSET Addrs] /\ begun' \subseteq Apps
      BY AppAssumption DEF Typed, TypeOK, Places, Procs, Ruled, Grouped, Services, Kinds, Nothing
    <3>7. requests' \in 0..MaxRequests /\ changes' \in 0..MaxChanges /\ faults' \in 0..MaxFaults
      BY BoundAssumption DEF Typed, TypeOK
    <3>8. raced' \subseteq Apps /\ broken' \subseteq Apps /\ contested' \subseteq Addrs
      BY AppAssumption DEF Typed, TypeOK, Places, Procs, Ruled, Grouped, Services, Kinds, Nothing
    <3> QED BY <3>1, <3>2, <3>3, <3>4, <3>5, <3>6, <3>7, <3>8 DEF TypeOK
  <2>2. Places'
    BY AppAssumption DEF Typed, TypeOK, Places, Procs, Ruled, Grouped, Services, Kinds, Nothing
  <2> QED BY <2>1, <2>2 DEF Typed
<1>17. CASE UNCHANGED vars
  BY <1>17 DEF vars, Typed, TypeOK, Places
<1> QED BY <1>1, <1>2, <1>3, <1>4, <1>5, <1>6, <1>7, <1>8, <1>9, <1>10, <1>11, <1>12, <1>13,
           <1>14, <1>15, <1>16, <1>17 DEF Next, Worker, Refresher, Procs

-----------------------------------------------------------------------------
(* An app connection is made once, and one that was not deleted under the    *)
(* refresher's hands is read by it as it is stored, while the worker leaves  *)
(* it alone.                                                                 *)
Begun ==
  /\ stored \cup listed \subseteq begun
  /\ \A p \in Procs : at[p] # None => at[p] \in begun
  /\ pc["worker"] \in {"create", "record"} => at["worker"] \notin stored /\ ~InPass(at["worker"])
  /\ at["refresher"] \notin listed

Sound(r) == r \in Ruled \ (raced \cup broken)
Differs(r) ==
  \/ r \in listed
  \/ at["refresher"] = r /\ (pc["refresher"] \in {"apply", "save"} \/ (pc["refresher"] = "again" /\ r \in Services))

Reading ==
  \A r \in Apps : Sound(r) =>
    /\ InPass(r) => r \in stored /\ at["worker"] # r
    /\ Differs(r) => old[r] = cidrs[r]
    /\ at["worker"] = r /\ pc["worker"] \in {"remove", "forget"} => new["worker"] = cidrs[r]

Steady == Begun /\ Reading

(* Nothing is begun at the start.                                            *)
LEMMA InitSteady == Init => Steady
BY Sorted DEF Init, Steady, Begun, Reading, InPass, Procs, Differs, Nothing

(* Every step keeps what is read in step with what is stored.                *)
LEMMA SteadyStep ==
  ASSUME Typed, Typed', Steady, [Next]_vars
  PROVE  Steady'
<1> USE DEF disk, dest, local, pass, bounds, history, Goto
<1>1. ASSUME NEW r \in Apps, Change(r) PROVE Steady'
  <2> USE <1>1 DEF Change
  <2>1. Begun'
    BY Sorted DEF Typed, TypeOK, Places, Procs, Steady, Begun, InPass, Nothing
  <2>2. Reading'
    BY Sorted DEF Typed, TypeOK, Places, Procs, Steady, Begun, InPass, Nothing, Reading, Sound,
       Differs
  <2> QED BY <2>1, <2>2 DEF Steady
<1>2. ASSUME NEW r \in Apps, StartCreation(r) PROVE Steady'
  <2> USE <1>2 DEF StartCreation, Take, Contest, Others
  <2>1. Begun'
    BY Sorted DEF Typed, TypeOK, Places, Procs, Steady, Begun, InPass, Nothing
  <2>2. Reading'
    BY Sorted DEF Typed, TypeOK, Places, Procs, Steady, Begun, InPass, Nothing, Reading, Sound,
       Differs
  <2> QED BY <2>1, <2>2 DEF Steady
<1>3. ASSUME NEW r \in Apps, StoreMarker(r) PROVE Steady'
  <2> USE <1>3 DEF StoreMarker, Take
  <2>1. Begun'
    BY Sorted DEF Typed, TypeOK, Places, Procs, Steady, Begun, InPass, Nothing
  <2>2. Reading'
    BY Sorted DEF Typed, TypeOK, Places, Procs, Steady, Begun, InPass, Nothing, Reading, Sound,
       Differs
  <2> QED BY <2>1, <2>2 DEF Steady
<1>4. ASSUME NEW r \in Apps, StartDeletion(r) PROVE Steady'
  <2> USE <1>4 DEF StartDeletion, Take, InPass
  <2>1. Begun'
    BY Sorted DEF Typed, TypeOK, Places, Procs, Steady, Begun, InPass, Nothing
  <2>2. Reading'
    BY Sorted DEF Typed, TypeOK, Places, Procs, Steady, Begun, InPass, Nothing, Reading, Sound,
       Differs
  <2> QED BY <2>1, <2>2 DEF Steady
<1>5. ASSUME AddSources PROVE Steady'
  <2> USE <1>5 DEF AddSources, Open
  <2>1. Begun'
    BY Sorted DEF Typed, TypeOK, Places, Procs, Steady, Begun, InPass, Nothing
  <2>2. Reading'
    BY Sorted DEF Typed, TypeOK, Places, Procs, Steady, Begun, InPass, Nothing, Reading, Sound,
       Differs
  <2> QED BY <2>1, <2>2 DEF Steady
<1>6. ASSUME SaveCreated PROVE Steady'
  <2> USE <1>6 DEF SaveCreated
  <2>1. Begun'
    BY Sorted DEF Typed, TypeOK, Places, Procs, Steady, Begun, InPass, Nothing
  <2>2. Reading'
    BY Sorted DEF Typed, TypeOK, Places, Procs, Steady, Begun, InPass, Nothing, Reading, Sound,
       Differs
  <2> QED BY <2>1, <2>2 DEF Steady
<1>7. ASSUME RemoveSources PROVE Steady'
  <2> USE <1>7 DEF RemoveSources, Shut
  <2>1. Begun'
    BY Sorted DEF Typed, TypeOK, Places, Procs, Steady, Begun, InPass, Nothing
  <2>2. Reading'
    BY Sorted DEF Typed, TypeOK, Places, Procs, Steady, Begun, InPass, Nothing, Reading, Sound,
       Differs
  <2> QED BY <2>1, <2>2 DEF Steady
<1>8. ASSUME DeleteRecord PROVE Steady'
  <2> USE <1>8 DEF DeleteRecord
  <2>1. Begun'
    BY Sorted DEF Typed, TypeOK, Places, Procs, Steady, Begun, InPass, Nothing
  <2>2. Reading'
    BY Sorted DEF Typed, TypeOK, Places, Procs, Steady, Begun, InPass, Nothing, Reading, Sound,
       Differs
  <2> QED BY <2>1, <2>2 DEF Steady
<1>9. ASSUME NEW p \in Procs, CallFails(p) PROVE Steady'
  <2> USE <1>9 DEF CallFails, Fault, HalfDone, Open, Shut, Apply, Updated, EndPass
  <2>1. Begun'
    BY Sorted DEF Typed, TypeOK, Places, Procs, Steady, Begun, InPass, Nothing
  <2>2. Reading'
    BY Sorted DEF Typed, TypeOK, Places, Procs, Steady, Begun, InPass, Nothing, Reading, Sound,
       Differs
  <2> QED BY <2>1, <2>2 DEF Steady
<1>10. ASSUME StartPass PROVE Steady'
  <2> USE <1>10 DEF StartPass
  <2>1. Begun'
    BY Sorted DEF Typed, TypeOK, Places, Procs, Steady, Begun, InPass, Nothing
  <2>2. Reading'
    BY Sorted DEF Typed, TypeOK, Places, Procs, Steady, Begun, InPass, Nothing, Reading, Sound,
       Differs
  <2> QED BY <2>1, <2>2 DEF Steady
<1>11. ASSUME NextApp PROVE Steady'
  <2> USE <1>11 DEF NextApp, Remaining, Contest, Others, StopsAt
  <2>1. Begun'
    BY Sorted DEF Typed, TypeOK, Places, Procs, Steady, Begun, InPass, Nothing
  <2>2. Reading'
    BY Sorted DEF Typed, TypeOK, Places, Procs, Steady, Begun, InPass, Nothing, Reading, Sound,
       Differs
  <2> QED BY <2>1, <2>2 DEF Steady
<1>12. ASSUME PassOver PROVE Steady'
  <2> USE <1>12 DEF PassOver, EndPass
  <2>1. Begun'
    BY Sorted DEF Typed, TypeOK, Places, Procs, Steady, Begun, InPass, Nothing
  <2>2. Reading'
    BY Sorted DEF Typed, TypeOK, Places, Procs, Steady, Begun, InPass, Nothing, Reading, Sound,
       Differs
  <2> QED BY <2>1, <2>2 DEF Steady
<1>13. ASSUME RefreshSources PROVE Steady'
  <2> USE <1>13 DEF RefreshSources, Apply, Updated
  <2>1. Begun'
    BY Sorted DEF Typed, TypeOK, Places, Procs, Steady, Begun, InPass, Nothing
  <2>2. Reading'
    BY Sorted DEF Typed, TypeOK, Places, Procs, Steady, Begun, InPass, Nothing, Reading, Sound,
       Differs
  <2> QED BY <2>1, <2>2 DEF Steady
<1>14. ASSUME GroupMissing PROVE Steady'
  <2> USE <1>14 DEF GroupMissing, EndPass
  <2>1. Begun'
    BY Sorted DEF Typed, TypeOK, Places, Procs, Steady, Begun, InPass, Nothing
  <2>2. Reading'
    BY Sorted DEF Typed, TypeOK, Places, Procs, Steady, Begun, InPass, Nothing, Reading, Sound,
       Differs
  <2> QED BY <2>1, <2>2 DEF Steady
<1>15. ASSUME SaveRefreshed PROVE Steady'
  <2> USE <1>15 DEF SaveRefreshed
  <2>1. Begun'
    BY Sorted DEF Typed, TypeOK, Places, Procs, Steady, Begun, InPass, Nothing
  <2>2. Reading'
    BY Sorted DEF Typed, TypeOK, Places, Procs, Steady, Begun, InPass, Nothing, Reading, Sound,
       Differs
  <2> QED BY <2>1, <2>2 DEF Steady
<1>16. ASSUME Restart PROVE Steady'
  <2> USE <1>16 DEF Restart, Fault, HalfDone
  <2>1. Begun'
    BY Sorted DEF Typed, TypeOK, Places, Procs, Steady, Begun, InPass, Nothing
  <2>2. Reading'
    BY Sorted DEF Typed, TypeOK, Places, Procs, Steady, Begun, InPass, Nothing, Reading, Sound,
       Differs
  <2> QED BY <2>1, <2>2 DEF Steady
<1>17. CASE UNCHANGED vars
  BY <1>17 DEF vars, Steady, Begun, Reading, InPass, Sound, Differs
<1> QED BY <1>1, <1>2, <1>3, <1>4, <1>5, <1>6, <1>7, <1>8, <1>9, <1>10, <1>11, <1>12, <1>13,
           <1>14, <1>15, <1>16, <1>17 DEF Next, Worker, Refresher, Procs

-----------------------------------------------------------------------------
(* A security group is as its record says, or as the one who changes it has  *)
(* just read.                                                                *)
Following ==
  /\ GroupsFollow
  /\ \A r \in Grouped : Sound(r) =>
       /\ at["worker"] = r /\ pc["worker"] = "record" => r \in exists /\ rules[r] = new["worker"]
       /\ at["refresher"] = r /\ pc["refresher"] = "again" => cidrs[r] = new["refresher"]

(* There are no groups at the start.                                         *)
LEMMA InitFollowing == Init => Following
BY Sorted DEF Init, Following, GroupsFollow, Procs

(* Every step keeps the groups in step with the records.                     *)
LEMMA FollowingStep ==
  ASSUME Typed, Typed', Steady, Steady', Following, [Next]_vars
  PROVE  Following'
<1> USE DEF disk, dest, local, pass, bounds, history, Goto
<1>1. ASSUME NEW r \in Apps, Change(r) PROVE Following'
  <2> USE <1>1 DEF Change
  <2>1. Following'
    BY Sorted DEF Typed, TypeOK, Places, Procs, Steady, Begun, InPass, Nothing, Reading, Sound,
       Differs, Following, GroupsFollow
  <2> QED BY <2>1 DEF Following
<1>2. ASSUME NEW r \in Apps, StartCreation(r) PROVE Following'
  <2> USE <1>2 DEF StartCreation, Take, Contest, Others
  <2>1. Following'
    BY Sorted DEF Typed, TypeOK, Places, Procs, Steady, Begun, InPass, Nothing, Reading, Sound,
       Differs, Following, GroupsFollow
  <2> QED BY <2>1 DEF Following
<1>3. ASSUME NEW r \in Apps, StoreMarker(r) PROVE Following'
  <2> USE <1>3 DEF StoreMarker, Take
  <2>1. Following'
    BY Sorted DEF Typed, TypeOK, Places, Procs, Steady, Begun, InPass, Nothing, Reading, Sound,
       Differs, Following, GroupsFollow
  <2> QED BY <2>1 DEF Following
<1>4. ASSUME NEW r \in Apps, StartDeletion(r) PROVE Following'
  <2> USE <1>4 DEF StartDeletion, Take, InPass
  <2>1. Following'
    BY Sorted DEF Typed, TypeOK, Places, Procs, Steady, Begun, InPass, Nothing, Reading, Sound,
       Differs, Following, GroupsFollow
  <2> QED BY <2>1 DEF Following
<1>5. ASSUME AddSources PROVE Following'
  <2> USE <1>5 DEF AddSources, Open
  <2>1. Following'
    BY Sorted DEF Typed, TypeOK, Places, Procs, Steady, Begun, InPass, Nothing, Reading, Sound,
       Differs, Following, GroupsFollow
  <2> QED BY <2>1 DEF Following
<1>6. ASSUME SaveCreated PROVE Following'
  <2> USE <1>6 DEF SaveCreated
  <2>1. Following'
    BY Sorted DEF Typed, TypeOK, Places, Procs, Steady, Begun, InPass, Nothing, Reading, Sound,
       Differs, Following, GroupsFollow
  <2> QED BY <2>1 DEF Following
<1>7. ASSUME RemoveSources PROVE Following'
  <2> USE <1>7 DEF RemoveSources, Shut
  <2>1. Following'
    BY Sorted DEF Typed, TypeOK, Places, Procs, Steady, Begun, InPass, Nothing, Reading, Sound,
       Differs, Following, GroupsFollow
  <2> QED BY <2>1 DEF Following
<1>8. ASSUME DeleteRecord PROVE Following'
  <2> USE <1>8 DEF DeleteRecord
  <2>1. Following'
    BY Sorted DEF Typed, TypeOK, Places, Procs, Steady, Begun, InPass, Nothing, Reading, Sound,
       Differs, Following, GroupsFollow
  <2> QED BY <2>1 DEF Following
<1>9. ASSUME NEW p \in Procs, CallFails(p) PROVE Following'
  <2> USE <1>9 DEF CallFails, Fault, HalfDone, Open, Shut, Apply, Updated, EndPass
  <2>1. Following'
    BY Sorted DEF Typed, TypeOK, Places, Procs, Steady, Begun, InPass, Nothing, Reading, Sound,
       Differs, Following, GroupsFollow
  <2> QED BY <2>1 DEF Following
<1>10. ASSUME StartPass PROVE Following'
  <2> USE <1>10 DEF StartPass
  <2>1. Following'
    BY Sorted DEF Typed, TypeOK, Places, Procs, Steady, Begun, InPass, Nothing, Reading, Sound,
       Differs, Following, GroupsFollow
  <2> QED BY <2>1 DEF Following
<1>11. ASSUME NextApp PROVE Following'
  <2> USE <1>11 DEF NextApp, Remaining, Contest, Others, StopsAt
  <2>1. Following'
    BY Sorted DEF Typed, TypeOK, Places, Procs, Steady, Begun, InPass, Nothing, Reading, Sound,
       Differs, Following, GroupsFollow
  <2> QED BY <2>1 DEF Following
<1>12. ASSUME PassOver PROVE Following'
  <2> USE <1>12 DEF PassOver, EndPass
  <2>1. Following'
    BY Sorted DEF Typed, TypeOK, Places, Procs, Steady, Begun, InPass, Nothing, Reading, Sound,
       Differs, Following, GroupsFollow
  <2> QED BY <2>1 DEF Following
<1>13. ASSUME RefreshSources PROVE Following'
  <2> USE <1>13 DEF RefreshSources, Apply, Updated
  <2>1. Following'
    <3> DEFINE t == at["refresher"]
    <3>1. t \in Ruled /\ t \in Apps /\ at' = at /\ new' = new /\ pc'["worker"] = pc["worker"]
      BY Sorted DEF Typed, TypeOK, Places, Procs
    <3>2. \A s \in Apps \ {t} : rules'[s] = rules[s] /\ at'["refresher"] # s
      BY <3>1 DEF Typed, TypeOK
    <3>3. CASE t \in Services
      <4>1. rules' = rules /\ exists' = exists /\ t \notin Grouped
        BY <3>3, Sorted
      <4> QED BY <3>1, <4>1, Sorted DEF Following, GroupsFollow, Sound
    <3>4. CASE t \in Grouped
      <4>1. exists' = exists /\ pc'["refresher"] = "save" /\ rules' = [rules EXCEPT ![t] = Updated(@, t)]
        BY <3>4, Sorted DEF Typed, TypeOK, Procs
      <4>2. ASSUME Sound(t), t \in stored PROVE rules'[t] = new["refresher"] /\ t \in exists
        <5>1. at["worker"] # t /\ old[t] = cidrs[t]
          BY <3>1, <4>2 DEF Steady, Reading, InPass, Differs
        <5>2. t \in exists /\ rules[t] = cidrs[t]
          BY <3>4, <4>2, <5>1 DEF Following, GroupsFollow, Sound
        <5>3. rules'[t] = (cidrs[t] \cup (new["refresher"] \ cidrs[t])) \ (cidrs[t] \ new["refresher"])
          BY <3>1, <4>1, <5>1, <5>2 DEF Typed, TypeOK
        <5> QED BY <5>2, <5>3
      <4>3. GroupsFollow'
        <5>1. ASSUME NEW s \in (stored \cap Grouped) \ (raced \cup broken)
              PROVE  \/ at["worker"] = s /\ pc["worker"] \in {"forget", "erase"}
                     \/ s \in exists /\ rules'[s] = IF t = s THEN new["refresher"] ELSE cidrs[s]
          <6>1. s \in Apps /\ Sound(s)
            BY Sorted DEF Sound
          <6>2. CASE s = t
            BY <4>2, <6>1, <6>2
          <6>3. CASE s # t
            BY <3>2, <6>1, <6>3 DEF Following, GroupsFollow
          <6> QED BY <6>2, <6>3
        <5>2. UNCHANGED <<stored, cidrs, raced, broken>>
          OBVIOUS
        <5> QED BY ONLY <5>1, <5>2, <3>1, <4>1 DEF GroupsFollow
      <4>4. Sound(t) => at["worker"] # t
        BY <3>1 DEF Steady, Reading, InPass
      <4> QED BY <3>1, <3>2, <4>1, <4>3, <4>4, Sorted DEF Following, Sound
    <3> QED BY <3>1, <3>3, <3>4, Sorted
  <2> QED BY <2>1 DEF Following
<1>14. ASSUME GroupMissing PROVE Following'
  <2> USE <1>14 DEF GroupMissing, EndPass
  <2>1. Following'
    BY Sorted DEF Typed, TypeOK, Places, Procs, Steady, Begun, InPass, Nothing, Reading, Sound,
       Differs, Following, GroupsFollow
  <2> QED BY <2>1 DEF Following
<1>15. ASSUME SaveRefreshed PROVE Following'
  <2> USE <1>15 DEF SaveRefreshed
  <2>1. Following'
    BY Sorted DEF Typed, TypeOK, Places, Procs, Steady, Begun, InPass, Nothing, Reading, Sound,
       Differs, Following, GroupsFollow
  <2> QED BY <2>1 DEF Following
<1>16. ASSUME Restart PROVE Following'
  <2> USE <1>16 DEF Restart, Fault, HalfDone
  <2>1. Following'
    BY Sorted DEF Typed, TypeOK, Places, Procs, Steady, Begun, InPass, Nothing, Reading, Sound,
       Differs, Following, GroupsFollow
  <2> QED BY <2>1 DEF Following
<1>17. CASE UNCHANGED vars
  BY <1>17 DEF vars, Following, GroupsFollow, Sound
<1> QED BY <1>1, <1>2, <1>3, <1>4, <1>5, <1>6, <1>7, <1>8, <1>9, <1>10, <1>11, <1>12, <1>13,
           <1>14, <1>15, <1>16, <1>17 DEF Next, Worker, Refresher, Procs

-----------------------------------------------------------------------------
(* What the service should admit for one of its app connections, with the    *)
(* change in hand.                                                           *)
Admitted(r) ==
  IF at["worker"] = r /\ pc["worker"] = "record" THEN new["worker"]
  ELSE IF at["worker"] = r /\ pc["worker"] = "forget" THEN {}
  ELSE IF at["refresher"] = r /\ pc["refresher"] = "again" THEN new["refresher"]
  ELSE cidrs[r]

Has(r, a) == a \in cidrs[r] \/ \E p \in Procs : at[p] = r /\ a \in new[p]

(* An address nobody contests belongs to one app connection of the service.  *)
Apart == \A a \in Addrs \ contested, r, s \in Services : Has(r, a) /\ Has(s, a) => r = s

Exact ==
  Services \cap (raced \cup broken) = {} =>
    \A a \in Addrs \ contested : a \in ranges <=> \E r \in Services : a \in Admitted(r)

Shared == Apart /\ Exact

(* The service admits nobody at the start.                                   *)
LEMMA InitShared == Init => Shared
BY Sorted DEF Init, Shared, Apart, Exact, Has, Admitted, Procs, Nothing

(* Every step keeps the service's ranges exact.                              *)
LEMMA SharedStep ==
  ASSUME Typed, Typed', Steady, Steady', Shared, [Next]_vars
  PROVE  Shared'
<1> USE DEF disk, dest, local, pass, bounds, history, Goto
<1>1. ASSUME NEW r \in Apps, Change(r) PROVE Shared'
  <2> USE <1>1 DEF Change
  <2>1. Apart'
    BY Sorted DEF Typed, TypeOK, Places, Procs, Steady, Begun, InPass, Nothing, Shared, Apart, Has
  <2>2. Exact'
    BY Sorted DEF Typed, TypeOK, Places, Procs, Steady, Begun, InPass, Nothing, Reading, Sound,
       Differs, Shared, Exact, Admitted, Apart, Has
  <2> QED BY <2>1, <2>2 DEF Shared
<1>2. ASSUME NEW r \in Apps, StartCreation(r) PROVE Shared'
  <2> USE <1>2 DEF StartCreation, Take, Contest, Others
  <2>1. Apart'
    <3>1. \A s \in Services, a \in Addrs : s # r /\ Has(s, a)' => Has(s, a)
      BY DEF Has, Typed, TypeOK, Procs
    <3>2. \A a \in Addrs : Has(r, a)' => Has(r, a) \/ a \in matching[r]
      BY DEF Has, Typed, TypeOK, Procs
    <3>3. \A s \in Services \ {r}, a \in Addrs : Has(s, a) => a \in Others(r)
      <4>1. SUFFICES ASSUME NEW s \in Services \ {r}, NEW a \in Addrs, Has(s, a) PROVE a \in Others(r)
        OBVIOUS
      <4>2. CASE a \in cidrs[s]
        BY <4>2 DEF Others
      <4>3. CASE \E p \in Procs : at[p] = s /\ a \in new[p]
        <5>1. PICK p \in Procs : at[p] = s /\ a \in new[p]
          BY <4>3
        <5>2. p \in {q \in Procs : at[q] \in Services \ {r}}
          BY <5>1
        <5>3. a \in UNION {new[m] : m \in {q \in Procs : at[q] \in Services \ {r}}}
          BY <5>1, <5>2, Zenon
        <5> QED BY ONLY <5>3, Zenon DEF Others
      <4> QED BY <4>1, <4>2, <4>3 DEF Has
    <3>4. contested \subseteq contested' /\ (r \in Services => matching[r] \cap Others(r) \subseteq contested')
      OBVIOUS
    <3> QED BY <3>1, <3>2, <3>3, <3>4 DEF Shared, Apart
  <2>2. Exact'
    BY Sorted DEF Typed, TypeOK, Places, Procs, Steady, Begun, InPass, Nothing, Reading, Sound,
       Differs, Shared, Exact, Admitted, Apart, Has
  <2> QED BY <2>1, <2>2 DEF Shared
<1>3. ASSUME NEW r \in Apps, StoreMarker(r) PROVE Shared'
  <2> USE <1>3 DEF StoreMarker, Take
  <2>1. Apart'
    BY Sorted DEF Typed, TypeOK, Places, Procs, Steady, Begun, InPass, Nothing, Shared, Apart, Has
  <2>2. Exact'
    BY Sorted DEF Typed, TypeOK, Places, Procs, Steady, Begun, InPass, Nothing, Reading, Sound,
       Differs, Shared, Exact, Admitted, Apart, Has
  <2> QED BY <2>1, <2>2 DEF Shared
<1>4. ASSUME NEW r \in Apps, StartDeletion(r) PROVE Shared'
  <2> USE <1>4 DEF StartDeletion, Take, InPass
  <2>1. Apart'
    BY Sorted DEF Typed, TypeOK, Places, Procs, Steady, Begun, InPass, Nothing, Shared, Apart, Has
  <2>2. Exact'
    BY Sorted DEF Typed, TypeOK, Places, Procs, Steady, Begun, InPass, Nothing, Reading, Sound,
       Differs, Shared, Exact, Admitted, Apart, Has
  <2> QED BY <2>1, <2>2 DEF Shared
<1>5. ASSUME AddSources PROVE Shared'
  <2> USE <1>5 DEF AddSources, Open
  <2>1. Apart'
    BY Sorted DEF Typed, TypeOK, Places, Procs, Steady, Begun, InPass, Nothing, Shared, Apart, Has
  <2>2. Exact'
    BY Sorted DEF Typed, TypeOK, Places, Procs, Steady, Begun, InPass, Nothing, Reading, Sound,
       Differs, Shared, Exact, Admitted, Apart, Has
  <2> QED BY <2>1, <2>2 DEF Shared
<1>6. ASSUME SaveCreated PROVE Shared'
  <2> USE <1>6 DEF SaveCreated
  <2>1. Apart'
    BY Sorted DEF Typed, TypeOK, Places, Procs, Steady, Begun, InPass, Nothing, Shared, Apart, Has
  <2>2. Exact'
    BY Sorted DEF Typed, TypeOK, Places, Procs, Steady, Begun, InPass, Nothing, Reading, Sound,
       Differs, Shared, Exact, Admitted, Apart, Has
  <2> QED BY <2>1, <2>2 DEF Shared
<1>7. ASSUME RemoveSources PROVE Shared'
  <2> USE <1>7 DEF RemoveSources, Shut
  <2>1. Apart'
    BY Sorted DEF Typed, TypeOK, Places, Procs, Steady, Begun, InPass, Nothing, Shared, Apart, Has
  <2>2. Exact'
    BY Sorted DEF Typed, TypeOK, Places, Procs, Steady, Begun, InPass, Nothing, Reading, Sound,
       Differs, Shared, Exact, Admitted, Apart, Has
  <2> QED BY <2>1, <2>2 DEF Shared
<1>8. ASSUME DeleteRecord PROVE Shared'
  <2> USE <1>8 DEF DeleteRecord
  <2>1. Apart'
    BY Sorted DEF Typed, TypeOK, Places, Procs, Steady, Begun, InPass, Nothing, Shared, Apart, Has
  <2>2. Exact'
    BY Sorted DEF Typed, TypeOK, Places, Procs, Steady, Begun, InPass, Nothing, Reading, Sound,
       Differs, Shared, Exact, Admitted, Apart, Has
  <2> QED BY <2>1, <2>2 DEF Shared
<1>9. ASSUME NEW p \in Procs, CallFails(p) PROVE Shared'
  <2> USE <1>9 DEF CallFails, Fault, HalfDone, Open, Shut, Apply, Updated, EndPass
  <2>1. Apart'
    BY Sorted DEF Typed, TypeOK, Places, Procs, Steady, Begun, InPass, Nothing, Shared, Apart, Has
  <2>2. Exact'
    BY Sorted DEF Typed, TypeOK, Places, Procs, Steady, Begun, InPass, Nothing, Reading, Sound,
       Differs, Shared, Exact, Admitted, Apart, Has
  <2> QED BY <2>1, <2>2 DEF Shared
<1>10. ASSUME StartPass PROVE Shared'
  <2> USE <1>10 DEF StartPass
  <2>1. Apart'
    BY Sorted DEF Typed, TypeOK, Places, Procs, Steady, Begun, InPass, Nothing, Shared, Apart, Has
  <2>2. Exact'
    BY Sorted DEF Typed, TypeOK, Places, Procs, Steady, Begun, InPass, Nothing, Reading, Sound,
       Differs, Shared, Exact, Admitted, Apart, Has
  <2> QED BY <2>1, <2>2 DEF Shared
<1>11. ASSUME NextApp PROVE Shared'
  <2> USE <1>11 DEF NextApp, Remaining, Contest, Others, StopsAt
  <2>1. Apart'
    <3>1. PICK r \in Apps : /\ at' = [at EXCEPT !["refresher"] = r]
                           /\ new' = [new EXCEPT !["refresher"] = matching[r]]
                           /\ Contest(r, matching[r])
      BY DEF Typed, TypeOK
    <3>2. at["refresher"] = None
      BY DEF Typed, Places, Procs
    <3>3. \A s \in Services, a \in Addrs : s # r /\ Has(s, a)' => Has(s, a)
      BY <3>1 DEF Has, Procs, Typed, TypeOK
    <3>4. \A a \in Addrs : Has(r, a)' => Has(r, a) \/ a \in matching[r]
      BY <3>1 DEF Has, Procs, Typed, TypeOK
    <3>5. \A s \in Services \ {r}, a \in Addrs : Has(s, a) => a \in Others(r)
      <4>1. SUFFICES ASSUME NEW s \in Services \ {r}, NEW a \in Addrs, Has(s, a) PROVE a \in Others(r)
        OBVIOUS
      <4>2. CASE a \in cidrs[s]
        BY <4>2 DEF Others
      <4>3. CASE \E p \in Procs : at[p] = s /\ a \in new[p]
        <5>1. PICK p \in Procs : at[p] = s /\ a \in new[p]
          BY <4>3
        <5>2. p \in {q \in Procs : at[q] \in Services \ {r}}
          BY <5>1
        <5>3. a \in UNION {new[m] : m \in {q \in Procs : at[q] \in Services \ {r}}}
          BY <5>1, <5>2, Zenon
        <5> QED BY ONLY <5>3, Zenon DEF Others
      <4> QED BY <4>1, <4>2, <4>3 DEF Has
    <3>6. contested \subseteq contested' /\ (r \in Services => matching[r] \cap Others(r) \subseteq contested')
      BY <3>1 DEF Contest
    <3> QED BY <3>3, <3>4, <3>5, <3>6 DEF Shared, Apart
  <2>2. Exact'
    BY Sorted DEF Typed, TypeOK, Places, Procs, Steady, Begun, InPass, Nothing, Reading, Sound,
       Differs, Shared, Exact, Admitted, Apart, Has
  <2> QED BY <2>1, <2>2 DEF Shared
<1>12. ASSUME PassOver PROVE Shared'
  <2> USE <1>12 DEF PassOver, EndPass
  <2>1. Apart'
    BY Sorted DEF Typed, TypeOK, Places, Procs, Steady, Begun, InPass, Nothing, Shared, Apart, Has
  <2>2. Exact'
    BY Sorted DEF Typed, TypeOK, Places, Procs, Steady, Begun, InPass, Nothing, Reading, Sound,
       Differs, Shared, Exact, Admitted, Apart, Has
  <2> QED BY <2>1, <2>2 DEF Shared
<1>13. ASSUME RefreshSources PROVE Shared'
  <2> USE <1>13 DEF RefreshSources, Apply, Updated
  <2>1. Apart'
    BY Sorted DEF Typed, TypeOK, Places, Procs, Steady, Begun, InPass, Nothing, Shared, Apart, Has
  <2>2. Exact'
    BY Sorted DEF Typed, TypeOK, Places, Procs, Steady, Begun, InPass, Nothing, Reading, Sound,
       Differs, Shared, Exact, Admitted, Apart, Has
  <2> QED BY <2>1, <2>2 DEF Shared
<1>14. ASSUME GroupMissing PROVE Shared'
  <2> USE <1>14 DEF GroupMissing, EndPass
  <2>1. Apart'
    BY Sorted DEF Typed, TypeOK, Places, Procs, Steady, Begun, InPass, Nothing, Shared, Apart, Has
  <2>2. Exact'
    BY Sorted DEF Typed, TypeOK, Places, Procs, Steady, Begun, InPass, Nothing, Reading, Sound,
       Differs, Shared, Exact, Admitted, Apart, Has
  <2> QED BY <2>1, <2>2 DEF Shared
<1>15. ASSUME SaveRefreshed PROVE Shared'
  <2> USE <1>15 DEF SaveRefreshed
  <2>1. Apart'
    BY Sorted DEF Typed, TypeOK, Places, Procs, Steady, Begun, InPass, Nothing, Shared, Apart, Has
  <2>2. Exact'
    BY Sorted DEF Typed, TypeOK, Places, Procs, Steady, Begun, InPass, Nothing, Reading, Sound,
       Differs, Shared, Exact, Admitted, Apart, Has
  <2> QED BY <2>1, <2>2 DEF Shared
<1>16. ASSUME Restart PROVE Shared'
  <2> USE <1>16 DEF Restart, Fault, HalfDone
  <2>1. Apart'
    BY Sorted DEF Typed, TypeOK, Places, Procs, Steady, Begun, InPass, Nothing, Shared, Apart, Has
  <2>2. Exact'
    BY Sorted DEF Typed, TypeOK, Places, Procs, Steady, Begun, InPass, Nothing, Reading, Sound,
       Differs, Shared, Exact, Admitted, Apart, Has
  <2> QED BY <2>1, <2>2 DEF Shared
<1>17. CASE UNCHANGED vars
  BY <1>17 DEF vars, Shared, Apart, Exact, Has, Admitted
<1> QED BY <1>1, <1>2, <1>3, <1>4, <1>5, <1>6, <1>7, <1>8, <1>9, <1>10, <1>11, <1>12, <1>13,
           <1>14, <1>15, <1>16, <1>17 DEF Next, Worker, Refresher, Procs

-----------------------------------------------------------------------------
(* The types hold of every behaviour.                                        *)
LEMMA TypedAlways == Spec => []Typed
<1>1. Typed /\ [Next]_vars => Typed'
  BY TypedStep
<1> QED BY InitTyped, <1>1, PTL DEF Spec

(* The variables keep their types, and what is not stored has no addresses.  *)
THEOREM TypeCorrect == Spec => []TypeOK
<1>1. Typed => TypeOK
  BY DEF Typed
<1> QED BY <1>1, TypedAlways, PTL

(* What is read stays in step with what is stored.                           *)
LEMMA SteadyAlways == Spec => []Steady
<1>1. Typed /\ Typed' /\ Steady /\ [Next]_vars => Steady'
  BY SteadyStep
<1> QED BY InitSteady, <1>1, TypedAlways, PTL DEF Spec

(* A security group allows exactly the addresses of its record, whatever     *)
(* worker and refresher do at the same time                                  *)
(* (security_groups.go:332-419, awi_connection_controller.go:210-236).       *)
THEOREM GroupsAreExact == Spec => []GroupsFollow
<1>1. Typed /\ Typed' /\ Steady /\ Steady' /\ Following /\ [Next]_vars => Following'
  BY FollowingStep
<1>2. Following => GroupsFollow
  BY DEF Following
<1> QED BY InitFollowing, <1>1, <1>2, TypedAlways, SteadyAlways, PTL DEF Spec

(* The shared service admits exactly the addresses of its app connections,   *)
(* as long as no two of them have had the same one                           *)
(* (kubernetes.go:157-164, disconnect.go:233-236, security_groups.go:386-390). *)
THEOREM ServiceIsExact == Spec => []RangesFollow
<1>1. Typed /\ Typed' /\ Steady /\ Steady' /\ Shared /\ [Next]_vars => Shared'
  BY SharedStep
<1>2. Typed /\ Steady /\ Shared => RangesFollow
  <2>1. SUFFICES ASSUME Typed, Steady, Shared, Services \cap (raced \cup broken) = {},
                        NEW a \in Addrs \ contested, ~Moving(a)
                 PROVE  a \in ranges <=> \E r \in Services : a \in cidrs[r]
    BY DEF RangesFollow
  <2>2. ASSUME NEW r \in Services PROVE a \in Admitted(r) <=> a \in cidrs[r]
    BY <2>1, <2>2, Sorted DEF Moving, Admitted, Typed, TypeOK, Places, Steady, Begun, Reading,
       Sound, Differs, Procs
  <2> QED BY <2>1, <2>2 DEF Shared, Exact
<1> QED BY InitShared, <1>1, <1>2, TypedAlways, SteadyAlways, PTL DEF Spec
-----------------------------------------------------------------------------
(* What a pass is still to write back is stored and stays so, or was raced.  *)
Writable == \A r \in Apps : InPass(r) => r \in raced \/ (r \in stored /\ at["worker"] # r)

(* Every step keeps that, also for records with a broken past.               *)
LEMMA WritableStep ==
  ASSUME Typed, Steady, Writable, [Next]_vars
  PROVE  Writable'
<1> USE Sorted DEF disk, dest, local, pass, bounds, history, Goto, Procs
<1>1. ASSUME NEW r \in Apps, StartCreation(r) PROVE Writable'
  <2>1. ~InPass(r)
    BY <1>1 DEF StartCreation, InPass, Steady, Begun
  <2> QED BY <1>1, <2>1 DEF StartCreation, Writable, InPass, Typed, TypeOK
<1>2. ASSUME NEW r \in Apps, StoreMarker(r) PROVE Writable'
  BY <1>2 DEF StoreMarker, Writable, InPass
<1>3. ASSUME NEW r \in Apps, StartDeletion(r) PROVE Writable'
  BY <1>3 DEF StartDeletion, Take, Writable, InPass, Typed, TypeOK
<1>4. ASSUME AddSources \/ RemoveSources PROVE Writable'
  BY <1>4 DEF AddSources, RemoveSources, Writable, InPass, Typed, TypeOK
<1>5. ASSUME SaveCreated PROVE Writable'
  BY <1>5 DEF SaveCreated, Writable, InPass, Typed, TypeOK
<1>6. ASSUME DeleteRecord PROVE Writable'
  BY <1>6 DEF DeleteRecord, Writable, InPass, Typed, TypeOK
<1>7. ASSUME StartPass PROVE Writable'
  BY <1>7 DEF StartPass, Writable, InPass, Typed, TypeOK
<1>8. ASSUME NextApp PROVE Writable'
  BY <1>8 DEF NextApp, Remaining, Writable, InPass, Typed, TypeOK
<1>9. ASSUME PassOver \/ GroupMissing PROVE Writable'
  BY <1>9 DEF PassOver, GroupMissing, EndPass, Writable, InPass, Typed, TypeOK
<1>10. ASSUME RefreshSources PROVE Writable'
  BY <1>10 DEF RefreshSources, Writable, InPass, Typed, TypeOK
<1>11. ASSUME SaveRefreshed PROVE Writable'
  BY <1>11 DEF SaveRefreshed, Writable, InPass, Typed, TypeOK
<1>12. ASSUME NEW p \in Procs, CallFails(p) PROVE Writable'
  <2>1. CASE p = "refresher"
    BY <1>12, <2>1 DEF CallFails, EndPass, Writable, InPass, Typed, TypeOK
  <2>2. CASE p = "worker"
    BY <1>12, <2>2 DEF CallFails, Writable, InPass, Typed, TypeOK
  <2> QED BY <2>1, <2>2
<1>13. ASSUME Restart PROVE Writable'
  BY <1>13 DEF Restart, Writable, InPass
<1>14. CASE (\E r \in Apps : Change(r)) \/ UNCHANGED vars
  BY <1>14 DEF Change, vars, Writable, InPass
<1> QED BY <1>1, <1>2, <1>3, <1>4, <1>5, <1>6, <1>7, <1>8, <1>9, <1>10, <1>11, <1>12, <1>13,
           <1>14 DEF Next, Worker, Refresher

(* Only creations, markers and the refresher store.                          *)
LEMMA Storing ==
  ASSUME Typed, [Next]_vars, NEW r \in Apps, r \notin stored, r \in stored'
  PROVE  \/ r \notin begun
         \/ pc["worker"] = "record" /\ at["worker"] = r
         \/ at["refresher"] = r
<1> USE DEF disk, dest, local, pass, bounds, history
<1>1. CASE \E s \in Apps : StartCreation(s) \/ StoreMarker(s) \/ StartDeletion(s) \/ Change(s)
  BY <1>1 DEF StartCreation, StoreMarker, StartDeletion, Change
<1>2. CASE AddSources \/ SaveCreated \/ RemoveSources \/ DeleteRecord
  BY <1>2 DEF AddSources, SaveCreated, RemoveSources, DeleteRecord
<1>3. CASE StartPass \/ NextApp \/ PassOver \/ RefreshSources \/ GroupMissing \/ SaveRefreshed
  BY <1>3 DEF StartPass, NextApp, PassOver, RefreshSources, GroupMissing, SaveRefreshed
<1>4. CASE (\E p \in Procs : CallFails(p)) \/ Restart \/ UNCHANGED vars
  BY <1>4 DEF CallFails, Restart, vars
<1> QED BY <1>1, <1>2, <1>3, <1>4 DEF Next, Worker, Refresher, Procs

(* A deleted app connection is not stored again by a refresh that listed it  *)
(* before, outside the race NoReturn names                                   *)
(* (awi_connection_controller.go:210-236).                                   *)
THEOREM DeletedDoesNotReturn == Spec => NoReturn
<1>1. Init => Writable
  BY Sorted DEF Init, Writable, InPass, Procs
<1>2. Typed /\ Steady /\ Writable /\ [Next]_vars => Writable'
  BY WritableStep
<1>3. Typed /\ Writable /\ [Next]_vars =>
        [\A r \in Apps :
           r \in begun /\ r \notin stored /\ r \in stored'
             => r \in raced \/ (at["worker"] = r /\ pc["worker"] = "record")]_vars
  BY Storing DEF Writable, InPass
<1> QED BY <1>1, <1>2, <1>3, TypedAlways, SteadyAlways, PTL DEF Spec, NoReturn
-----------------------------------------------------------------------------
(* The steps of a pass leave less of it to do.                               *)
LEMMA RefresherShortens ==
  ASSUME Typed, Refresher, pc["refresher"] # "idle"
  PROVE  \/ pc'["refresher"] = "idle"
         \/ listed' \subseteq listed /\ listed' # listed
         \/ listed' = listed /\ StepsLeft[pc'["refresher"]] < StepsLeft[pc["refresher"]]
<1> USE DEF disk, dest, local, pass, bounds, history, Goto, Procs
<1> DEFINE here == pc["refresher"]
<1>1. /\ here \in {"next", "apply", "save", "again"}
      /\ StepsLeft["apply"] = 3 /\ StepsLeft["save"] = 2
      /\ StepsLeft["again"] = 1 /\ StepsLeft["next"] = 0
  BY DEF Typed, Places, StepsLeft
<1>2. CASE NextApp
  BY <1>2 DEF NextApp, Remaining
<1>3. CASE PassOver \/ GroupMissing \/ CallFails("refresher")
  BY <1>3 DEF PassOver, GroupMissing, CallFails, EndPass, Typed, TypeOK
<1>4. CASE RefreshSources
  <2>1. pc'["refresher"] \in {"again", "save"} /\ listed' = listed /\ here = "apply"
    BY <1>4 DEF RefreshSources, Typed, TypeOK
  <2> QED BY <1>1, <2>1
<1>5. CASE SaveRefreshed
  <2>1. /\ here = "save" => pc'["refresher"] = "again"
        /\ here = "again" => pc'["refresher"] = "next"
        /\ here \in {"save", "again"} /\ listed' = listed
    BY <1>5 DEF SaveRefreshed, Typed, TypeOK
  <2> QED BY <1>1, <2>1
<1>6. ~StartPass
  BY DEF StartPass
<1> QED BY <1>2, <1>3, <1>4, <1>5, <1>6 DEF Refresher

(* What the worker and the cloud do does not touch a pass; a restart ends it. *)
LEMMA PassUntouched ==
  ASSUME Typed, [Next]_vars, ~Refresher
  PROVE  pc'["refresher"] = "idle" \/ UNCHANGED <<listed, pc["refresher"]>>
<1> USE DEF disk, dest, local, pass, bounds, history, Goto, Procs, Typed, TypeOK
<1>1. CASE \E r \in Apps : StartCreation(r) \/ StoreMarker(r) \/ StartDeletion(r) \/ Change(r)
  BY <1>1 DEF StartCreation, StoreMarker, StartDeletion, Change
<1>2. CASE AddSources \/ SaveCreated \/ RemoveSources \/ DeleteRecord \/ CallFails("worker")
  BY <1>2 DEF AddSources, SaveCreated, RemoveSources, DeleteRecord, CallFails
<1>3. CASE Restart \/ UNCHANGED vars
  BY <1>3 DEF Restart, vars
<1> QED BY <1>1, <1>2, <1>3 DEF Next, Worker

(* A refresh pass draws to its end whatever happens meanwhile: of Converges  *)
(* the part that needs no fairness                                           *)
(* (awi_connection_controller.go:210-236).                                   *)
THEOREM PassesShorten == Spec => PassShortens
<1>1. Typed /\ [Next]_vars =>
        [pc["refresher"] # "idle" =>
           IF Refresher
           THEN \/ pc'["refresher"] = "idle"
                \/ listed' \subseteq listed /\ listed' # listed
                \/ listed' = listed /\ StepsLeft[pc'["refresher"]] < StepsLeft[pc["refresher"]]
           ELSE pc'["refresher"] = "idle" \/ UNCHANGED <<listed, pc["refresher"]>>]_vars
  BY RefresherShortens, PassUntouched
<1> QED BY <1>1, TypedAlways, PTL DEF Spec, PassShortens
=============================================================================
