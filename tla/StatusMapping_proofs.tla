----------------------- MODULE StatusMapping_proofs -----------------------
(***************************************************************************)
(* Proofs about StatusMapping for all connections and clouds and any       *)
(* number of failing calls and restarts.                                   *)
(***************************************************************************)
EXTENDS StatusMapping, TLAPS

(* A goroutine at work on a connection knows which one. *)
Placed == \A p \in Procs : pc[p] \in AtWork => conn[p] \in Conns

(* A record the mapper may merge was listed with the config it has. *)
ListedConfig ==
  mapper = "write" => \A c \in owned \ clobbered : listed.records[c].config

(* A connection vManage has shown since the pass began has been seen, or its *)
(* cloud is still to be polled.                                              *)
Unpolled == {unpolled[i] : i \in 1..Len(unpolled)}
Polled ==
  /\ \A c \in reported : mapping[c] # "absent" /\ (seen[c] # "absent" \/ CloudOf[c] \in Unpolled)
  /\ mapper = "write" => unpolled = <<>>

IInv == TypeOK /\ Placed /\ ConfigKept /\ ListedConfig /\ Polled
-----------------------------------------------------------------------------
(* Steps that touch neither records nor the mapper's list. *)
LEMMA QuietConfig ==
  ASSUME ConfigKept, ListedConfig, UNCHANGED <<records, owned, clobbered, mapper, listed>>
  PROVE  ConfigKept' /\ ListedConfig'
BY DEF ConfigKept, ListedConfig

(* Steps that touch neither vManage nor what the mapper has polled. *)
LEMMA QuietPolled ==
  ASSUME Polled, UNCHANGED <<mapping, mapper, unpolled, seen, reported>>
  PROVE  Polled'
BY DEF Polled, Unpolled

(* The values for "nothing there" are of their types. *)
LEMMA EmptyTyped ==
  /\ NoRecord \in Records
  /\ NoRecords \in [Conns -> Records]
  /\ NoReports \in [Conns -> Reports]
  /\ Nothing \in [records : [Conns -> Records], watch : BOOLEAN]
<1>1. NoRecord \in Records
  BY DEF NoRecord, Records
<1>2. NoRecords \in [Conns -> Records]
  BY <1>1 DEF NoRecords
<1>3. NoReports \in [Conns -> Reports]
  BY DEF NoReports, Reports
<1> QED BY <1>1, <1>2, <1>3 DEF Nothing

(* The invariant holds initially ... *)
LEMMA InitIInv == Init => IInv
<1> USE CloudAssumption, WatchedAssumption, FaultsAssumption DEF Procs, AtWork
<1> SUFFICES ASSUME Init PROVE IInv
  OBVIOUS
<1>1. TypeOK
  <2>1. watch \in BOOLEAN /\ mapping \in [Conns -> Reports]
    BY DEF Init, Reports
  <2> QED BY <2>1, EmptyTyped DEF Init, TypeOK
<1>2. Placed /\ ConfigKept /\ ListedConfig /\ Polled
  BY DEF Init, Placed, ConfigKept, ListedConfig, Polled
<1> QED BY <1>1, <1>2 DEF IInv

(* From here on: each action preserves the invariant, type and place first,  *)
(* then the configs, then what the mapper has polled.                        *)

(* vManage takes a connection off its lists only when it is not wanted.      *)
LEMMA SettleKeeps ==
  ASSUME IInv, NEW c \in Conns, Settle(c)
  PROVE  IInv'
<1> USE CloudAssumption, WatchedAssumption, FaultsAssumption DEF Procs, AtWork
<1>1. TypeOK' /\ Placed'
  BY DEF IInv, TypeOK, Placed, Records, NoRecord, Reports, Statuses, Settle, stored, vManage,
         local, pass, history
<1>2. ConfigKept' /\ ListedConfig'
  BY QuietConfig DEF IInv, Settle, stored, vManage, local, pass, history
<1>3. Polled'
  BY DEF IInv, TypeOK, Placed, Polled, Unpolled, NoReports, Settle, stored, vManage, local, pass,
         history
<1> QED BY <1>1, <1>2, <1>3 DEF IInv

(* TakeConnect preserves the invariant.                                     *)
LEMMA TakeConnectKeeps ==
  ASSUME IInv, TakeConnect
  PROVE  IInv'
<1> USE CloudAssumption, WatchedAssumption, FaultsAssumption DEF Procs, AtWork
<1>1. TypeOK' /\ Placed'
  <2>1. watch' \in BOOLEAN
    BY DEF IInv, TypeOK, TakeConnect
  <2> QED BY <2>1 DEF IInv, TypeOK, Placed, TakeConnect, Goto, stored, vManage, local, pass,
                      history
<1>2. ConfigKept' /\ ListedConfig'
  BY QuietConfig DEF IInv, TakeConnect, Goto, stored, vManage, local, pass, history
<1>3. Polled'
  BY QuietPolled DEF IInv, TakeConnect, Goto, stored, vManage, local, pass, history
<1> QED BY <1>1, <1>2, <1>3 DEF IInv

(* StartPass preserves the invariant.                                       *)
LEMMA StartPassKeeps ==
  ASSUME IInv, StartPass
  PROVE  IInv'
<1> USE CloudAssumption, WatchedAssumption, FaultsAssumption DEF Procs, AtWork
<1>1. TypeOK' /\ Placed'
  BY DEF IInv, TypeOK, Placed, Records, NoRecord, Reports, Statuses, StartPass, Goto, stored,
         vManage, local, pass, history
<1>2. ConfigKept' /\ ListedConfig'
  BY QuietConfig DEF IInv, StartPass, Goto, stored, vManage, local, pass, history
<1>3. Polled'
  BY QuietPolled DEF IInv, StartPass, Goto, stored, vManage, local, pass, history
<1> QED BY <1>1, <1>2, <1>3 DEF IInv

(* BeginItem preserves the invariant.                                       *)
LEMMA BeginItemKeeps ==
  ASSUME IInv, NEW p \in Procs, BeginItem(p)
  PROVE  IInv'
<1> USE CloudAssumption, WatchedAssumption, FaultsAssumption DEF Procs, AtWork
<1>1. TypeOK' /\ Placed'
  BY DEF IInv, TypeOK, Placed, Records, NoRecord, Reports, Statuses, BeginItem, Goto, stored,
         vManage, local, pass, history
<1>2. ConfigKept' /\ ListedConfig'
  BY QuietConfig DEF IInv, BeginItem, Goto, stored, vManage, local, pass, history
<1>3. Polled'
  BY QuietPolled DEF IInv, BeginItem, Goto, stored, vManage, local, pass, history
<1> QED BY <1>1, <1>2, <1>3 DEF IInv

(* LookUp preserves the invariant.                                          *)
LEMMA LookUpKeeps ==
  ASSUME IInv, NEW p \in Procs, LookUp(p)
  PROVE  IInv'
<1> USE CloudAssumption, WatchedAssumption, FaultsAssumption DEF Procs, AtWork
<1>1. TypeOK' /\ Placed'
  BY DEF IInv, TypeOK, Placed, Records, NoRecord, Reports, Statuses, LookUp, Goto, stored,
         vManage, local, pass, history
<1>2. ConfigKept' /\ ListedConfig'
  BY QuietConfig DEF IInv, LookUp, Goto, stored, vManage, local, pass, history
<1>3. Polled'
  BY QuietPolled DEF IInv, LookUp, Goto, stored, vManage, local, pass, history
<1> QED BY <1>1, <1>2, <1>3 DEF IInv

(* Enable preserves the invariant.                                          *)
LEMMA EnableKeeps ==
  ASSUME IInv, NEW p \in Procs, Enable(p)
  PROVE  IInv'
<1> USE CloudAssumption, WatchedAssumption, FaultsAssumption DEF Procs, AtWork
<1>1. TypeOK' /\ Placed'
  BY DEF IInv, TypeOK, Placed, Records, NoRecord, Reports, Statuses, Enable, Goto,
         EnableInVManage, stored, vManage, local, pass, history
<1>2. ConfigKept' /\ ListedConfig'
  BY QuietConfig DEF IInv, Enable, Goto, EnableInVManage, stored, vManage, local, pass, history
<1>3. Polled'
  BY DEF IInv, TypeOK, Placed, Polled, Unpolled, NoReports, Enable, Goto, EnableInVManage,
         stored, vManage, local, pass, history
<1> QED BY <1>1, <1>2, <1>3 DEF IInv

(* A record saved between the mapper's two transactions is noted. *)
LEMMA SaveKeeps ==
  ASSUME IInv, NEW p \in Procs, Save(p)
  PROVE  IInv'
<1> USE CloudAssumption, WatchedAssumption, FaultsAssumption DEF Procs, AtWork
<1>1. TypeOK' /\ Placed'
  BY DEF IInv, TypeOK, Placed, Records, NoRecord, Reports, Statuses, Save, Goto, stored, vManage,
         local, pass, history
<1>2. ConfigKept' /\ ListedConfig'
  BY DEF IInv, TypeOK, Placed, ConfigKept, ListedConfig, NoRecord, Save, Goto, stored, vManage,
         local, pass, history
<1>3. Polled'
  BY QuietPolled DEF IInv, Save, Goto, stored, vManage, local, pass, history
<1> QED BY <1>1, <1>2, <1>3 DEF IInv

(* EndLoop preserves the invariant.                                         *)
LEMMA EndLoopKeeps ==
  ASSUME IInv, NEW p \in Procs, EndLoop(p)
  PROVE  IInv'
<1> USE CloudAssumption, WatchedAssumption, FaultsAssumption DEF Procs, AtWork
<1>1. TypeOK' /\ Placed'
  BY DEF IInv, TypeOK, Placed, Records, NoRecord, Reports, Statuses, EndLoop, Goto, stored,
         vManage, local, pass, history
<1>2. ConfigKept' /\ ListedConfig'
  BY QuietConfig DEF IInv, EndLoop, Goto, stored, vManage, local, pass, history
<1>3. Polled'
  BY QuietPolled DEF IInv, EndLoop, Goto, stored, vManage, local, pass, history
<1> QED BY <1>1, <1>2, <1>3 DEF IInv

(* CallFails preserves the invariant.                                       *)
LEMMA CallFailsKeeps ==
  ASSUME IInv, NEW p \in Procs, CallFails(p)
  PROVE  IInv'
<1> USE CloudAssumption, WatchedAssumption, FaultsAssumption DEF Procs, AtWork
<1>1. TypeOK' /\ Placed'
  <2>1. enabled' \subseteq Conns /\ mapping' \in [Conns -> Reports]
    BY DEF IInv, TypeOK, Placed, CallFails, EnableInVManage, vManage, Reports
  <2> QED BY <2>1 DEF IInv, TypeOK, Placed, CallFails, Goto, Fault, stored, local, pass, history
<1>2. ConfigKept' /\ ListedConfig'
  BY QuietConfig DEF IInv, CallFails, Goto, Fault, EnableInVManage, stored, vManage, local, pass,
                     history
<1>3. Polled'
  BY DEF IInv, TypeOK, Placed, Polled, Unpolled, NoReports, CallFails, Goto, Fault,
         EnableInVManage, stored, vManage, local, pass, history
<1> QED BY <1>1, <1>2, <1>3 DEF IInv

(* TakeDisconnect preserves the invariant.                                  *)
LEMMA TakeDisconnectKeeps ==
  ASSUME IInv, TakeDisconnect
  PROVE  IInv'
<1> USE CloudAssumption, WatchedAssumption, FaultsAssumption DEF Procs, AtWork
<1>1. TypeOK' /\ Placed'
  BY DEF IInv, TypeOK, Placed, Records, NoRecord, Reports, Statuses, TakeDisconnect, Goto,
         stored, vManage, local, pass, history
<1>2. ConfigKept' /\ ListedConfig'
  BY QuietConfig DEF IInv, TakeDisconnect, Goto, stored, vManage, local, pass, history
<1>3. Polled'
  BY QuietPolled DEF IInv, TakeDisconnect, Goto, stored, vManage, local, pass, history
<1> QED BY <1>1, <1>2, <1>3 DEF IInv

(* DropWatch preserves the invariant.                                       *)
LEMMA DropWatchKeeps ==
  ASSUME IInv, DropWatch
  PROVE  IInv'
<1> USE CloudAssumption, WatchedAssumption, FaultsAssumption DEF Procs, AtWork
<1>1. TypeOK' /\ Placed'
  BY DEF IInv, TypeOK, Placed, Records, NoRecord, Reports, Statuses, DropWatch, stored, vManage,
         local, pass, history
<1>2. ConfigKept' /\ ListedConfig'
  BY QuietConfig DEF IInv, DropWatch, stored, vManage, local, pass, history
<1>3. Polled'
  BY QuietPolled DEF IInv, DropWatch, stored, vManage, local, pass, history
<1> QED BY <1>1, <1>2, <1>3 DEF IInv

(* DeleteLookUp preserves the invariant.                                    *)
LEMMA DeleteLookUpKeeps ==
  ASSUME IInv, DeleteLookUp
  PROVE  IInv'
<1> USE CloudAssumption, WatchedAssumption, FaultsAssumption DEF Procs, AtWork
<1> DEFINE c == conn["worker"]
<1>c. c \in Conns
  BY DEF IInv, TypeOK, Placed, DeleteLookUp
<1>1. TypeOK' /\ Placed'
  <2>1. UNCHANGED <<records, owned, clobbered>> \/ RemoveRecord(c)
    BY DEF DeleteLookUp
  <2>2. \/ Goto("worker", "loop", None)
        \/ Goto("worker", "disable", c)
    BY DEF DeleteLookUp
  <2>3. records' \in [Conns -> Records] /\ owned' \subseteq Conns /\ clobbered' \subseteq owned'
    <3>1. CASE UNCHANGED <<records, owned, clobbered>>
      BY <3>1 DEF IInv, TypeOK
    <3>2. CASE RemoveRecord(c)
      <4>1. /\ records \in [Conns -> Records] /\ records' = [records EXCEPT ![c] = NoRecord]
            /\ owned' = owned \ {c} /\ clobbered' = clobbered \ {c}
        BY <3>2 DEF IInv, TypeOK, RemoveRecord
      <4> HIDE DEF c
      <4>2. records' \in [Conns -> Records]
        BY <4>1, EmptyTyped
      <4> QED BY <4>1, <4>2 DEF IInv, TypeOK
    <3> QED BY <2>1, <3>1, <3>2
  <2>4. pc' \in [Procs -> {"idle", "loop"} \cup AtWork] /\ conn' \in [Procs -> Conns \cup {None}] /\ Placed'
    BY <1>c, <2>2 DEF IInv, TypeOK, Placed, Goto
  <2> QED BY <2>3, <2>4 DEF IInv, TypeOK, DeleteLookUp, stored, vManage, local, pass, history
<1>2. ConfigKept' /\ ListedConfig'
  BY DEF IInv, TypeOK, Placed, ConfigKept, ListedConfig, NoRecord, DeleteLookUp, Goto,
         RemoveRecord, stored, vManage, local, pass, history
<1>3. Polled'
  BY QuietPolled DEF IInv, DeleteLookUp, Goto, RemoveRecord, stored, vManage, local, pass, history
<1> QED BY <1>1, <1>2, <1>3 DEF IInv

(* Disable preserves the invariant.                                         *)
LEMMA DisableKeeps ==
  ASSUME IInv, Disable
  PROVE  IInv'
<1> USE CloudAssumption, WatchedAssumption, FaultsAssumption DEF Procs, AtWork
<1>1. TypeOK' /\ Placed'
  BY DEF IInv, TypeOK, Placed, Records, NoRecord, Reports, Statuses, Disable, Goto, stored,
         vManage, local, pass, history
<1>2. ConfigKept' /\ ListedConfig'
  BY QuietConfig DEF IInv, Disable, Goto, stored, vManage, local, pass, history
<1>3. Polled'
  BY QuietPolled DEF IInv, Disable, Goto, stored, vManage, local, pass, history
<1> QED BY <1>1, <1>2, <1>3 DEF IInv

(* DeleteRecord preserves the invariant.                                    *)
LEMMA DeleteRecordKeeps ==
  ASSUME IInv, DeleteRecord
  PROVE  IInv'
<1> USE CloudAssumption, WatchedAssumption, FaultsAssumption DEF Procs, AtWork
<1>1. TypeOK' /\ Placed'
  BY DEF IInv, TypeOK, Placed, Records, NoRecord, Reports, Statuses, DeleteRecord, Goto,
         RemoveRecord, stored, vManage, local, pass, history
<1>2. ConfigKept' /\ ListedConfig'
  BY DEF IInv, TypeOK, Placed, ConfigKept, ListedConfig, NoRecord, DeleteRecord, Goto,
         RemoveRecord, stored, vManage, local, pass, history
<1>3. Polled'
  BY QuietPolled DEF IInv, DeleteRecord, Goto, RemoveRecord, stored, vManage, local, pass, history
<1> QED BY <1>1, <1>2, <1>3 DEF IInv

(* StartMapping preserves the invariant.                                    *)
LEMMA StartMappingKeeps ==
  ASSUME IInv, StartMapping
  PROVE  IInv'
<1> USE CloudAssumption, WatchedAssumption, FaultsAssumption DEF Procs, AtWork
<1>1. TypeOK' /\ Placed'
  BY DEF IInv, TypeOK, Placed, Records, NoRecord, Reports, Statuses, StartMapping, stored,
         vManage, local, pass, history
<1>2. ConfigKept' /\ ListedConfig'
  BY DEF IInv, ConfigKept, ListedConfig, StartMapping, stored, history
<1>3. Polled'
  BY DEF IInv, TypeOK, Polled, Unpolled, CloudSet, StartMapping, stored, vManage, local, pass,
         history
<1> QED BY <1>1, <1>2, <1>3 DEF IInv

(* What the polled cloud reports is in seen from now on. *)
LEMMA PollKeeps ==
  ASSUME IInv, Poll
  PROVE  IInv'
<1> USE CloudAssumption, WatchedAssumption, FaultsAssumption DEF Procs, AtWork
<1>1. TypeOK' /\ Placed'
  BY DEF IInv, TypeOK, Placed, Records, NoRecord, Reports, Statuses, Poll, stored, vManage,
         local, pass, history
<1>2. ConfigKept' /\ ListedConfig'
  BY QuietConfig DEF IInv, Poll, stored, vManage, local, pass, history
<1>3. Polled'
  <2> SUFFICES ASSUME NEW c \in reported
               PROVE  seen'[c] # "absent" \/ CloudOf[c] \in Unpolled'
    BY DEF IInv, Polled, Poll, vManage, history
  <2>1. CASE CloudOf[c] = Head(unpolled)
    BY <2>1 DEF IInv, TypeOK, Polled, Poll
  <2>2. CASE CloudOf[c] # Head(unpolled)
    <3>1. seen'[c] = seen[c]
      BY <2>2 DEF IInv, TypeOK, Poll
    <3>2. ASSUME NEW i \in 1..Len(unpolled), CloudOf[c] = unpolled[i]
          PROVE  i - 1 \in 1..Len(unpolled') /\ unpolled'[i - 1] = CloudOf[c]
      BY <2>2, <3>2 DEF IInv, TypeOK, Poll
    <3> QED BY <3>1, <3>2 DEF IInv, Polled, Unpolled
  <2> QED BY <2>1, <2>2
<1> QED BY <1>1, <1>2, <1>3 DEF IInv

(* PollFails preserves the invariant.                                       *)
LEMMA PollFailsKeeps ==
  ASSUME IInv, PollFails
  PROVE  IInv'
<1> USE CloudAssumption, WatchedAssumption, FaultsAssumption DEF Procs, AtWork
<1>1. TypeOK' /\ Placed'
  BY EmptyTyped DEF IInv, TypeOK, Placed, PollFails, Fault, EndMapping, stored, vManage, local,
                    pass, history
<1>2. ConfigKept' /\ ListedConfig'
  BY DEF IInv, TypeOK, Placed, ConfigKept, ListedConfig, NoRecord, PollFails, Fault, EndMapping,
         stored, vManage, local, pass, history
<1>3. Polled'
  BY DEF IInv, TypeOK, Placed, Polled, Unpolled, NoReports, PollFails, Fault, EndMapping, stored,
         vManage, local, pass, history
<1> QED BY <1>1, <1>2, <1>3 DEF IInv

(* What is listed has the configs the records have. *)
LEMMA ListKeeps ==
  ASSUME IInv, List
  PROVE  IInv'
<1> USE CloudAssumption, WatchedAssumption, FaultsAssumption DEF Procs, AtWork
<1>1. TypeOK' /\ Placed'
  BY DEF IInv, TypeOK, Placed, Records, NoRecord, Reports, Statuses, List, stored, vManage,
         local, pass, history
<1>2. ConfigKept' /\ ListedConfig'
  BY DEF IInv, TypeOK, Placed, ConfigKept, ListedConfig, NoRecord, List, stored, vManage, local,
         pass, history
<1>3. Polled'
  BY DEF IInv, TypeOK, Placed, Polled, Unpolled, NoReports, List, stored, vManage, local, pass,
         history
<1> QED BY <1>1, <1>2, <1>3 DEF IInv

(* A listed record keeps its config. *)
LEMMA WriteKeeps ==
  ASSUME IInv, Write
  PROVE  IInv'
<1> USE CloudAssumption, WatchedAssumption, FaultsAssumption DEF Procs, AtWork
<1>1. TypeOK' /\ Placed'
  <2>1. ASSUME NEW c \in Conns PROVE Merge(c) \in Records
    <3>1. listed.records[c] \in Records /\ records[c] \in Records /\ seen[c] \in Reports
      BY DEF IInv, TypeOK
    <3>2. listed.records[c].config \in BOOLEAN
      BY <3>1 DEF Records
    <3>3. seen[c] # "absent" => StatusOf(seen[c]) \in Statuses
      BY <3>1 DEF Reports, StatusOf, Statuses
    <3>4. CASE seen[c] # "absent"
      BY <3>2, <3>3, <3>4 DEF Merge, Records
    <3>5. CASE seen[c] = "absent"
      BY <3>1, <3>5, EmptyTyped DEF Merge
    <3> QED BY <3>4, <3>5
  <2>2. records' \in [Conns -> Records]
    BY <2>1 DEF Write
  <2>3. watch' \in BOOLEAN
    BY DEF Write
  <2> QED BY <2>2, <2>3, EmptyTyped
          DEF IInv, TypeOK, Placed, Write, EndMapping, stored, vManage, local, pass, history
<1>2. ConfigKept' /\ ListedConfig'
  BY DEF IInv, TypeOK, Placed, ConfigKept, ListedConfig, NoRecord, Write, EndMapping, Merge,
         StatusOf, stored, vManage, local, pass, history
<1>3. Polled'
  BY DEF IInv, TypeOK, Placed, Polled, Unpolled, NoReports, Write, EndMapping, Merge, StatusOf,
         stored, vManage, local, pass, history
<1> QED BY <1>1, <1>2, <1>3 DEF IInv

(* WriteFails preserves the invariant.                                      *)
LEMMA WriteFailsKeeps ==
  ASSUME IInv, WriteFails
  PROVE  IInv'
<1> USE CloudAssumption, WatchedAssumption, FaultsAssumption DEF Procs, AtWork
<1>1. TypeOK' /\ Placed'
  BY EmptyTyped DEF IInv, TypeOK, Placed, WriteFails, Fault, EndMapping, stored, vManage, local,
                    pass, history
<1>2. ConfigKept' /\ ListedConfig'
  BY DEF IInv, TypeOK, Placed, ConfigKept, ListedConfig, NoRecord, WriteFails, Fault, EndMapping,
         stored, vManage, local, pass, history
<1>3. Polled'
  BY DEF IInv, TypeOK, Placed, Polled, Unpolled, NoReports, WriteFails, Fault, EndMapping,
         stored, vManage, local, pass, history
<1> QED BY <1>1, <1>2, <1>3 DEF IInv

(* Restart preserves the invariant.                                         *)
LEMMA RestartKeeps ==
  ASSUME IInv, Restart
  PROVE  IInv'
<1> USE CloudAssumption, WatchedAssumption, FaultsAssumption DEF Procs, AtWork
<1>1. TypeOK' /\ Placed'
  BY EmptyTyped DEF IInv, TypeOK, Placed, Restart, Fault, EndMapping, stored, vManage, local,
                    pass, history
<1>2. ConfigKept' /\ ListedConfig'
  BY DEF IInv, TypeOK, Placed, ConfigKept, ListedConfig, NoRecord, Restart, Fault, EndMapping,
         stored, vManage, local, pass, history
<1>3. Polled'
  BY DEF IInv, TypeOK, Placed, Polled, Unpolled, NoReports, Restart, Fault, EndMapping, stored,
         vManage, local, pass, history
<1> QED BY <1>1, <1>2, <1>3 DEF IInv

(* ... and every step preserves it. *)
LEMMA NextKeeps == IInv /\ [Next]_vars => IInv'
<1> SUFFICES ASSUME IInv, [Next]_vars PROVE IInv'
  OBVIOUS
<1>1. CASE \E p \in Procs : Create(p)
  BY <1>1, BeginItemKeeps, LookUpKeeps, EnableKeeps, SaveKeeps, EndLoopKeeps, CallFailsKeeps
     DEF Create
<1>2. CASE Delete
  BY <1>2, TakeDisconnectKeeps, DropWatchKeeps, DeleteLookUpKeeps, DisableKeeps, DeleteRecordKeeps
     DEF Delete
<1>3. CASE Mapper
  BY <1>3, StartMappingKeeps, PollKeeps, PollFailsKeeps, ListKeeps, WriteKeeps, WriteFailsKeeps
     DEF Mapper
<1>4. CASE UNCHANGED vars
  BY <1>4 DEF vars, stored, vManage, local, pass, history, IInv, TypeOK, Placed, ConfigKept,
              ListedConfig, Polled, Unpolled
<1> QED BY <1>1, <1>2, <1>3, <1>4, SettleKeeps, TakeConnectKeeps, StartPassKeeps, RestartKeeps
        DEF Next

(* The inductive invariant holds of every behaviour. *)
THEOREM Invariance == Spec => []IInv
BY InitIInv, NextKeeps, PTL DEF Spec
-----------------------------------------------------------------------------
(* The variables keep their types. *)
THEOREM TypeCorrect == Spec => []TypeOK
<1>1. IInv => TypeOK
  BY DEF IInv
<1> QED BY <1>1, Invariance, PTL

(* The mapping never costs a record the config its user gave, unless the     *)
(* record was saved between the two transactions of an update                *)
(* (db.go:167-220).                                                          *)
THEOREM ConfigIsKept == Spec => []ConfigKept
<1>1. IInv => ConfigKept
  BY DEF IInv
<1> QED BY <1>1, Invariance, PTL

(* The step that ends a pass without a fault is Write.                       *)
LEMMA OnlyWriteEnds ==
  ASSUME IInv, [Next]_vars, mapper = "write", mapper' = "idle", faults' = faults
  PROVE  Write
<1>1. ~Fault
  BY FaultsAssumption DEF IInv, TypeOK, Fault
<1>2. ~(\E d \in Conns : Settle(d)) /\ ~TakeConnect /\ ~StartPass /\ ~Restart /\ ~UNCHANGED vars
  BY <1>1 DEF Settle, TakeConnect, StartPass, Restart, vars, pass
<1>3. ~\E p \in Procs : Create(p)
  BY DEF Create, BeginItem, LookUp, Enable, Save, EndLoop, CallFails, pass
<1>4. ~Delete
  BY DEF Delete, TakeDisconnect, DropWatch, DeleteLookUp, Disable, DeleteRecord, pass
<1> QED BY <1>1, <1>2, <1>3, <1>4
        DEF Next, Mapper, StartMapping, Poll, PollFails, List, WriteFails

(* That step gives a record to everything vManage has shown since the pass   *)
(* began.                                                                    *)
LEMMA WrittenIsRecorded ==
  ASSUME IInv, [Next]_vars, mapper = "write", mapper' = "idle", faults' = faults,
         NEW c \in reported
  PROVE  records'[c] # NoRecord
<1>1. c \in Conns /\ seen[c] \in Reports
  BY DEF IInv, TypeOK
<1>2. seen[c] # "absent"
  BY DEF IInv, Polled, Unpolled
<1>3. Write
  BY OnlyWriteEnds
<1>4. records'[c] = Merge(c)
  BY <1>1, <1>3 DEF Write
<1> QED BY <1>1, <1>2, <1>4 DEF Merge, StatusOf, Reports, NoRecord

(* A connection vManage shows throughout a pass has a record when the pass   *)
(* has written (awi_connection_controller.go:1726-1754, db.go:167-220).      *)
THEOREM ReportedGetsRecord == Spec => ReportedIsRecorded
<1>1. IInv /\ [Next]_vars =>
        [mapper = "write" /\ mapper' = "idle" /\ faults' = faults
           => \A c \in reported : records'[c] # NoRecord]_vars
  BY WrittenIsRecorded
<1> QED BY <1>1, Invariance, PTL DEF Spec, ReportedIsRecorded
-----------------------------------------------------------------------------
(* Whatever has a record as the mapper writes was listed, or was saved since. *)
ListedAll ==
  mapper = "write" =>
    \A c \in Conns : records[c] # NoRecord => listed.records[c] # NoRecord \/ c \in clobbered

(* Every step keeps that.                                                    *)
LEMMA ListedAllStep ==
  ASSUME IInv, ListedAll, [Next]_vars
  PROVE  ListedAll'
<1> USE DEF stored, vManage, local, pass, history
<1>1. ASSUME NEW c \in Conns, RemoveRecord(c), UNCHANGED pass PROVE ListedAll'
  BY <1>1 DEF RemoveRecord, ListedAll, IInv, TypeOK
<1>2. ASSUME NEW p \in Procs, Create(p) PROVE ListedAll'
  <2>1. CASE Save(p)
    <3>1. conn[p] \in Conns
      BY <2>1 DEF Save, IInv, Placed, AtWork
    <3> QED BY <2>1, <3>1 DEF Save, ListedAll, IInv, TypeOK
  <2>2. CASE BeginItem(p) \/ LookUp(p) \/ Enable(p) \/ EndLoop(p) \/ CallFails(p)
    BY <2>2 DEF BeginItem, LookUp, Enable, EndLoop, CallFails, ListedAll
  <2> QED BY <1>2, <2>1, <2>2 DEF Create
<1>3. ASSUME Delete PROVE ListedAll'
  <2>1. CASE TakeDisconnect \/ DropWatch \/ Disable
    BY <2>1 DEF TakeDisconnect, DropWatch, Disable, ListedAll
  <2>2. CASE DeleteLookUp
    <3>1. conn["worker"] \in Conns /\ UNCHANGED pass
      BY <2>2 DEF DeleteLookUp, IInv, Placed, AtWork, Procs
    <3>2. RemoveRecord(conn["worker"]) \/ UNCHANGED <<records, owned, clobbered>>
      BY <2>2 DEF DeleteLookUp
    <3>3. CASE UNCHANGED <<records, owned, clobbered>>
      BY <3>1, <3>3 DEF ListedAll
    <3> QED BY <1>1, <3>1, <3>2, <3>3
  <2>3. CASE DeleteRecord
    <3>1. conn["worker"] \in Conns /\ UNCHANGED pass
      BY <2>3 DEF DeleteRecord, IInv, Placed, AtWork, Procs
    <3> QED BY <1>1, <2>3, <3>1 DEF DeleteRecord
  <2> QED BY <1>3, <2>1, <2>2, <2>3 DEF Delete
<1>4. ASSUME Mapper PROVE ListedAll'
  BY <1>4 DEF Mapper, StartMapping, Poll, PollFails, List, Write, WriteFails, EndMapping, ListedAll
<1>5. CASE (\E c \in Conns : Settle(c)) \/ TakeConnect \/ StartPass
  BY <1>5 DEF Settle, TakeConnect, StartPass, ListedAll
<1>6. CASE Restart
  BY <1>6 DEF Restart, EndMapping, ListedAll
<1>7. CASE UNCHANGED vars
  BY <1>7 DEF vars, ListedAll
<1> QED BY <1>2, <1>3, <1>4, <1>5, <1>6, <1>7 DEF Next

(* The step that ends a pass without a fault leaves what the pass saw.       *)
LEMMA WrittenShows ==
  ASSUME IInv, ListedAll, [Next]_vars, mapper = "write", mapper' = "idle", faults' = faults,
         NEW c \in Conns
  PROVE  ShowsNext(c, seen[c]) \/ (c \in clobbered /\ seen[c] = "absent")
<1>1. seen[c] \in Reports
  BY DEF IInv, TypeOK
<1>2. records'[c] = Merge(c)
  BY OnlyWriteEnds DEF Write
<1>3. CASE seen[c] # "absent"
  BY <1>1, <1>2, <1>3 DEF Merge, ShowsNext
<1>4. CASE seen[c] = "absent"
  BY <1>2, <1>4 DEF Merge, ShowsNext, ListedAll
<1> QED BY <1>3, <1>4

(* A completed update leaves every connection as the pass saw it in vManage, *)
(* but for a record saved between its transactions of a connection that was  *)
(* not reported (db.go:167-220).                                             *)
THEOREM UpdatesAreExact == Spec => UpdateShows
<1>1. Init => ListedAll
  BY DEF Init, ListedAll
<1>2. IInv /\ ListedAll /\ [Next]_vars => ListedAll'
  BY ListedAllStep
<1>3. IInv /\ ListedAll /\ [Next]_vars =>
        [mapper = "write" /\ mapper' = "idle" /\ faults' = faults
           => \A c \in Conns :
                ShowsNext(c, seen[c]) \/ (c \in clobbered /\ seen[c] = "absent")]_vars
  BY WrittenShows
<1> QED BY <1>1, <1>2, <1>3, Invariance, PTL DEF Spec, UpdateShows
=============================================================================
