-------------------- MODULE ConnectionController_proofs --------------------
(***************************************************************************)
(* Proofs about ConnectionController for all connections, configs and      *)
(* watches and any number of requests, failing calls and restarts.         *)
(***************************************************************************)
EXTENDS ConnectionController, WellFoundedInduction, TLAPS

(* Only the worker deletes, and a goroutine at work on a connection knows   *)
(* which one.                                                               *)
Placed ==
  /\ \A p \in Procs : pc[p] \in {"lookup"} \cup CreatePCs \cup DeletePCs => conn[p] \in Conns
  /\ pc["worker"] = "dlookup" => conn["worker"] \in Conns \cup Configs
  /\ pc["refresher"] \in {"idle", "loop", "lookup"} \cup CreatePCs
  /\ \A p \in Procs : pc[p] = "rule" => config[p] \in Allowing
  /\ \A p \in Procs : todo[p] # {} \/ pc[p] \in {"lookup"} \cup CreatePCs => config[p] \in Configs
  /\ pc["worker"] # "idle" => job \in Jobs
  /\ pc["worker"] = "backoff" => job.retires < MaxRetries

(* Two goroutines at work on the same connection are noticed. *)
RaceNoted == \A c \in Conns : Busy("worker", c) /\ Busy("refresher", c) => c \in raced

(* How far goroutine p has come with the creation of c. *)
CreationState(p, c) ==
  Creating(p, c) =>
    /\ db[c] = None
    /\ pc[p] # "rule" => RuleOf(config[p]) \subseteq rule[c]
    /\ pc[p] # "save" => Sides \ left[p] \subseteq attached[c]
    /\ pc[p] = "save" => attached[c] = Sides

(* How far the worker has come with the deletion of c. *)
DeletionState(c) ==
  Deleting("worker", c) =>
    /\ db[c] = config["worker"] /\ db[c] # None
    /\ pc["worker"] = "detach" => attached[c] \subseteq left["worker"]
    /\ pc["worker"] # "detach" => attached[c] = {} /\ c \in torn
    /\ pc["worker"] = "delete" => config["worker"] \notin rule[c]

WorkState ==
  \A c \in Conns \ raced : DeletionState(c) /\ \A p \in Procs : CreationState(p, c)

(* A connect request that has not failed yet has a record, or work still to *)
(* do, for each of its connections.                                         *)
TargetsCovered ==
  /\ (pc["worker"] \in {"loop", "lookup"} \cup CreatePCs /\ ~failed) =>
       \A c \in targets :
          \/ c \in todo["worker"]
          \/ pc["worker"] # "loop" /\ conn["worker"] = c
          \/ db[c] # None
  /\ pc["worker"] \in {"dlookup"} \cup DeletePCs => targets = {}

IInv == TypeOK /\ Placed /\ RaceNoted /\ WorkState /\ TargetsCovered /\ RecordBacked /\ NoOrphans
-----------------------------------------------------------------------------
(* A request that is rescheduled stays a request. *)
LEMMA RetryTyped ==
  ASSUME NEW j \in Jobs, j.retires < MaxRetries
  PROVE  [j EXCEPT !.retires = @ + 1] \in Jobs
BY BoundAssumption DEF Jobs

(* What the worker receives is a request, and the rest is still a queue.    *)
LEMMA TakenTyped ==
  ASSUME TypeOK, NEW op, TakeJob(op)
  PROVE  /\ job' \in Jobs
         /\ jobs' \in Seq(Jobs)
         /\ Head(jobs).target \in Conns \cup Configs
         /\ Head(jobs).op = "connect" => Head(jobs).target \in Configs
<1>1. Head(jobs) \in Jobs /\ Tail(jobs) \in Seq(Jobs)
  BY DEF TypeOK, TakeJob
<1>2. /\ Head(jobs).target \in Conns \cup Configs
      /\ Head(jobs).op = "connect" => Head(jobs).target \in Configs
  BY <1>1 DEF Jobs
<1> QED BY <1>1, <1>2 DEF TakeJob

(* The invariant holds initially.                                           *)
LEMMA InitIInv == Init => IInv
<1> USE ConfigAssumption, NameAssumption, BoundAssumption DEF Procs, CreatePCs, DeletePCs
<1> SUFFICES ASSUME Init PROVE IInv
  OBVIOUS
<1>1. TypeOK
  <2>1. failed \in BOOLEAN
    BY DEF Init
  <2> QED BY <2>1 DEF Init, TypeOK, PCs
<1>2. Placed /\ RaceNoted /\ WorkState /\ TargetsCovered
  BY DEF Init, Placed, RaceNoted, WorkState, DeletionState, CreationState, TargetsCovered, Busy,
         Creating, Deleting
<1>3. RecordBacked /\ NoOrphans
  BY DEF Init, RecordBacked, NoOrphans, Accounted, RuleOf
<1> QED BY <1>1, <1>2, <1>3 DEF IInv

(* Steps that look, queue, mark or list: no connection is affected.         *)
Unseen ==
  \/ \E p \in Procs : BeginItem(p) \/ AlreadyExists(p)
  \/ DropWatch \/ NothingToDelete \/ TakeConnect \/ ConfigFails \/ TakeDisconnect
  \/ EndJob \/ Reschedule \/ StartPass \/ EndPass
  \/ \E w \in Configs : RefreshWatch(w) \/ AbortPass(w)
  \/ \E cfg \in Configs : SubmitConnect(cfg)
  \/ \E t \in Conns \cup Configs : SubmitDisconnect(t)
  \/ Discover \/ UNCHANGED vars

(* The creations under way, their connections and configs stay the same.    *)
SameMakers ==
  \A p \in Procs : /\ pc'[p] \in CreatePCs <=> pc[p] \in CreatePCs
                   /\ pc[p] \in CreatePCs => conn'[p] = conn[p] /\ config'[p] = config[p]

LEMMA MakersSame ==
  ASSUME SameMakers, NEW c
  PROVE  (BeingMade(c)' <=> BeingMade(c)) /\ MadeFor(c)' = MadeFor(c)
BY DEF SameMakers, BeingMade, MadeFor, Creating

LEMMA UnseenSame ==
  ASSUME TypeOK, Unseen
  PROVE  UNCHANGED <<db, attached, rule, raced, torn, leftover>> /\ SameMakers
<1> USE DEF stored, cloud, queue, local, history
<1>1. UNCHANGED <<db, attached, rule, raced, torn, leftover>>
  BY DEF Unseen, BeginItem, AlreadyExists, DropWatch, NothingToDelete, TakeConnect, ConfigFails,
         TakeDisconnect, EndJob, Reschedule, StartPass, EndPass, RefreshWatch, AbortPass,
         SubmitConnect, SubmitDisconnect, Discover, vars
<1>2. CASE \/ \E p \in Procs : BeginItem(p) \/ AlreadyExists(p)
           \/ DropWatch \/ NothingToDelete
  BY <1>2 DEF BeginItem, AlreadyExists, DropWatch, NothingToDelete, NextItem, CreatePCs, Procs,
              TypeOK, SameMakers
<1>3. CASE TakeConnect \/ ConfigFails \/ TakeDisconnect \/ EndJob \/ Reschedule
  BY <1>3 DEF TakeConnect, ConfigFails, TakeDisconnect, TakeJob, EndJob, Reschedule, CreatePCs,
              Procs, TypeOK, SameMakers
<1>4. CASE StartPass \/ EndPass
  BY <1>4 DEF StartPass, EndPass, CreatePCs, Procs, TypeOK, SameMakers
<1>5. ASSUME NEW w \in Configs, RefreshWatch(w) \/ AbortPass(w)
      PROVE  SameMakers
  BY <1>5 DEF RefreshWatch, AbortPass, NextWatch, CreatePCs, Procs, TypeOK, SameMakers
<1>6. CASE \/ \E cfg \in Configs : SubmitConnect(cfg)
           \/ \E t \in Conns \cup Configs : SubmitDisconnect(t)
           \/ Discover \/ UNCHANGED vars
  BY <1>6 DEF SubmitConnect, SubmitDisconnect, Discover, vars, SameMakers
<1> QED BY <1>1, <1>2, <1>3, <1>4, <1>5, <1>6 DEF Unseen

LEMMA UnseenOrphans ==
  ASSUME TypeOK, NoOrphans, Unseen
  PROVE  NoOrphans'
BY UnseenSame, MakersSame DEF NoOrphans, Accounted

(* Creations that go on are made for the same configs.                      *)
LEMMA MakersStay ==
  ASSUME NEW c, \A p \in Procs : Creating(p, c) => Creating(p, c)' /\ config'[p] = config[p]
  PROVE  MadeFor(c) \subseteq MadeFor(c)' /\ (BeingMade(c) => BeingMade(c)')
BY DEF BeingMade, MadeFor

(* A connection to which nothing is added stays accounted for.              *)
LEMMA StillAccounted ==
  ASSUME NoOrphans, NEW c \in Conns \ raced,
         db'[c] = db[c], attached'[c] \subseteq attached[c], rule'[c] \subseteq rule[c],
         leftover[c] \subseteq leftover'[c],
         \A p \in Procs : Creating(p, c) => Creating(p, c)' /\ config'[p] = config[p]
  PROVE  Accounted(c)'
BY MakersStay DEF NoOrphans, Accounted

(* BeginItem preserves the invariant.                                       *)
LEMMA BeginItemKeeps ==
  ASSUME IInv, NEW p \in Procs, BeginItem(p)
  PROVE  IInv'
<1> USE ConfigAssumption, NameAssumption, BoundAssumption DEF Procs, Sides, CreatePCs, DeletePCs,
        stored, cloud, queue, local, history
<1>1. TypeOK'
  BY DEF IInv, TypeOK, Placed, PCs, BeginItem, LeftAlone
<1>2. Placed'
  BY DEF IInv, TypeOK, Placed, BeginItem, LeftAlone
<1>3. TargetsCovered'
  BY DEF IInv, TypeOK, Placed, TargetsCovered, BeginItem, LeftAlone
<1>4. RaceNoted' /\ WorkState' /\ RecordBacked'
  BY DEF IInv, TypeOK, Placed, RaceNoted, Busy, WorkState, DeletionState, CreationState,
         RecordBacked, BeginItem, LeftAlone, Creating, Deleting
<1>5. NoOrphans'
  BY UnseenOrphans DEF IInv, Unseen
<1> QED BY <1>1, <1>2, <1>3, <1>4, <1>5 DEF IInv

(* AlreadyExists preserves the invariant.                                   *)
LEMMA AlreadyExistsKeeps ==
  ASSUME IInv, NEW p \in Procs, AlreadyExists(p)
  PROVE  IInv'
<1> USE ConfigAssumption, NameAssumption, BoundAssumption DEF Procs, Sides, CreatePCs, DeletePCs,
        stored, cloud, queue, local, history
<1>1. TypeOK'
  BY DEF IInv, TypeOK, Placed, PCs, AlreadyExists, NextItem
<1>2. Placed'
  BY DEF IInv, TypeOK, Placed, AlreadyExists, NextItem
<1>3. TargetsCovered'
  BY DEF IInv, TypeOK, Placed, TargetsCovered, AlreadyExists, NextItem
<1>4. RaceNoted' /\ WorkState' /\ RecordBacked'
  BY DEF IInv, TypeOK, Placed, RaceNoted, Busy, WorkState, DeletionState, CreationState,
         RecordBacked, AlreadyExists, NextItem, Creating, Deleting
<1>5. NoOrphans'
  BY UnseenOrphans DEF IInv, Unseen
<1> QED BY <1>1, <1>2, <1>3, <1>4, <1>5 DEF IInv

(* StartCreation preserves the invariant.                                   *)
LEMMA StartCreationKeeps ==
  ASSUME IInv, NEW p \in Procs, StartCreation(p)
  PROVE  IInv'
<1> USE ConfigAssumption, NameAssumption, BoundAssumption DEF Procs, Sides, CreatePCs, DeletePCs,
        stored, cloud, queue, local, history
<1>1. TypeOK'
  BY DEF IInv, TypeOK, Placed, PCs, StartCreation, Enter
<1>2. Placed'
  BY DEF IInv, TypeOK, Placed, StartCreation, Enter
<1>3. RaceNoted'
  BY DEF IInv, TypeOK, Placed, RaceNoted, Busy, StartCreation, Enter, Creating, Deleting, Other
<1>4. WorkState'
  BY DEF IInv, TypeOK, Placed, WorkState, RaceNoted, Busy, DeletionState, CreationState, RuleOf,
         StartCreation, Enter, Creating, Deleting, Other
<1>5. NoOrphans'
  <2> SUFFICES ASSUME NEW c \in Conns \ raced' PROVE Accounted(c)'
    BY DEF NoOrphans
  <2>1. c \notin raced /\ UNCHANGED <<db, attached, rule, leftover>>
    BY DEF StartCreation, Enter
  <2>2. \A q \in Procs : Creating(q, c) => Creating(q, c)' /\ config'[q] = config[q]
    BY DEF IInv, TypeOK, StartCreation, Creating
  <2> QED BY <2>1, <2>2, StillAccounted DEF IInv
<1>6. TargetsCovered' /\ RecordBacked'
  BY DEF IInv, TypeOK, Placed, TargetsCovered, RecordBacked, StartCreation, Enter, Creating,
         Deleting, Other
<1> QED BY <1>1, <1>2, <1>3, <1>4, <1>5, <1>6 DEF IInv

(* AddRule preserves the invariant.                                         *)
LEMMA AddRuleKeeps ==
  ASSUME IInv, NEW p \in Procs, AddRule(p)
  PROVE  IInv'
<1> USE ConfigAssumption, NameAssumption, BoundAssumption DEF Procs, Sides, CreatePCs, DeletePCs,
        stored, cloud, queue, local, history
<1>1. TypeOK'
  BY DEF IInv, TypeOK, Placed, PCs, AddRule
<1>2. Placed'
  BY DEF IInv, TypeOK, Placed, AddRule
<1>3. WorkState'
  <2> SUFFICES ASSUME NEW c \in Conns \ raced PROVE (DeletionState(c) /\ \A q \in Procs : CreationState(q, c))'
    BY DEF AddRule, WorkState
  <2>1. DeletionState(c) /\ \A q \in Procs : CreationState(q, c)
    BY DEF IInv, WorkState
  <2>2. c = conn[p] => ~Deleting("worker", c)
    BY DEF IInv, RaceNoted, Busy, Creating, Deleting, AddRule, Placed
  <2>3. DeletionState(c)'
    BY <2>1, <2>2 DEF IInv, TypeOK, AddRule, DeletionState, Deleting
  <2>4. \A q \in Procs : CreationState(q, c)'
    BY <2>1 DEF IInv, TypeOK, AddRule, CreationState, Creating, RuleOf
  <2> QED BY <2>3, <2>4
<1>4. NoOrphans'
  <2> SUFFICES ASSUME NEW c \in Conns \ raced PROVE Accounted(c)'
    BY DEF AddRule, NoOrphans
  <2>1. \A q \in Procs : Creating(q, c) => Creating(q, c)' /\ config'[q] = config[q]
    BY DEF IInv, TypeOK, AddRule, Creating
  <2>2. CASE c # conn[p]
    BY <2>1, <2>2, StillAccounted DEF AddRule, IInv, TypeOK
  <2>3. CASE c = conn[p]
    <3>1. config[p] \in Allowing /\ config[p] \in MadeFor(c)
      BY <2>3 DEF IInv, TypeOK, Placed, AddRule, Creating, MadeFor
    <3>2. rule'[c] = rule[c] \cup {config[p]}
      BY <2>3 DEF IInv, TypeOK, AddRule
    <3>3. Accounted(c) /\ UNCHANGED <<db, attached, leftover>>
      BY DEF IInv, NoOrphans, AddRule
    <3> QED BY <2>1, <3>1, <3>2, <3>3, MakersStay DEF Accounted
  <2> QED BY <2>2, <2>3
<1>5. RaceNoted' /\ TargetsCovered' /\ RecordBacked'
  BY DEF IInv, TypeOK, Placed, RaceNoted, Busy, TargetsCovered, RecordBacked, AddRule, Creating,
         Deleting
<1> QED BY <1>1, <1>2, <1>3, <1>4, <1>5 DEF IInv

(* Connect preserves the invariant.                                         *)
LEMMA ConnectKeeps ==
  ASSUME IInv, NEW p \in Procs, Connect(p)
  PROVE  IInv'
<1> USE ConfigAssumption, NameAssumption, BoundAssumption DEF Procs, Sides, CreatePCs, DeletePCs,
        stored, cloud, queue, local, history
<1>1. TypeOK'
  BY DEF IInv, TypeOK, Placed, PCs, Connect, CallCovers, StillLeft
<1>2. Placed'
  BY DEF IInv, TypeOK, Placed, Connect, CallCovers, StillLeft
<1>3. WorkState'
  BY DEF IInv, TypeOK, Placed, WorkState, RaceNoted, Busy, DeletionState, CreationState,
         NoOrphans, Connect, CallCovers, StillLeft, Creating, Deleting, Other
<1>4. NoOrphans'
  <2> SUFFICES ASSUME NEW c \in Conns \ raced PROVE Accounted(c)'
    BY DEF Connect, NoOrphans
  <2>1. \A q \in Procs : Creating(q, c) => Creating(q, c)' /\ config'[q] = config[q]
    BY DEF IInv, TypeOK, Connect, Creating
  <2>2. CASE c # conn[p]
    BY <2>1, <2>2, StillAccounted DEF Connect, IInv, TypeOK
  <2>3. CASE c = conn[p]
    <3>1. BeingMade(c)'
      BY <2>1, <2>3 DEF Connect, Creating, BeingMade
    <3>2. Accounted(c) /\ UNCHANGED <<db, rule, leftover>>
      BY DEF IInv, NoOrphans, Connect
    <3> QED BY <2>1, <3>1, <3>2, MakersStay DEF Accounted
  <2> QED BY <2>2, <2>3
<1>5. RaceNoted' /\ TargetsCovered' /\ RecordBacked'
  BY DEF IInv, TypeOK, Placed, RaceNoted, Busy, TargetsCovered, RecordBacked, Connect,
         CallCovers, StillLeft, Creating, Deleting
<1> QED BY <1>1, <1>2, <1>3, <1>4, <1>5 DEF IInv

(* Save preserves the invariant.                                            *)
LEMMA SaveKeeps ==
  ASSUME IInv, NEW p \in Procs, Save(p)
  PROVE  IInv'
<1> USE ConfigAssumption, NameAssumption, BoundAssumption DEF Procs, Sides, CreatePCs, DeletePCs,
        stored, cloud, queue, local, history
<1>1. TypeOK'
  BY DEF IInv, TypeOK, Placed, PCs, Save, NextItem
<1>2. Placed'
  BY DEF IInv, TypeOK, Placed, Save, NextItem
<1>3. WorkState'
  BY DEF IInv, TypeOK, Placed, WorkState, RaceNoted, Busy, DeletionState, CreationState,
         NoOrphans, Save, NextItem, Creating, Deleting, Other
<1>4. TargetsCovered'
  BY DEF IInv, TypeOK, Placed, TargetsCovered, Save, NextItem
<1>5. RecordBacked'
  BY DEF IInv, TypeOK, Placed, RecordBacked, WorkState, DeletionState, CreationState, Save,
         NextItem, Creating, Deleting, Other
<1>6. NoOrphans'
  <2> SUFFICES ASSUME NEW c \in Conns \ raced PROVE Accounted(c)'
    BY DEF Save, NoOrphans
  <2>1. CASE c # conn[p]
    <3>1. \A q \in Procs : Creating(q, c) => Creating(q, c)' /\ config'[q] = config[q]
      BY <2>1 DEF IInv, TypeOK, Save, NextItem, Creating
    <3> QED BY <2>1, <3>1, StillAccounted DEF Save, IInv, TypeOK
  <2>2. CASE c = conn[p]
    <3>1. \A q \in Procs : Creating(q, c) => q = p
      BY <2>2 DEF IInv, RaceNoted, Busy, Creating, Save
    <3>2. MadeFor(c) \subseteq {config[p]}
      BY <3>1 DEF MadeFor
    <3>3. db[c] = None /\ config[p] \in Configs
      BY <2>2 DEF IInv, WorkState, CreationState, Creating, Save, Placed
    <3>4. rule[c] \subseteq Allowing \cap (leftover[c] \cup {config[p]})
      <4>1. rule[c] \subseteq Allowing \cap ({None} \cup leftover[c] \cup MadeFor(c))
        BY <3>3 DEF IInv, NoOrphans, Accounted
      <4>2. None \notin Allowing
        BY DEF Allowing
      <4> QED BY <3>2, <4>1, <4>2
    <3>5. /\ db'[c] = config[p] /\ db'[c] # None /\ rule'[c] = rule[c]
          /\ leftover'[c] = (leftover[c] \cap rule[c]) \ RuleOf(config[p])
      BY <2>2, <3>3 DEF IInv, TypeOK, Save
    <3>6. rule'[c] \subseteq Allowing \cap ({db'[c]} \cup leftover'[c])
      BY <3>4, <3>5 DEF RuleOf
    <3> QED BY <3>5, <3>6 DEF Accounted
  <2> QED BY <2>1, <2>2
<1>7. RaceNoted'
  BY DEF IInv, TypeOK, Placed, RaceNoted, Busy, Save, NextItem, Creating, Deleting
<1> QED BY <1>1, <1>2, <1>3, <1>4, <1>5, <1>6, <1>7 DEF IInv

(* CreateFails preserves the invariant.                                     *)
LEMMA CreateFailsKeeps ==
  ASSUME IInv, NEW p \in Procs, CreateFails(p)
  PROVE  IInv'
<1> USE ConfigAssumption, NameAssumption, BoundAssumption DEF Procs, Sides, CreatePCs, DeletePCs,
        stored, cloud, queue, local, history
<1>1. TypeOK'
  <2>1. failed' \in BOOLEAN
    BY DEF IInv, TypeOK, CreateFails, Remember
  <2>2. attached' \in [Conns -> SUBSET Sides] /\ rule' \in [Conns -> SUBSET Configs]
    <3>1. CallCovers(p) \subseteq Sides
      BY DEF IInv, TypeOK, CallCovers
    <3>2. attached' = attached \/ attached' = [attached EXCEPT ![conn[p]] = @ \cup CallCovers(p)]
      BY DEF CreateFails
    <3>3. attached' \in [Conns -> SUBSET Sides]
      <4>1. CASE attached' = attached
        BY <4>1 DEF IInv, TypeOK
      <4>2. CASE attached' = [attached EXCEPT ![conn[p]] = @ \cup CallCovers(p)]
        <5>1. \A c \in Conns : attached[c] \cup CallCovers(p) \in SUBSET Sides
          BY <3>1 DEF IInv, TypeOK
        <5> QED BY <4>2, <5>1 DEF IInv, TypeOK
      <4> QED BY <3>2, <4>1, <4>2
    <3>4. rule' \in [Conns -> SUBSET Configs]
      <4>1. rule' = rule \/ rule' = [rule EXCEPT ![conn[p]] = @ \cup {config[p]}]
        BY DEF CreateFails
      <4>2. config[p] \in Configs \/ pc[p] = "lookup"
        BY DEF IInv, Placed, CreateFails
      <4>3. pc[p] = "lookup" => rule' = rule
        BY DEF CreateFails
      <4>4. CASE rule' = rule
        BY <4>4 DEF IInv, TypeOK
      <4>5. CASE rule' = [rule EXCEPT ![conn[p]] = @ \cup {config[p]}] /\ config[p] \in Configs
        <5>1. \A c \in Conns : rule[c] \cup {config[p]} \in SUBSET Configs
          BY <4>5 DEF IInv, TypeOK
        <5> QED BY <4>5, <5>1 DEF IInv, TypeOK
      <4> QED BY <4>1, <4>2, <4>3, <4>4, <4>5
    <3> QED BY <3>3, <3>4
  <2>3. faults' \in 0..MaxFaults
    BY DEF IInv, TypeOK, CreateFails, Fault
  <2>4. torn' \subseteq Conns /\ leftover' \in [Conns -> SUBSET Configs]
    BY DEF IInv, TypeOK, Placed, CreateFails
  <2>5. /\ pc' \in [Procs -> PCs]
        /\ conn' \in [Procs -> Conns \cup Configs \cup {None}]
        /\ left' \in [Procs -> SUBSET Sides]
    BY DEF IInv, TypeOK, PCs, CreateFails, NextItem
  <2> QED BY <2>1, <2>2, <2>3, <2>4, <2>5 DEF IInv, TypeOK, CreateFails, NextItem
<1>2. Placed'
  BY DEF IInv, TypeOK, Placed, CreateFails, NextItem, Remember, Fault, CallCovers
<1>3. RaceNoted'
  BY DEF IInv, TypeOK, Placed, RaceNoted, Busy, CreateFails, NextItem, Remember, Fault,
         CallCovers, Creating, Deleting, Other
<1>4. WorkState'
  BY DEF IInv, TypeOK, Placed, WorkState, RaceNoted, Busy, DeletionState, CreationState,
         NoOrphans, CreateFails, NextItem, Remember, Fault, CallCovers, Creating, Deleting,
         Other
<1>5. TargetsCovered'
  BY DEF IInv, TypeOK, Placed, TargetsCovered, CreateFails, NextItem, Remember, Fault,
         CallCovers
<1>6. RecordBacked'
  BY DEF IInv, TypeOK, Placed, RecordBacked, WorkState, DeletionState, CreationState,
         CreateFails, NextItem, Remember, Fault, CallCovers, Creating, Deleting, Other
<1>7. NoOrphans'
  <2> SUFFICES ASSUME NEW c \in Conns \ raced PROVE Accounted(c)'
    BY DEF CreateFails, NoOrphans
  <2>1. CASE pc[p] = "lookup" \/ c # conn[p]
    <3>1. \A q \in Procs : Creating(q, c) => Creating(q, c)' /\ config'[q] = config[q]
      BY <2>1 DEF IInv, TypeOK, CreateFails, NextItem, Creating
    <3>2. /\ db'[c] = db[c] /\ attached'[c] = attached[c] /\ rule'[c] = rule[c]
          /\ leftover'[c] = leftover[c]
      BY <2>1 DEF CreateFails, IInv, TypeOK
    <3> QED BY <3>1, <3>2, StillAccounted DEF IInv
  <2>2. CASE pc[p] \in CreatePCs /\ c = conn[p]
    <3>1. MadeFor(c) \subseteq MadeFor(c)' \cup {config[p]}
      BY DEF IInv, TypeOK, CreateFails, NextItem, Creating, MadeFor
    <3>2. leftover'[c] = leftover[c] \cup {config[p]} /\ db'[c] = db[c]
      BY <2>2 DEF CreateFails, IInv, TypeOK
    <3>3. rule'[c] \subseteq rule[c] \cup {config[p]} /\ (rule'[c] # rule[c] => config[p] \in Allowing)
      BY <2>2 DEF CreateFails, IInv, TypeOK, Placed
    <3>4. rule[c] \subseteq Allowing \cap ({db[c]} \cup leftover[c] \cup MadeFor(c))
      BY DEF IInv, NoOrphans, Accounted
    <3> QED BY <3>1, <3>2, <3>3, <3>4 DEF Accounted
  <2> QED BY <2>1, <2>2 DEF CreateFails
<1> QED BY <1>1, <1>2, <1>3, <1>4, <1>5, <1>6, <1>7 DEF IInv

(* DropWatch preserves the invariant.                                       *)
LEMMA DropWatchKeeps ==
  ASSUME IInv, DropWatch
  PROVE  IInv'
<1> USE ConfigAssumption, NameAssumption, BoundAssumption DEF Procs, Sides, CreatePCs, DeletePCs,
        stored, cloud, queue, local, history
<1>1. TypeOK'
  BY DEF IInv, TypeOK, Placed, PCs, DropWatch, NextItem
<1>2. Placed'
  BY DEF IInv, TypeOK, Placed, DropWatch, NextItem
<1>3. TargetsCovered'
  BY DEF IInv, TypeOK, Placed, TargetsCovered, DropWatch, NextItem
<1>4. RaceNoted' /\ WorkState' /\ RecordBacked'
  BY DEF IInv, TypeOK, Placed, RaceNoted, Busy, WorkState, DeletionState, CreationState,
         RecordBacked, DropWatch, NextItem, Creating, Deleting
<1>5. NoOrphans'
  BY UnseenOrphans DEF IInv, Unseen
<1> QED BY <1>1, <1>2, <1>3, <1>4, <1>5 DEF IInv

(* NothingToDelete preserves the invariant.                                 *)
LEMMA NothingToDeleteKeeps ==
  ASSUME IInv, NothingToDelete
  PROVE  IInv'
<1> USE ConfigAssumption, NameAssumption, BoundAssumption DEF Procs, Sides, CreatePCs, DeletePCs,
        stored, cloud, queue, local, history
<1>1. TypeOK'
  BY DEF IInv, TypeOK, Placed, PCs, NothingToDelete, NextItem
<1>2. Placed'
  BY DEF IInv, TypeOK, Placed, NothingToDelete, NextItem
<1>3. TargetsCovered'
  BY DEF IInv, TypeOK, Placed, TargetsCovered, NothingToDelete, NextItem
<1>4. RaceNoted' /\ WorkState' /\ RecordBacked'
  BY DEF IInv, TypeOK, Placed, RaceNoted, Busy, WorkState, DeletionState, CreationState,
         RecordBacked, NothingToDelete, NextItem, Creating, Deleting
<1>5. NoOrphans'
  BY UnseenOrphans DEF IInv, Unseen
<1> QED BY <1>1, <1>2, <1>3, <1>4, <1>5 DEF IInv

(* StartDeletion preserves the invariant.                                   *)
LEMMA StartDeletionKeeps ==
  ASSUME IInv, StartDeletion
  PROVE  IInv'
<1> USE ConfigAssumption, NameAssumption, BoundAssumption DEF Procs, Sides, CreatePCs, DeletePCs,
        stored, cloud, queue, local, history
<1>1. TypeOK'
  BY DEF IInv, TypeOK, Placed, PCs, StartDeletion, Enter
<1>2. Placed'
  BY DEF IInv, TypeOK, Placed, StartDeletion, Enter
<1>3. RaceNoted'
  BY DEF IInv, TypeOK, Placed, RaceNoted, Busy, StartDeletion, Enter, Creating, Deleting, Other
<1>4. WorkState'
  BY DEF IInv, TypeOK, Placed, WorkState, RaceNoted, Busy, DeletionState, CreationState,
         NoOrphans, StartDeletion, Enter, Creating, Deleting, Other
<1>5. NoOrphans'
  <2> SUFFICES ASSUME NEW c \in Conns \ raced' PROVE Accounted(c)'
    BY DEF NoOrphans
  <2>1. /\ c \notin raced /\ db'[c] = db[c] /\ attached'[c] \subseteq attached[c]
        /\ rule'[c] \subseteq rule[c] /\ leftover'[c] = leftover[c]
    BY DEF StartDeletion, Enter, IInv, TypeOK
  <2>2. \A q \in Procs : Creating(q, c) => Creating(q, c)' /\ config'[q] = config[q]
    BY DEF IInv, TypeOK, StartDeletion, Enter, Creating
  <2> QED BY <2>1, <2>2, StillAccounted DEF IInv
<1>6. TargetsCovered' /\ RecordBacked'
  BY DEF IInv, TypeOK, Placed, TargetsCovered, RecordBacked, StartDeletion, Enter, Creating,
         Deleting, Other
<1> QED BY <1>1, <1>2, <1>3, <1>4, <1>5, <1>6 DEF IInv

(* Detach preserves the invariant.                                          *)
LEMMA DetachKeeps ==
  ASSUME IInv, Detach
  PROVE  IInv'
<1> USE ConfigAssumption, NameAssumption, BoundAssumption DEF Procs, Sides, CreatePCs, DeletePCs,
        stored, cloud, queue, local, history
<1>1. TypeOK'
  BY DEF IInv, TypeOK, Placed, PCs, Detach, CallCovers, StillLeft
<1>2. Placed'
  BY DEF IInv, TypeOK, Placed, Detach, CallCovers, StillLeft
<1>3. WorkState'
  BY DEF IInv, TypeOK, Placed, WorkState, RaceNoted, Busy, DeletionState, CreationState,
         NoOrphans, Detach, CallCovers, StillLeft, Creating, Deleting, Other
<1>4. RecordBacked'
  BY DEF IInv, TypeOK, Placed, RecordBacked, WorkState, DeletionState, CreationState, Detach,
         CallCovers, StillLeft, Creating, Deleting, Other
<1>5. NoOrphans'
  <2> SUFFICES ASSUME NEW c \in Conns \ raced' PROVE Accounted(c)'
    BY DEF NoOrphans
  <2>1. /\ c \notin raced /\ db'[c] = db[c] /\ attached'[c] \subseteq attached[c]
        /\ rule'[c] \subseteq rule[c] /\ leftover'[c] = leftover[c]
    BY DEF Detach, IInv, TypeOK
  <2>2. \A q \in Procs : Creating(q, c) => Creating(q, c)' /\ config'[q] = config[q]
    BY DEF IInv, TypeOK, Detach, Creating
  <2> QED BY <2>1, <2>2, StillAccounted DEF IInv
<1>6. RaceNoted' /\ TargetsCovered'
  BY DEF IInv, TypeOK, Placed, RaceNoted, Busy, TargetsCovered, Detach, CallCovers, StillLeft,
         Creating, Deleting
<1> QED BY <1>1, <1>2, <1>3, <1>4, <1>5, <1>6 DEF IInv

(* RemoveRule preserves the invariant.                                      *)
LEMMA RemoveRuleKeeps ==
  ASSUME IInv, RemoveRule
  PROVE  IInv'
<1> USE ConfigAssumption, NameAssumption, BoundAssumption DEF Procs, Sides, CreatePCs, DeletePCs,
        stored, cloud, queue, local, history
<1>1. TypeOK'
  BY DEF IInv, TypeOK, Placed, PCs, RemoveRule, RuleToRemove
<1>2. Placed'
  BY DEF IInv, TypeOK, Placed, RemoveRule, RuleToRemove
<1>3. WorkState'
  BY DEF IInv, TypeOK, Placed, WorkState, RaceNoted, Busy, DeletionState, CreationState,
         NoOrphans, Accounted, RemoveRule, RuleToRemove, RuleOf, Creating, Deleting, Other
<1>4. RecordBacked'
  BY DEF IInv, TypeOK, Placed, RecordBacked, WorkState, DeletionState, CreationState,
         RemoveRule, RuleToRemove, Creating, Deleting, Other
<1>5. NoOrphans'
  <2> SUFFICES ASSUME NEW c \in Conns \ raced' PROVE Accounted(c)'
    BY DEF NoOrphans
  <2>1. /\ c \notin raced /\ db'[c] = db[c] /\ attached'[c] \subseteq attached[c]
        /\ rule'[c] \subseteq rule[c] /\ leftover'[c] = leftover[c]
    BY DEF RemoveRule, IInv, TypeOK
  <2>2. \A q \in Procs : Creating(q, c) => Creating(q, c)' /\ config'[q] = config[q]
    BY DEF IInv, TypeOK, RemoveRule, Creating
  <2> QED BY <2>1, <2>2, StillAccounted DEF IInv
<1>6. RaceNoted' /\ TargetsCovered'
  BY DEF IInv, TypeOK, Placed, RaceNoted, Busy, TargetsCovered, RemoveRule, RuleToRemove,
         Creating, Deleting
<1> QED BY <1>1, <1>2, <1>3, <1>4, <1>5, <1>6 DEF IInv

(* DeleteRecord preserves the invariant.                                    *)
LEMMA DeleteRecordKeeps ==
  ASSUME IInv, DeleteRecord
  PROVE  IInv'
<1> USE ConfigAssumption, NameAssumption, BoundAssumption DEF Procs, Sides, CreatePCs, DeletePCs,
        stored, cloud, queue, local, history
<1>1. TypeOK'
  BY DEF IInv, TypeOK, Placed, PCs, DeleteRecord, NextItem, Gone
<1>2. Placed'
  BY DEF IInv, TypeOK, Placed, DeleteRecord, NextItem, Gone
<1>3. RaceNoted'
  BY DEF IInv, TypeOK, Placed, RaceNoted, Busy, DeleteRecord, NextItem, Gone, Creating,
         Deleting, Other
<1>4. WorkState'
  BY DEF IInv, TypeOK, Placed, WorkState, RaceNoted, Busy, DeletionState, CreationState,
         NoOrphans, DeleteRecord, NextItem, Gone, Creating, Deleting, Other
<1>5. TargetsCovered'
  BY DEF IInv, TypeOK, Placed, TargetsCovered, DeleteRecord, NextItem, Gone
<1>6. RecordBacked'
  BY DEF IInv, TypeOK, Placed, RecordBacked, WorkState, DeletionState, CreationState,
         DeleteRecord, NextItem, Gone, Creating, Deleting, Other
<1>7. NoOrphans'
  <2> SUFFICES ASSUME NEW c \in Conns \ raced' PROVE Accounted(c)'
    BY DEF NoOrphans
  <2>1. \A q \in Procs : Creating(q, c) => Creating(q, c)' /\ config'[q] = config[q]
    BY DEF IInv, TypeOK, DeleteRecord, NextItem, Creating
  <2>2. CASE c # conn["worker"]
    <3>1. /\ c \notin raced /\ db'[c] = db[c] /\ leftover'[c] = leftover[c]
          /\ UNCHANGED <<attached, rule>>
      BY <2>2 DEF DeleteRecord, IInv, TypeOK
    <3> QED BY <2>1, <3>1, StillAccounted DEF IInv
  <2>3. CASE c = conn["worker"]
    <3>1. /\ leftover'[c] = leftover[c] \cap rule[c] /\ UNCHANGED <<attached, rule>>
          /\ c \in raced => Gone(c)
      BY <2>3 DEF DeleteRecord, IInv, TypeOK
    <3>2. CASE c \in raced
      BY <3>1, <3>2 DEF Gone, Accounted
    <3>3. CASE c \notin raced
      <4>1. attached[c] = {} /\ db[c] \notin rule[c]
        BY <2>3, <3>3 DEF DeleteRecord, IInv, WorkState, DeletionState, Deleting
      <4>2. rule[c] \subseteq Allowing \cap ({db[c]} \cup leftover[c] \cup MadeFor(c))
        BY <3>3 DEF IInv, NoOrphans, Accounted
      <4> QED BY <2>1, <3>1, <4>1, <4>2, MakersStay DEF Accounted
    <3> QED BY <3>2, <3>3
  <2> QED BY <2>2, <2>3
<1> QED BY <1>1, <1>2, <1>3, <1>4, <1>5, <1>6, <1>7 DEF IInv

(* DeleteFails preserves the invariant.                                     *)
LEMMA DeleteFailsKeeps ==
  ASSUME IInv, DeleteFails
  PROVE  IInv'
<1> USE ConfigAssumption, NameAssumption, BoundAssumption DEF Procs, Sides, CreatePCs, DeletePCs,
        stored, cloud, queue, local, history
<1>1. TypeOK'
  <2>1. failed' \in BOOLEAN
    BY DEF IInv, TypeOK, DeleteFails, Remember
  <2>2. attached' \in [Conns -> SUBSET Sides] /\ rule' \in [Conns -> SUBSET Configs]
    <3>1. CallCovers("worker") \subseteq Sides
      BY DEF IInv, TypeOK, CallCovers
    <3>2. attached' = attached \/ attached' = [attached EXCEPT ![conn["worker"]] = @ \ CallCovers("worker")]
      BY DEF DeleteFails
    <3>3. attached' \in [Conns -> SUBSET Sides]
      <4>1. CASE attached' = attached
        BY <4>1 DEF IInv, TypeOK
      <4>2. CASE attached' = [attached EXCEPT ![conn["worker"]] = @ \ CallCovers("worker")]
        <5>1. \A c \in Conns : attached[c] \ CallCovers("worker") \in SUBSET Sides
          BY DEF IInv, TypeOK
        <5> QED BY <4>2, <5>1 DEF IInv, TypeOK
      <4> QED BY <3>2, <4>1, <4>2
    <3>4. rule' \in [Conns -> SUBSET Configs]
      BY DEF IInv, TypeOK, Placed, DeleteFails, RuleToRemove
    <3> QED BY <3>3, <3>4
  <2>3. faults' \in 0..MaxFaults
    BY DEF IInv, TypeOK, DeleteFails, Fault
  <2>4. torn' \subseteq Conns /\ leftover' \in [Conns -> SUBSET Configs]
    BY DEF IInv, TypeOK, Placed, DeleteFails
  <2>5. /\ pc' \in [Procs -> PCs]
        /\ conn' \in [Procs -> Conns \cup Configs \cup {None}]
        /\ left' \in [Procs -> SUBSET Sides]
    BY DEF IInv, TypeOK, PCs, DeleteFails, NextItem
  <2> QED BY <2>1, <2>2, <2>3, <2>4, <2>5 DEF IInv, TypeOK, DeleteFails, NextItem
<1>2. Placed'
  BY DEF IInv, TypeOK, Placed, DeleteFails, NextItem, Remember, Fault, CallCovers, RuleToRemove
<1>3. WorkState'
  BY DEF IInv, TypeOK, Placed, WorkState, RaceNoted, Busy, DeletionState, CreationState,
         NoOrphans, DeleteFails, NextItem, Remember, Fault, CallCovers, RuleToRemove, Creating,
         Deleting, Other
<1>4. TargetsCovered'
  BY DEF IInv, TypeOK, Placed, TargetsCovered, DeleteFails, NextItem, Remember, Fault,
         CallCovers, RuleToRemove
<1>5. RecordBacked'
  BY DEF IInv, TypeOK, Placed, RecordBacked, WorkState, DeletionState, CreationState,
         DeleteFails, NextItem, Remember, Fault, CallCovers, RuleToRemove, Creating, Deleting,
         Other
<1>6. NoOrphans'
  <2> SUFFICES ASSUME NEW c \in Conns \ raced' PROVE Accounted(c)'
    BY DEF NoOrphans
  <2>1. /\ c \notin raced /\ db'[c] = db[c] /\ attached'[c] \subseteq attached[c]
        /\ rule'[c] \subseteq rule[c] /\ leftover'[c] = leftover[c]
    <3>1. \/ attached' = attached
          \/ attached' = [attached EXCEPT ![conn["worker"]] = @ \ CallCovers("worker")]
      BY DEF DeleteFails
    <3>2. rule' = rule \/ rule' = [rule EXCEPT ![conn["worker"]] = @ \ RuleToRemove]
      BY DEF DeleteFails
    <3>3. attached \in [Conns -> SUBSET Sides] /\ rule \in [Conns -> SUBSET Configs]
      BY DEF IInv, TypeOK
    <3>4. attached'[c] \subseteq attached[c]
      <4>1. attached'[c] = attached[c] \/ attached'[c] = attached[c] \ CallCovers("worker")
        BY <3>3, <3>1
      <4> QED BY <4>1
    <3>5. rule'[c] \subseteq rule[c]
      <4>1. rule'[c] = rule[c] \/ rule'[c] = rule[c] \ RuleToRemove
        BY <3>3, <3>2
      <4> QED BY <4>1
    <3>6. UNCHANGED <<db, raced, leftover>>
      BY DEF DeleteFails
    <3> QED BY <3>4, <3>5, <3>6
  <2>2. \A q \in Procs : Creating(q, c) => Creating(q, c)' /\ config'[q] = config[q]
    BY DEF IInv, TypeOK, DeleteFails, NextItem, Creating
  <2> QED BY <2>1, <2>2, StillAccounted DEF IInv
<1>7. RaceNoted'
  BY DEF IInv, TypeOK, Placed, RaceNoted, Busy, DeleteFails, NextItem, Remember, Fault,
         CallCovers, RuleToRemove, Creating, Deleting
<1> QED BY <1>1, <1>2, <1>3, <1>4, <1>5, <1>6, <1>7 DEF IInv

(* TakeConnect preserves the invariant.                                     *)
LEMMA TakeConnectKeeps ==
  ASSUME IInv, TakeConnect
  PROVE  IInv'
<1> USE ConfigAssumption, NameAssumption, BoundAssumption DEF Procs, Sides, CreatePCs, DeletePCs,
        stored, cloud, queue, local, history
<1>1. TypeOK'
  <2>1. /\ job' \in Jobs
        /\ jobs' \in Seq(Jobs)
        /\ Head(jobs).target \in Conns \cup Configs
        /\ Head(jobs).op = "connect" => Head(jobs).target \in Configs
    BY TakenTyped DEF IInv, TakeConnect
  <2> QED BY <2>1 DEF IInv, TypeOK, PCs, TakeJob, TakeConnect, Found
<1>2. Placed'
  <2>1. job' \in Jobs /\ Head(jobs).target \in Configs
    BY TakenTyped DEF IInv, TakeConnect, TakeJob
  <2> QED BY <2>1 DEF IInv, TypeOK, Placed, TakeJob, TakeConnect, Found
<1>3. TargetsCovered'
  BY DEF IInv, TypeOK, Placed, TargetsCovered, TakeConnect, TakeJob, Found
<1>4. RaceNoted' /\ WorkState' /\ RecordBacked'
  BY DEF IInv, TypeOK, Placed, RaceNoted, Busy, WorkState, DeletionState, CreationState,
         RecordBacked, TakeConnect, TakeJob, Found, Creating, Deleting
<1>5. NoOrphans'
  BY UnseenOrphans DEF IInv, Unseen
<1> QED BY <1>1, <1>2, <1>3, <1>4, <1>5 DEF IInv

(* ConfigFails preserves the invariant.                                     *)
LEMMA ConfigFailsKeeps ==
  ASSUME IInv, ConfigFails
  PROVE  IInv'
<1> USE ConfigAssumption, NameAssumption, BoundAssumption DEF Procs, Sides, CreatePCs, DeletePCs,
        stored, cloud, queue, local, history
<1>1. TypeOK'
  <2>1. /\ job' \in Jobs
        /\ jobs' \in Seq(Jobs)
        /\ Head(jobs).target \in Conns \cup Configs
        /\ Head(jobs).op = "connect" => Head(jobs).target \in Configs
    BY TakenTyped DEF IInv, ConfigFails
  <2> QED BY <2>1 DEF IInv, TypeOK, PCs, TakeJob, ConfigFails, Fault
<1>2. Placed'
  <2>1. job' \in Jobs /\ Head(jobs).target \in Conns \cup Configs
    BY TakenTyped DEF IInv, ConfigFails
  <2> QED BY <2>1 DEF IInv, TypeOK, Placed, TakeJob, ConfigFails, Fault
<1>3. TargetsCovered'
  BY DEF IInv, TypeOK, Placed, TargetsCovered, ConfigFails, TakeJob, Fault
<1>4. RaceNoted' /\ WorkState' /\ RecordBacked'
  BY DEF IInv, TypeOK, Placed, RaceNoted, Busy, WorkState, DeletionState, CreationState,
         RecordBacked, ConfigFails, TakeJob, Fault, Creating, Deleting
<1>5. NoOrphans'
  BY UnseenOrphans DEF IInv, Unseen
<1> QED BY <1>1, <1>2, <1>3, <1>4, <1>5 DEF IInv

(* TakeDisconnect preserves the invariant.                                  *)
LEMMA TakeDisconnectKeeps ==
  ASSUME IInv, TakeDisconnect
  PROVE  IInv'
<1> USE ConfigAssumption, NameAssumption, BoundAssumption DEF Procs, Sides, CreatePCs, DeletePCs,
        stored, cloud, queue, local, history
<1>1. TypeOK'
  <2>1. /\ job' \in Jobs
        /\ jobs' \in Seq(Jobs)
        /\ Head(jobs).target \in Conns \cup Configs
        /\ Head(jobs).op = "connect" => Head(jobs).target \in Configs
    BY TakenTyped DEF IInv, TakeDisconnect
  <2> QED BY <2>1 DEF IInv, TypeOK, PCs, TakeJob, TakeDisconnect
<1>2. Placed'
  <2>1. job' \in Jobs /\ Head(jobs).target \in Conns \cup Configs
    BY TakenTyped DEF IInv, TakeDisconnect
  <2> QED BY <2>1 DEF IInv, TypeOK, Placed, TakeJob, TakeDisconnect
<1>3. TargetsCovered'
  BY DEF IInv, TypeOK, Placed, TargetsCovered, TakeDisconnect, TakeJob
<1>4. RaceNoted' /\ WorkState' /\ RecordBacked'
  BY DEF IInv, TypeOK, Placed, RaceNoted, Busy, WorkState, DeletionState, CreationState,
         RecordBacked, TakeDisconnect, TakeJob, Creating, Deleting
<1>5. NoOrphans'
  BY UnseenOrphans DEF IInv, Unseen
<1> QED BY <1>1, <1>2, <1>3, <1>4, <1>5 DEF IInv

(* EndJob preserves the invariant.                                          *)
LEMMA EndJobKeeps ==
  ASSUME IInv, EndJob
  PROVE  IInv'
<1> USE ConfigAssumption, NameAssumption, BoundAssumption DEF Procs, Sides, CreatePCs, DeletePCs,
        stored, cloud, queue, local, history
<1>1. TypeOK'
  <2>1. failed' \in BOOLEAN
    BY DEF IInv, TypeOK, EndJob
  <2> QED BY <2>1 DEF IInv, TypeOK, Placed, PCs, EndJob, TryAgain
<1>2. Placed'
  BY DEF IInv, TypeOK, Placed, EndJob, TryAgain
<1>3. TargetsCovered'
  BY DEF IInv, TypeOK, Placed, TargetsCovered, EndJob, TryAgain
<1>4. RaceNoted' /\ WorkState' /\ RecordBacked'
  BY DEF IInv, TypeOK, Placed, RaceNoted, Busy, WorkState, DeletionState, CreationState,
         RecordBacked, EndJob, TryAgain, Creating, Deleting
<1>5. NoOrphans'
  BY UnseenOrphans DEF IInv, Unseen
<1> QED BY <1>1, <1>2, <1>3, <1>4, <1>5 DEF IInv

(* Reschedule preserves the invariant.                                      *)
LEMMA RescheduleKeeps ==
  ASSUME IInv, Reschedule
  PROVE  IInv'
<1> USE ConfigAssumption, NameAssumption, BoundAssumption DEF Procs, Sides, CreatePCs, DeletePCs,
        stored, cloud, queue, local, history
<1>1. TypeOK'
  <2>1. [job EXCEPT !.retires = @ + 1] \in Jobs
    BY RetryTyped DEF IInv, Placed, Reschedule
  <2> QED BY <2>1 DEF IInv, TypeOK, PCs, Reschedule
<1>2. Placed'
  BY DEF IInv, TypeOK, Placed, Reschedule
<1>3. TargetsCovered'
  BY DEF IInv, TypeOK, Placed, TargetsCovered, Reschedule
<1>4. RaceNoted' /\ WorkState' /\ RecordBacked'
  BY DEF IInv, TypeOK, Placed, RaceNoted, Busy, WorkState, DeletionState, CreationState,
         RecordBacked, Reschedule, Creating, Deleting
<1>5. NoOrphans'
  BY UnseenOrphans DEF IInv, Unseen
<1> QED BY <1>1, <1>2, <1>3, <1>4, <1>5 DEF IInv

(* StartPass preserves the invariant.                                       *)
LEMMA StartPassKeeps ==
  ASSUME IInv, StartPass
  PROVE  IInv'
<1> USE ConfigAssumption, NameAssumption, BoundAssumption DEF Procs, Sides, CreatePCs, DeletePCs,
        stored, cloud, queue, local, history
<1>1. TypeOK'
  BY DEF IInv, TypeOK, Placed, PCs, StartPass
<1>2. Placed'
  BY DEF IInv, TypeOK, Placed, StartPass
<1>3. RaceNoted' /\ WorkState' /\ TargetsCovered' /\ RecordBacked'
  BY DEF IInv, TypeOK, Placed, RaceNoted, Busy, WorkState, DeletionState, CreationState,
         TargetsCovered, RecordBacked, StartPass, Creating, Deleting
<1>4. NoOrphans'
  BY UnseenOrphans DEF IInv, Unseen
<1> QED BY <1>1, <1>2, <1>3, <1>4 DEF IInv

(* RefreshWatch preserves the invariant.                                    *)
LEMMA RefreshWatchKeeps ==
  ASSUME IInv, NEW w \in Configs, RefreshWatch(w)
  PROVE  IInv'
<1> USE ConfigAssumption, NameAssumption, BoundAssumption DEF Procs, Sides, CreatePCs, DeletePCs,
        stored, cloud, queue, local, history
<1>1. TypeOK'
  BY DEF IInv, TypeOK, Placed, PCs, RefreshWatch, NextWatch, Found, Remaining
<1>2. Placed'
  BY DEF IInv, TypeOK, Placed, RefreshWatch, NextWatch, Found, Remaining
<1>3. RaceNoted' /\ WorkState' /\ TargetsCovered' /\ RecordBacked'
  BY DEF IInv, TypeOK, Placed, RaceNoted, Busy, WorkState, DeletionState, CreationState,
         TargetsCovered, RecordBacked, RefreshWatch, NextWatch, Found, Remaining,
         Creating, Deleting
<1>4. NoOrphans'
  BY UnseenOrphans DEF IInv, Unseen
<1> QED BY <1>1, <1>2, <1>3, <1>4 DEF IInv

(* AbortPass preserves the invariant.                                       *)
LEMMA AbortPassKeeps ==
  ASSUME IInv, NEW w \in Configs, AbortPass(w)
  PROVE  IInv'
<1> USE ConfigAssumption, NameAssumption, BoundAssumption DEF Procs, Sides, CreatePCs, DeletePCs,
        stored, cloud, queue, local, history
<1>1. TypeOK'
  BY DEF IInv, TypeOK, Placed, PCs, AbortPass, NextWatch
<1>2. Placed'
  BY DEF IInv, TypeOK, Placed, AbortPass, NextWatch
<1>3. RaceNoted' /\ WorkState' /\ TargetsCovered' /\ RecordBacked'
  BY DEF IInv, TypeOK, Placed, RaceNoted, Busy, WorkState, DeletionState, CreationState,
         TargetsCovered, RecordBacked, AbortPass, NextWatch, Creating, Deleting
<1>4. NoOrphans'
  BY UnseenOrphans DEF IInv, Unseen
<1> QED BY <1>1, <1>2, <1>3, <1>4 DEF IInv

(* EndPass preserves the invariant.                                         *)
LEMMA EndPassKeeps ==
  ASSUME IInv, EndPass
  PROVE  IInv'
<1> USE ConfigAssumption, NameAssumption, BoundAssumption DEF Procs, Sides, CreatePCs, DeletePCs,
        stored, cloud, queue, local, history
<1>1. TypeOK'
  BY DEF IInv, TypeOK, Placed, PCs, EndPass
<1>2. Placed'
  BY DEF IInv, TypeOK, Placed, EndPass
<1>3. RaceNoted' /\ WorkState' /\ TargetsCovered' /\ RecordBacked'
  BY DEF IInv, TypeOK, Placed, RaceNoted, Busy, WorkState, DeletionState, CreationState,
         TargetsCovered, RecordBacked, EndPass, Creating, Deleting
<1>4. NoOrphans'
  BY UnseenOrphans DEF IInv, Unseen
<1> QED BY <1>1, <1>2, <1>3, <1>4 DEF IInv

(* SubmitConnect preserves the invariant.                                   *)
LEMMA SubmitConnectKeeps ==
  ASSUME IInv, NEW cfg \in Configs, SubmitConnect(cfg)
  PROVE  IInv'
<1> USE ConfigAssumption, NameAssumption, BoundAssumption DEF Procs, Sides, CreatePCs, DeletePCs,
        stored, cloud, queue, local, history
<1>1. TypeOK'
  BY DEF IInv, TypeOK, Placed, PCs, SubmitConnect, Jobs
<1>2. Placed'
  BY DEF IInv, TypeOK, Placed, SubmitConnect
<1>3. RaceNoted' /\ WorkState' /\ TargetsCovered' /\ RecordBacked'
  BY DEF IInv, TypeOK, Placed, RaceNoted, Busy, WorkState, DeletionState, CreationState,
         TargetsCovered, RecordBacked, SubmitConnect, Creating, Deleting
<1>4. NoOrphans'
  BY UnseenOrphans DEF IInv, Unseen
<1> QED BY <1>1, <1>2, <1>3, <1>4 DEF IInv

(* SubmitDisconnect preserves the invariant.                                *)
LEMMA SubmitDisconnectKeeps ==
  ASSUME IInv, NEW t \in Conns \cup Configs, SubmitDisconnect(t)
  PROVE  IInv'
<1> USE ConfigAssumption, NameAssumption, BoundAssumption DEF Procs, Sides, CreatePCs, DeletePCs,
        stored, cloud, queue, local, history
<1>1. TypeOK'
  BY DEF IInv, TypeOK, Placed, PCs, SubmitDisconnect, Jobs
<1>2. Placed'
  BY DEF IInv, TypeOK, Placed, SubmitDisconnect
<1>3. RaceNoted' /\ WorkState' /\ TargetsCovered' /\ RecordBacked'
  BY DEF IInv, TypeOK, Placed, RaceNoted, Busy, WorkState, DeletionState, CreationState,
         TargetsCovered, RecordBacked, SubmitDisconnect, Creating, Deleting
<1>4. NoOrphans'
  BY UnseenOrphans DEF IInv, Unseen
<1> QED BY <1>1, <1>2, <1>3, <1>4 DEF IInv

(* Discover preserves the invariant.                                        *)
LEMMA DiscoverKeeps ==
  ASSUME IInv, Discover
  PROVE  IInv'
<1> USE ConfigAssumption, NameAssumption, BoundAssumption DEF Procs, Sides, CreatePCs, DeletePCs,
        stored, cloud, queue, local, history
<1>1. TypeOK'
  BY DEF IInv, TypeOK, Placed, PCs, Discover
<1>2. Placed'
  BY DEF IInv, TypeOK, Placed, Discover
<1>3. RaceNoted' /\ WorkState' /\ TargetsCovered' /\ RecordBacked'
  BY DEF IInv, TypeOK, Placed, RaceNoted, Busy, WorkState, DeletionState, CreationState,
         TargetsCovered, RecordBacked, Discover, Creating, Deleting
<1>4. NoOrphans'
  BY UnseenOrphans DEF IInv, Unseen
<1> QED BY <1>1, <1>2, <1>3, <1>4 DEF IInv

(* Restart preserves the invariant.                                         *)
LEMMA RestartKeeps ==
  ASSUME IInv, Restart
  PROVE  IInv'
<1> USE ConfigAssumption, NameAssumption, BoundAssumption DEF Procs, Sides, CreatePCs, DeletePCs,
        stored, cloud, queue, local, history
<1>1. TypeOK'
  <2>1. failed' \in BOOLEAN
    BY DEF IInv, TypeOK, Restart
  <2>2. \A c \in Conns : MadeFor(c) \subseteq Configs
    BY DEF IInv, Placed, MadeFor, Creating
  <2>3. leftover' \in [Conns -> SUBSET Configs]
    <3>1. \A c \in Conns : leftover[c] \cup MadeFor(c) \in SUBSET Configs
      BY <2>2 DEF IInv, TypeOK
    <3> QED BY <3>1 DEF Restart
  <2> QED BY <2>1, <2>3 DEF IInv, TypeOK, Placed, PCs, Restart, Fault
<1>2. Placed'
  BY DEF IInv, TypeOK, Placed, Restart, Fault
<1>3. RaceNoted'
  BY DEF IInv, TypeOK, Placed, RaceNoted, Busy, Restart, Fault, Creating, Deleting, Other
<1>4. WorkState'
  BY DEF IInv, TypeOK, Placed, WorkState, RaceNoted, Busy, DeletionState, CreationState,
         NoOrphans, Restart, Fault, Creating, Deleting, Other
<1>5. TargetsCovered'
  BY DEF IInv, TypeOK, Placed, TargetsCovered, Restart, Fault
<1>6. NoOrphans'
  <2> SUFFICES ASSUME NEW c \in Conns \ raced PROVE Accounted(c)'
    BY DEF Restart, NoOrphans
  <2>1. leftover'[c] = leftover[c] \cup MadeFor(c) /\ UNCHANGED <<db, attached, rule>>
    BY DEF Restart
  <2>2. BeingMade(c) => MadeFor(c) # {}
    BY DEF BeingMade, MadeFor
  <2>3. Accounted(c)
    BY DEF IInv, NoOrphans
  <2> QED BY <2>1, <2>2, <2>3 DEF Accounted
<1>7. RecordBacked'
  BY DEF IInv, TypeOK, Placed, RecordBacked, Restart, Fault, Creating, Deleting
<1> QED BY <1>1, <1>2, <1>3, <1>4, <1>5, <1>6, <1>7 DEF IInv

(* Every step preserves the invariant.                                      *)
LEMMA NextKeeps == IInv /\ [Next]_vars => IInv'
<1> SUFFICES ASSUME IInv, [Next]_vars PROVE IInv'
  OBVIOUS
<1>1. CASE Worker
  <2>1. CASE Create("worker")
    BY <2>1, BeginItemKeeps, AlreadyExistsKeeps, StartCreationKeeps, AddRuleKeeps, ConnectKeeps,
       SaveKeeps, CreateFailsKeeps DEF Create, Procs
  <2>2. CASE Delete
    BY <2>2, DropWatchKeeps, NothingToDeleteKeeps, StartDeletionKeeps, DetachKeeps,
       RemoveRuleKeeps, DeleteRecordKeeps, DeleteFailsKeeps DEF Delete
  <2> QED BY <1>1, <2>1, <2>2, TakeConnectKeeps, ConfigFailsKeeps, TakeDisconnectKeeps,
             EndJobKeeps, RescheduleKeeps DEF Worker
<1>2. CASE Refresher
  <2>1. CASE Create("refresher")
    BY <2>1, BeginItemKeeps, AlreadyExistsKeeps, StartCreationKeeps, AddRuleKeeps, ConnectKeeps,
       SaveKeeps, CreateFailsKeeps DEF Create, Procs
  <2> QED BY <1>2, <2>1, StartPassKeeps, RefreshWatchKeeps, AbortPassKeeps, EndPassKeeps
          DEF Refresher
<1>3. CASE UNCHANGED vars
  <2>1. NoOrphans'
    BY <1>3, UnseenOrphans DEF IInv, Unseen
  <2> QED BY <1>3, <2>1 DEF vars, stored, cloud, queue, local, history, IInv, TypeOK, Placed,
                            RaceNoted, WorkState, DeletionState, CreationState, TargetsCovered,
                            RecordBacked, Busy, Creating, Deleting
<1> QED BY <1>1, <1>2, <1>3, SubmitConnectKeeps, SubmitDisconnectKeeps, DiscoverKeeps, RestartKeeps
        DEF Next

(* The inductive invariant holds of every behaviour. *)
THEOREM Invariance == Spec => []IInv
BY InitIInv, NextKeeps, PTL DEF Spec
-----------------------------------------------------------------------------
(* The variables keep their types. *)
THEOREM TypeCorrect == Spec => []TypeOK
<1>1. IInv => TypeOK
  BY DEF IInv
<1> QED BY <1>1, Invariance, PTL

(* A record stands for a connection that is there, whatever calls failed,   *)
(* were retried or cut short by a restart, unless two goroutines worked on  *)
(* the connection at once or its deletion has begun                         *)
(* (awi_connection_controller.go:281-347, disconnect.go:104-143).           *)
THEOREM RecordsAreBacked == Spec => []RecordBacked
<1>1. IInv => RecordBacked
  BY DEF IInv
<1> QED BY <1>1, Invariance, PTL

(* Every rule and every attachment in the clouds is one a record or a       *)
(* creation under way tells of, or was left by a creation of the same name  *)
(* that broke off, however many configs ask for the connection: a deletion  *)
(* leaves no more than that, unless two goroutines raced                    *)
(* (awi_connection_controller.go:1538-1587, disconnect.go:104-143).         *)
THEOREM NothingOrphaned == Spec => []NoOrphans
<1>1. IInv => NoOrphans
  BY DEF IInv
<1> QED BY <1>1, Invariance, PTL

(* A connection nobody is creating and no broken-off creation left anything  *)
(* of is set up exactly as recorded, links and rules of every name, whatever *)
(* was retried, restarted or done to other connections                       *)
(* (awi_connection_controller.go:281-347, disconnect.go:104-143).            *)
THEOREM RecordsAreExact == Spec => []RecordExact
<1>1. ASSUME TypeOK, RecordBacked, NoOrphans,
             NEW c \in Conns, c \notin raced \cup torn, leftover[c] = {}, ~BeingMade(c)
      PROVE  SetUp(c) = Recorded(c)
  <2>1. MadeFor(c) = {}
    BY <1>1 DEF BeingMade, MadeFor
  <2>2. attached[c] # {} => db[c] # None
    BY <1>1 DEF NoOrphans, Accounted
  <2>3. rule[c] \subseteq RuleOf(db[c])
    BY <1>1, <2>1 DEF NoOrphans, Accounted, RuleOf
  <2>4. db[c] # None => attached[c] = Sides /\ RuleOf(db[c]) \subseteq rule[c]
    BY <1>1 DEF RecordBacked
  <2>5. db[c] = None => RuleOf(db[c]) = {}
    BY NameAssumption DEF RuleOf, Allowing
  <2>6. attached[c] = (IF db[c] = None THEN {} ELSE Sides) /\ rule[c] = RuleOf(db[c])
    BY <2>2, <2>3, <2>4, <2>5
  <2> QED BY <2>6 DEF SetUp, Recorded
<1>2. TypeOK /\ RecordBacked /\ NoOrphans => RecordExact
  BY <1>1 DEF RecordExact
<1> QED BY <1>2, TypeCorrect, RecordsAreBacked, NothingOrphaned, PTL

(* A connect request that succeeds has a record for every connection        *)
(* (awi_connection_controller.go:265-279).                                  *)
THEOREM SuccessIsRecorded == Spec => []SuccessMeansRecorded
<1>1. IInv => SuccessMeansRecorded
  BY DEF IInv, TargetsCovered, SuccessMeansRecorded
<1> QED BY <1>1, Invariance, PTL
-----------------------------------------------------------------------------
(* What the worker is creating is not marked: it took the mark away before. *)
WorkerUnmarked ==
  pc["worker"] \in {"lookup"} \cup CreatePCs => conn["worker"] \notin marked

(* Every step keeps it, and with it what is settled stays settled.          *)
LEMMA UnmarkedKeeps ==
  ASSUME IInv, WorkerUnmarked, [Next]_vars
  PROVE  /\ WorkerUnmarked'
         /\ \A c \in Conns : Settled(c) => Settled(c)' \/ c \notin marked'
<1> USE NameAssumption DEF Procs, CreatePCs, DeletePCs, stored, cloud, queue, local, history
<1>0. TypeOK /\ Placed
  BY DEF IInv
<1>1. ASSUME NEW p \in Procs, Create(p)
      PROVE  WorkerUnmarked' /\ \A c \in Conns : Settled(c) => Settled(c)' \/ c \notin marked'
  <2>1. CASE BeginItem(p)
    BY <1>0, <2>1 DEF TypeOK, Placed, BeginItem, LeftAlone, Settled, WorkerUnmarked
  <2>2. CASE AlreadyExists(p) \/ StartCreation(p) \/ AddRule(p) \/ Connect(p)
    BY <1>0, <2>2 DEF TypeOK, Placed, AlreadyExists, StartCreation, AddRule, Connect, NextItem,
                      Settled, WorkerUnmarked
  <2>3. CASE Save(p) \/ CreateFails(p)
    BY <1>0, <2>3 DEF TypeOK, Placed, Save, CreateFails, NextItem, Settled, WorkerUnmarked
  <2> QED BY <1>1, <2>1, <2>2, <2>3 DEF Create
<1>2. CASE Delete
  <2>1. CASE DropWatch \/ NothingToDelete \/ StartDeletion \/ Detach \/ RemoveRule
    BY <1>0, <2>1 DEF TypeOK, Placed, DropWatch, NothingToDelete, StartDeletion, Detach,
                      RemoveRule, NextItem, Settled, WorkerUnmarked
  <2>2. CASE DeleteRecord \/ DeleteFails
    BY <1>0, <2>2 DEF TypeOK, Placed, DeleteRecord, DeleteFails, NextItem, Settled, WorkerUnmarked
  <2> QED BY <1>2, <2>1, <2>2 DEF Delete
<1>3. CASE TakeConnect \/ ConfigFails \/ TakeDisconnect \/ EndJob \/ Reschedule
  BY <1>0, <1>3 DEF TypeOK, Placed, TakeConnect, ConfigFails, TakeDisconnect, TakeJob, EndJob,
                    Reschedule, Settled, WorkerUnmarked
<1>4. CASE StartPass \/ EndPass \/ \E w \in Configs : RefreshWatch(w) \/ AbortPass(w)
  BY <1>0, <1>4 DEF TypeOK, Placed, StartPass, EndPass, RefreshWatch, AbortPass, Settled,
                    WorkerUnmarked
<1>5. CASE Discover \/ Restart \/ UNCHANGED vars
  BY <1>0, <1>5 DEF TypeOK, Placed, Discover, Restart, vars, Settled, WorkerUnmarked
<1>6. CASE \/ \E cfg \in Configs : SubmitConnect(cfg)
           \/ \E t \in Conns \cup Configs : SubmitDisconnect(t)
  BY <1>0, <1>6 DEF TypeOK, Placed, SubmitConnect, SubmitDisconnect, Settled, WorkerUnmarked
<1> QED BY <1>1, <1>2, <1>3, <1>4, <1>5, <1>6 DEF Next, Worker, Refresher

(* A marked connection without a record that the refresher is not at work   *)
(* on stays deleted until a user asks for it again or the process restarts  *)
(* (awi_connection_controller.go:281-297).                                  *)
THEOREM DeletionIsSettled == Spec => DeletionSettles
<1>1. Init => WorkerUnmarked
  BY DEF Init, WorkerUnmarked, CreatePCs, Procs
<1>2. IInv /\ WorkerUnmarked /\ [Next]_vars
        => WorkerUnmarked' /\ [\A c \in Conns : Settled(c) => Settled(c)' \/ c \notin marked']_vars
  BY UnmarkedKeeps
<1> QED BY <1>1, <1>2, Invariance, PTL DEF Spec, DeletionSettles
-----------------------------------------------------------------------------
(* A connection whose detachment has begun and that nobody raced on has its *)
(* record still.                                                            *)
TornRecorded == \A c \in Conns \ raced : c \in torn => db[c] # None

LInv == IInv /\ TornRecorded

(* The stages of a connection's life, one by one, before and after a step.  *)
LEMMA LifeIs ==
  ASSUME NEW c \in Conns
  PROVE  /\ Lives[c] = LifeOf(c) /\ Lives'[c] = LifeOf(c)'
         /\ c \in raced => LifeOf(c) = "contested"
         /\ c \notin raced /\ db[c] # None => LifeOf(c) = IF c \in torn THEN "unmaking" ELSE "up"
         /\ c \notin raced /\ db[c] = None /\ BeingMade(c) => LifeOf(c) = "making"
         /\ c \notin raced /\ db[c] = None /\ ~BeingMade(c)
              => LifeOf(c) = IF leftover[c] # {} THEN "partial" ELSE "absent"
         /\ c \in raced' => LifeOf(c)' = "contested"
         /\ c \notin raced' /\ db'[c] # None
              => LifeOf(c)' = IF c \in torn' THEN "unmaking" ELSE "up"
         /\ c \notin raced' /\ db'[c] = None /\ BeingMade(c)' => LifeOf(c)' = "making"
         /\ c \notin raced' /\ db'[c] = None /\ ~BeingMade(c)'
              => LifeOf(c)' = IF leftover'[c] # {} THEN "partial" ELSE "absent"
BY DEF Lives, LifeOf

(* What the life of a connection depends on.                                *)
Untouched(c) ==
  /\ db'[c] = db[c] /\ attached'[c] = attached[c]
  /\ rule'[c] = rule[c]
  /\ (c \in raced' <=> c \in raced)
  /\ (c \in torn' <=> c \in torn)
  /\ leftover'[c] = leftover[c]
  /\ (BeingMade(c)' <=> BeingMade(c))

LEMMA UntouchedSame ==
  ASSUME NEW c \in Conns, Untouched(c)
  PROVE  Life!Same(c)
BY LifeIs DEF Untouched, LifeOf, Life!Same, Life!SameRecord, Life!SameCloud, Life!SameRule

(* A step that goes one step of the life of c and touches no other.         *)
LEMMA OneStep ==
  ASSUME NEW c \in Conns, Life!Step(c), \A d \in Conns \ {c} : Untouched(d)
  PROVE  Life!Next
<1>1. \A d \in Conns \ {c} : Life!Same(d)
  BY UntouchedSame
<1> QED BY <1>1 DEF Life!Next

(* A step that touches no connection at all.                                *)
LEMMA NoStep ==
  ASSUME UNCHANGED <<db, attached, rule, raced, torn, leftover>>,
         \A c \in Conns : BeingMade(c)' <=> BeingMade(c)
  PROVE  UNCHANGED Life!vars
<1>1. \A c \in Conns : LifeOf(c)' = LifeOf(c)
  BY DEF LifeOf
<1>2. Lives' = Lives
  BY <1>1 DEF Lives
<1> QED BY <1>2 DEF Life!vars

(* Whatever happens to a contested connection is no surprise.               *)
LEMMA ContestedStep ==
  ASSUME NEW c \in Conns, c \in raced, c \in raced'
  PROVE  Life!Step(c)
BY LifeIs DEF Life!Step, Life!Contend, Life!Moves

(* Where nobody races, one goroutine at most is at work on a connection.    *)
LEMMA Alone ==
  ASSUME IInv, NEW c \in Conns \ raced, NEW p \in Procs, Busy(p, c)
  PROVE  ~Busy(Other(p), c)
BY DEF IInv, RaceNoted, Procs, Other

(* Which connections are being made depends on the goroutines' places.      *)
LEMMA MadeBy ==
  ASSUME NEW p \in Procs, NEW c,
         pc'[Other(p)] = pc[Other(p)], conn'[Other(p)] = conn[Other(p)]
  PROVE  /\ BeingMade(c) <=> Creating(p, c) \/ Creating(Other(p), c)
         /\ BeingMade(c)' <=> Creating(p, c)' \/ Creating(Other(p), c)
BY DEF BeingMade, Creating, Procs, Other

(* A creation begins where nothing is or where one broke off, or it meets   *)
(* another one.                                                             *)
LEMMA StartCreationLife ==
  ASSUME LInv, NEW p \in Procs, StartCreation(p)
  PROVE  Life!Next
<1> DEFINE c == conn[p]
<1> USE DEF CreatePCs, DeletePCs
<1>1. /\ c \in Conns /\ db[c] = None /\ pc[p] = "lookup" /\ conn' = conn
      /\ pc'[p] \in {"rule", "connect"} /\ pc'[Other(p)] = pc[Other(p)]
      /\ UNCHANGED <<db, attached, rule, torn, leftover>>
      /\ raced' = IF Busy(Other(p), c) THEN raced \cup {c} ELSE raced
  BY DEF LInv, IInv, TypeOK, Placed, StartCreation, Enter, stored, cloud, Procs, Other
<1>2. \A d \in Conns \ {c} : Untouched(d)
  BY <1>1, MadeBy DEF Untouched, Creating
<1>3. BeingMade(c)' /\ (BeingMade(c) <=> Creating(Other(p), c))
  BY <1>1, MadeBy DEF Creating
<1>4. Life!Step(c)
  <2>1. CASE c \in raced
    BY <1>1, <2>1, ContestedStep
  <2>2. CASE c \notin raced /\ Busy(Other(p), c)
    <3>1. Creating(Other(p), c)
      <4> SUFFICES ASSUME Deleting(Other(p), c) PROVE FALSE
        BY <2>2 DEF Busy
      <4>1. Other(p) = "worker"
        BY DEF LInv, IInv, Placed, Deleting, Procs, Other
      <4>2. db[c] # None
        BY <1>1, <2>2, <4>1 DEF LInv, IInv, WorkState, DeletionState
      <4> QED BY <1>1, <4>2
    <3> QED BY <1>1, <1>3, <2>2, <3>1, LifeIs
            DEF Life!Step, Life!Collide, Life!Moves, Life!SameCloud, Life!SameRule, Life!SameRecord
  <2>3. CASE c \notin raced /\ ~Busy(Other(p), c)
    BY <1>1, <1>3, <2>3, LifeIs DEF Busy, Life!Step, Life!Begin, Life!Moves, Life!SameCloud,
       Life!SameRule, Life!SameRecord
  <2> QED BY <2>1, <2>2, <2>3
<1> HIDE DEF c
<1> QED BY <1>1, <1>2, <1>4, OneStep

(* What a creation knows while nobody races with it.                        *)
LEMMA CreatorKnows ==
  ASSUME LInv, NEW p \in Procs, pc[p] \in CreatePCs
  PROVE  /\ conn[p] \in Conns /\ BeingMade(conn[p])
         /\ conn[p] \notin raced =>
              /\ db[conn[p]] = None /\ conn[p] \notin torn
              /\ LifeOf(conn[p]) = "making"
              /\ ~Creating(Other(p), conn[p])
              /\ pc[p] = "save" => /\ attached[conn[p]] = Sides
                                   /\ RuleOf(config[p]) \subseteq rule[conn[p]]
<1>1. conn[p] \in Conns /\ Creating(p, conn[p])
  BY DEF LInv, IInv, Placed, Creating
<1>2. BeingMade(conn[p])
  BY <1>1 DEF BeingMade
<1>3. ASSUME conn[p] \notin raced
      PROVE  /\ db[conn[p]] = None /\ conn[p] \notin torn
             /\ LifeOf(conn[p]) = "making"
             /\ ~Creating(Other(p), conn[p])
             /\ pc[p] = "save" => /\ attached[conn[p]] = Sides
                                  /\ RuleOf(config[p]) \subseteq rule[conn[p]]
  <2>1. CreationState(p, conn[p])
    BY <1>1, <1>3 DEF LInv, IInv, WorkState
  <2>2. ~Creating(Other(p), conn[p])
    BY <1>1, <1>3, Alone DEF Busy, LInv
  <2>3. db[conn[p]] = None
    BY <1>1, <2>1 DEF CreationState
  <2> QED BY <1>1, <1>2, <1>3, <2>1, <2>2, <2>3, LifeIs DEF CreationState, LInv, TornRecorded
<1> QED BY <1>1, <1>2, <1>3

(* The rule and the links only come while the connection is being made.     *)
LEMMA BuildLife ==
  ASSUME LInv, NEW p \in Procs, AddRule(p) \/ Connect(p)
  PROVE  Life!Next
<1> DEFINE c == conn[p]
<1>1. /\ pc[p] \in CreatePCs /\ pc'[p] \in CreatePCs /\ conn' = conn
      /\ pc'[Other(p)] = pc[Other(p)]
      /\ UNCHANGED <<db, raced, torn, leftover>>
      /\ attached[c] \subseteq attached'[c] /\ rule[c] \subseteq rule'[c]
      /\ \A d \in Conns \ {c} : attached'[d] = attached[d] /\ rule'[d] = rule[d]
  BY DEF LInv, IInv, TypeOK, Placed, AddRule, Connect, stored, history, CreatePCs, Procs, Other
<1>2. \A d \in Conns \ {c} : Untouched(d)
  BY <1>1, MadeBy DEF Untouched, Creating
<1>3. c \in Conns /\ BeingMade(c)'
  BY <1>1, CreatorKnows, MadeBy DEF Creating
<1>4. Life!Step(c)
  <2>1. CASE c \in raced
    BY <1>1, <1>3, <2>1, ContestedStep
  <2>2. CASE c \notin raced
    BY <1>1, <1>3, <2>2, CreatorKnows, LifeIs
       DEF Life!Step, Life!Build, Life!Moves, Life!Grows, Life!SameRecord
  <2> QED BY <2>1, <2>2
<1> HIDE DEF c
<1> QED BY <1>2, <1>3, <1>4, OneStep

(* The record comes last, and says what is there.                           *)
LEMMA SaveLife ==
  ASSUME LInv, NEW p \in Procs, Save(p)
  PROVE  Life!Next
<1> DEFINE c == conn[p]
<1>1. /\ pc[p] = "save" /\ pc[p] \in CreatePCs /\ pc'[p] = "loop"
      /\ pc'[Other(p)] = pc[Other(p)] /\ conn'[Other(p)] = conn[Other(p)]
      /\ UNCHANGED <<attached, rule, raced, torn>>
      /\ db'[c] = config[p] /\ config[p] \in Configs
      /\ \A d \in Conns \ {c} : db'[d] = db[d] /\ leftover'[d] = leftover[d]
  BY DEF LInv, IInv, TypeOK, Placed, Save, NextItem, cloud, CreatePCs, Procs, Other
<1>2. \A d \in Conns \ {c} : Untouched(d)
  BY <1>1, MadeBy DEF Untouched, Creating, CreatePCs
<1>3. c \in Conns
  BY <1>1, CreatorKnows
<1>4. Life!Step(c)
  <2>1. CASE c \in raced
    BY <1>1, <1>3, <2>1, ContestedStep
  <2>2. CASE c \notin raced
    BY <1>1, <1>3, <2>2, CreatorKnows, LifeIs, NameAssumption
       DEF RuleOf, Life!Step, Life!Complete, Life!Moves, Life!SameCloud, Life!SameRule
  <2> QED BY <2>1, <2>2
<1> HIDE DEF c
<1> QED BY <1>2, <1>3, <1>4, OneStep

(* A creation that breaks off leaves what it built.                         *)
LEMMA CreateFailsLife ==
  ASSUME LInv, NEW p \in Procs, CreateFails(p)
  PROVE  [Life!Next]_(Life!vars)
<1> PICK c \in Conns : c = conn[p]
  BY DEF LInv, IInv, Placed, CreateFails
<1>1. /\ pc[p] \in {"lookup"} \cup CreatePCs /\ pc'[p] = "loop"
      /\ pc'[Other(p)] = pc[Other(p)] /\ conn'[Other(p)] = conn[Other(p)]
      /\ UNCHANGED <<db, raced, torn>>
  BY DEF LInv, IInv, TypeOK, CreateFails, NextItem, stored, Procs, Other
<1>2. CASE pc[p] = "lookup"
  <2>1. UNCHANGED <<attached, rule, leftover>>
    BY <1>2 DEF CreateFails, cloud, CreatePCs
  <2>2. \A d \in Conns : BeingMade(d)' <=> BeingMade(d)
    BY <1>1, <1>2, MadeBy DEF Creating, CreatePCs
  <2> QED BY <1>1, <2>1, <2>2, NoStep
<1>3. CASE pc[p] \in CreatePCs
  <2>2. /\ attached[c] \subseteq attached'[c] /\ rule[c] \subseteq rule'[c] /\ leftover'[c] # {}
        /\ \A d \in Conns \ {c} : /\ attached'[d] = attached[d] /\ rule'[d] = rule[d]
                                  /\ leftover'[d] = leftover[d]
    BY <1>3 DEF CreateFails, cloud, LInv, IInv, TypeOK
  <2>3. \A d \in Conns \ {c} : Untouched(d)
    BY <1>1, <2>2, MadeBy DEF Untouched, Creating, CreatePCs
  <2>4. Life!Step(c)
    <3>1. CASE c \in raced
      BY <1>1, <3>1, ContestedStep
    <3>2. CASE c \notin raced
      <4>1. db'[c] = None /\ ~BeingMade(c)' /\ LifeOf(c) = "making"
        BY <1>1, <1>3, <3>2, CreatorKnows, MadeBy DEF Creating, CreatePCs
      <4>2. LifeOf(c)' = "partial"
        BY <1>1, <2>2, <3>2, <4>1, LifeIs
      <4> QED BY <1>1, <2>2, <4>1, <4>2, LifeIs
              DEF Life!Step, Life!BreakOff, Life!Moves, Life!Grows, Life!SameRecord
    <3> QED BY <3>1, <3>2
  <2> QED BY <2>3, <2>4, OneStep
<1> QED BY <1>1, <1>2, <1>3

(* What the worker knows of the connection it is deleting.                  *)
LEMMA DeleterKnows ==
  ASSUME LInv, pc["worker"] \in DeletePCs
  PROVE  /\ conn["worker"] \in Conns
         /\ conn["worker"] \notin raced =>
              /\ ~BeingMade(conn["worker"])
              /\ db[conn["worker"]] = config["worker"] /\ db[conn["worker"]] # None
              /\ LifeOf(conn["worker"]) \in {"up", "unmaking"}
              /\ ~Busy("refresher", conn["worker"])
              /\ pc["worker"] # "detach" =>
                   attached[conn["worker"]] = {} /\ conn["worker"] \in torn
              /\ pc["worker"] = "delete" => config["worker"] \notin rule[conn["worker"]]
<1> PICK c \in Conns : c = conn["worker"]
  BY DEF LInv, IInv, Placed, Procs
<1>1. Deleting("worker", c) /\ ~Creating("worker", c)
  BY DEF Deleting, Creating, CreatePCs, DeletePCs
<1>2. ASSUME c \notin raced
      PROVE  /\ db[c] = config["worker"] /\ db[c] # None /\ ~BeingMade(c)
             /\ LifeOf(c) \in {"up", "unmaking"}
             /\ ~Busy("refresher", c)
             /\ pc["worker"] # "detach" => attached[c] = {} /\ c \in torn
             /\ pc["worker"] = "delete" => config["worker"] \notin rule[c]
  <2>1. DeletionState(c)
    BY <1>2 DEF LInv, IInv, WorkState
  <2>2. ~Busy("refresher", c)
    BY <1>1, <1>2 DEF Busy, LInv, IInv, RaceNoted
  <2>3. db[c] = config["worker"] /\ db[c] # None
    BY <1>1, <2>1 DEF DeletionState, LInv, IInv, TypeOK, Procs
  <2>4. ~BeingMade(c)
    BY <1>1, <2>2 DEF BeingMade, Busy, Procs
  <2> QED BY <1>1, <1>2, <2>1, <2>2, <2>3, <2>4, LifeIs DEF DeletionState
<1> QED BY <1>2

(* The worker deletes: nobody's creation begins or ends.                    *)
LEMMA DeletionMakesNothing ==
  ASSUME pc["worker"] \notin CreatePCs, pc'["worker"] \notin CreatePCs,
         pc'["refresher"] = pc["refresher"], conn'["refresher"] = conn["refresher"]
  PROVE  \A d : BeingMade(d)' <=> BeingMade(d)
BY DEF BeingMade, Creating, Procs

(* Links and rule go only once the deletion has begun.                      *)
LEMMA TearDownLife ==
  ASSUME LInv, NEW c \in Conns, c = conn["worker"], pc["worker"] \in DeletePCs,
         UNCHANGED <<db, raced, leftover>>,
         attached'[c] \subseteq attached[c], rule'[c] \subseteq rule[c], c \in torn',
         \A d \in Conns \ {c} : /\ attached'[d] = attached[d] /\ rule'[d] = rule[d]
                                /\ (d \in torn' <=> d \in torn),
         \A d : BeingMade(d)' <=> BeingMade(d)
  PROVE  Life!Next
<1>1. \A d \in Conns \ {c} : Untouched(d)
  BY DEF Untouched
<1>2. Life!Step(c)
  <2>1. CASE c \in raced
    BY <2>1, ContestedStep
  <2>2. CASE c \notin raced
    BY <2>2, DeleterKnows, LifeIs
       DEF Life!Step, Life!TearDown, Life!Moves, Life!Shrinks, Life!SameRecord
  <2> QED BY <2>1, <2>2
<1> QED BY <1>1, <1>2, OneStep

(* The deletion takes down one thing after the other.                       *)
LEMMA DetachLife ==
  ASSUME LInv, Detach \/ RemoveRule
  PROVE  Life!Next
<1> PICK c \in Conns : c = conn["worker"]
  BY DEF LInv, IInv, Placed, Procs, Detach, RemoveRule, DeletePCs
<1>1. /\ pc["worker"] \in {"detach", "unrule"} /\ pc'["worker"] \in {"detach", "unrule", "delete"}
      /\ pc'["refresher"] = pc["refresher"] /\ conn' = conn
      /\ UNCHANGED <<db, raced, leftover>>
      /\ attached'[c] \subseteq attached[c] /\ rule'[c] \subseteq rule[c] /\ c \in torn'
      /\ \A d \in Conns \ {c} : /\ attached'[d] = attached[d] /\ rule'[d] = rule[d]
                                /\ (d \in torn' <=> d \in torn)
  BY DEF LInv, IInv, TypeOK, Detach, RemoveRule, RuleToRemove, stored, Procs
<1>2. \A d : BeingMade(d)' <=> BeingMade(d)
  BY <1>1, DeletionMakesNothing DEF CreatePCs
<1> QED BY <1>1, <1>2, TearDownLife DEF DeletePCs

(* A failed call takes down something or nothing.                           *)
LEMMA DeleteFailsLife ==
  ASSUME LInv, DeleteFails
  PROVE  [Life!Next]_(Life!vars)
<1>1. /\ pc["worker"] \in {"dlookup"} \cup DeletePCs /\ pc'["worker"] = "loop"
      /\ pc'["refresher"] = pc["refresher"] /\ conn'["refresher"] = conn["refresher"]
      /\ UNCHANGED <<db, raced, leftover>>
  BY DEF LInv, IInv, TypeOK, DeleteFails, NextItem, stored, Procs
<1>2. \A d : BeingMade(d)' <=> BeingMade(d)
  BY <1>1, DeletionMakesNothing DEF CreatePCs, DeletePCs
<1>3. CASE UNCHANGED <<cloud, torn>>
  BY <1>1, <1>2, <1>3, NoStep DEF cloud
<1>4. CASE ~UNCHANGED <<cloud, torn>>
  <2>1. pc["worker"] \in {"detach", "unrule"}
    BY <1>4 DEF DeleteFails
  <2> PICK c \in Conns : c = conn["worker"]
    BY <2>1 DEF LInv, IInv, Placed, Procs, DeletePCs
  <2>2. c \in raced \/ (pc["worker"] = "unrule" => c \in torn)
    BY <2>1, DeleterKnows DEF DeletePCs
  <2>3. /\ attached'[c] \subseteq attached[c] /\ rule'[c] \subseteq rule[c]
        /\ c \in torn' \/ c \in raced
        /\ \A d \in Conns \ {c} : /\ attached'[d] = attached[d] /\ rule'[d] = rule[d]
                                  /\ (d \in torn' <=> d \in torn)
    BY <1>4, <2>1, <2>2 DEF DeleteFails, RuleToRemove, LInv, IInv, TypeOK, cloud
  <2>4. CASE c \in torn'
    BY <1>1, <1>2, <2>1, <2>3, <2>4, TearDownLife DEF DeletePCs
  <2>5. CASE c \in raced
    <3>1. \A d \in Conns \ {c} : Untouched(d)
      BY <1>1, <1>2, <2>3 DEF Untouched
    <3>2. Life!Step(c)
      BY <1>1, <2>5, ContestedStep
    <3> QED BY <3>1, <3>2, OneStep
  <2> QED BY <2>3, <2>4, <2>5
<1> QED BY <1>3, <1>4

(* The record goes last: nothing is connected any more, and a rule stays    *)
(* only where the record did not tell of it.                                *)
LEMMA DeleteRecordLife ==
  ASSUME LInv, DeleteRecord
  PROVE  Life!Next
<1> PICK c \in Conns : c = conn["worker"]
  BY DEF LInv, IInv, Placed, Procs, DeleteRecord, DeletePCs
<1>1. /\ pc["worker"] = "delete" /\ pc["worker"] \in DeletePCs /\ pc'["worker"] = "loop"
      /\ pc'["refresher"] = pc["refresher"] /\ conn'["refresher"] = conn["refresher"]
      /\ UNCHANGED <<attached, rule>>
  BY DEF LInv, IInv, TypeOK, DeleteRecord, NextItem, cloud, DeletePCs, Procs
<1>2. /\ db'[c] = None /\ c \notin torn'
      /\ leftover'[c] = leftover[c] \cap rule[c]
      /\ IF Gone(c) THEN c \notin raced' ELSE c \in raced' <=> c \in raced
      /\ \A d \in Conns \ {c} : /\ db'[d] = db[d] /\ (d \in torn' <=> d \in torn)
                                /\ (d \in raced' <=> d \in raced)
                                /\ leftover'[d] = leftover[d]
  BY DEF LInv, IInv, TypeOK, DeleteRecord
<1>3. \A d : BeingMade(d)' <=> BeingMade(d)
  BY <1>1, DeletionMakesNothing DEF CreatePCs, DeletePCs
<1>4. \A d \in Conns \ {c} : Untouched(d)
  BY <1>1, <1>2, <1>3 DEF Untouched
<1>5. ~Creating("worker", c)
  BY <1>1 DEF Creating, CreatePCs
<1>6. Life!Step(c)
  <2>1. CASE c \in raced /\ ~Gone(c)
    BY <1>2, <2>1, ContestedStep
  <2>2. CASE c \in raced /\ Gone(c)
    <3>1. attached[c] = {} /\ rule[c] = {} /\ ~BeingMade(c)'
      BY <1>3, <1>5, <2>2 DEF Gone, BeingMade, Busy, Procs
    <3>2. LifeOf(c) = "contested" /\ LifeOf(c)' = "absent"
      BY <1>2, <2>2, <3>1, LifeIs
    <3> QED BY <1>1, <1>2, <3>1, <3>2, LifeIs
            DEF Life!Step, Life!Resolve, Life!Moves, Life!SameCloud, Life!SameRule
  <2>3. CASE c \notin raced
    <3>1. /\ attached[c] = {} /\ c \in torn /\ ~BeingMade(c)
          /\ db[c] # None /\ db[c] \notin rule[c]
      BY <1>1, <2>3, DeleterKnows
    <3>2. LifeOf(c) = "unmaking" /\ ~BeingMade(c)' /\ c \notin raced'
      BY <1>2, <1>3, <2>3, <3>1, LifeIs
    <3>3. rule[c] \subseteq leftover[c]
      <4>1. MadeFor(c) = {}
        BY <3>1 DEF BeingMade, MadeFor
      <4> QED BY <2>3, <3>1, <4>1 DEF LInv, IInv, NoOrphans, Accounted
    <3>4. leftover'[c] = rule[c]
      BY <1>2, <3>3
    <3>5. LifeOf(c)' = IF rule[c] = {} THEN "absent" ELSE "partial"
      BY <1>2, <3>2, <3>4, LifeIs
    <3> QED BY <1>1, <1>2, <3>1, <3>2, <3>5, LifeIs
            DEF Life!Step, Life!Remove, Life!Moves, Life!SameCloud, Life!SameRule
  <2> QED BY <2>1, <2>2, <2>3
<1> QED BY <1>4, <1>6, OneStep

(* The worker that meets a creation of the refresher finds no record yet:   *)
(* a deletion that starts contests nothing.                                 *)
LEMMA StartDeletionLife ==
  ASSUME LInv, StartDeletion
  PROVE  UNCHANGED Life!vars
<1> PICK c \in Conns : c = conn["worker"]
  BY DEF StartDeletion
<1>1. /\ pc["worker"] = "dlookup" /\ pc'["worker"] = "detach" /\ db[c] # None
      /\ pc'["refresher"] = pc["refresher"] /\ conn' = conn
      /\ UNCHANGED <<db, attached, rule, torn, leftover>>
      /\ raced' = IF Busy("refresher", c) THEN raced \cup {c} ELSE raced
  BY DEF LInv, IInv, TypeOK, StartDeletion, Enter, Other, stored, cloud, Procs
<1>2. raced' = raced
  <2> SUFFICES ASSUME Busy("refresher", c), c \notin raced PROVE FALSE
    BY <1>1
  <2>1. Creating("refresher", c)
    BY DEF Busy, Deleting, LInv, IInv, Placed, CreatePCs, DeletePCs
  <2>2. db[c] = None
    BY <2>1 DEF LInv, IInv, WorkState, CreationState, Procs
  <2> QED BY <1>1, <2>2
<1>3. \A d : BeingMade(d)' <=> BeingMade(d)
  BY <1>1, DeletionMakesNothing DEF CreatePCs
<1> QED BY <1>1, <1>2, <1>3, NoStep

(* With the process, creations break off, and nothing else changes.         *)
LEMMA RestartLife ==
  ASSUME LInv, Restart
  PROVE  Life!Crash
<1>1. /\ UNCHANGED <<db, attached, rule, raced, torn>>
      /\ \A c \in Conns : leftover'[c] = leftover[c] \cup MadeFor(c)
      /\ \A c \in Conns : ~BeingMade(c)'
  BY DEF Restart, stored, cloud, BeingMade, Creating, CreatePCs
<1>2. \A c \in Conns : BeingMade(c) <=> MadeFor(c) # {}
  BY DEF BeingMade, MadeFor
<1>3. ASSUME NEW c \in Conns
      PROVE  (Lives[c] # "making" /\ Life!Same(c)) \/ Life!Abandon(c)
  <2>1. CASE c \in raced \/ db[c] # None \/ ~BeingMade(c)
    BY <1>2, <1>1, <2>1, LifeIs DEF Life!Same, Life!SameRecord, Life!SameCloud, Life!SameRule
  <2>2. CASE c \notin raced /\ db[c] = None /\ BeingMade(c)
    BY <1>2, <1>1, <2>2, LifeIs
       DEF Life!Abandon, Life!Moves, Life!SameRecord, Life!SameCloud, Life!SameRule
  <2> QED BY <2>1, <2>2
<1> QED BY <1>3 DEF Life!Crash

(* Steps that look, queue, mark or list are not seen.                       *)
LEMMA UnseenLife ==
  ASSUME LInv, Unseen
  PROVE  UNCHANGED Life!vars /\ UNCHANGED <<db, raced, torn>>
BY UnseenSame, MakersSame, NoStep DEF LInv, IInv

(* Every step is a step in the life of one connection, the end of all       *)
(* creations, or not seen.                                                  *)
LEMMA LifeStep ==
  ASSUME LInv, [Next]_vars
  PROVE  [Life!Next]_(Life!vars)
<1>1. ASSUME NEW p \in Procs, Create(p) PROVE [Life!Next]_(Life!vars)
  BY <1>1, UnseenLife, StartCreationLife, BuildLife, SaveLife, CreateFailsLife DEF Create, Unseen
<1>2. CASE Delete
  BY <1>2, UnseenLife, StartDeletionLife, DetachLife, DeleteRecordLife, DeleteFailsLife
     DEF Delete, Unseen
<1>3. CASE Restart
  BY <1>3, RestartLife DEF Life!Next
<1> QED BY <1>1, <1>2, <1>3, UnseenLife DEF Next, Worker, Refresher, Procs, Unseen

(* A record that is being taken down stays one until it goes.               *)
LEMMA TornStep ==
  ASSUME LInv, [Next]_vars
  PROVE  TornRecorded'
<1> USE DEF Procs
<1>1. ASSUME NEW p \in Procs, Create(p) PROVE TornRecorded'
  <2>1. CASE BeginItem(p) \/ AlreadyExists(p)
    BY <2>1, UnseenLife DEF TornRecorded, LInv, Unseen
  <2>2. CASE StartCreation(p) \/ AddRule(p) \/ Connect(p) \/ CreateFails(p)
    BY <2>2 DEF StartCreation, Enter, AddRule, Connect, CreateFails, stored, history,
                TornRecorded, LInv
  <2>3. CASE Save(p)
    <3>1. config[p] # None
      BY <2>3, NameAssumption DEF Save, LInv, IInv, Placed, CreatePCs
    <3> QED BY <2>3, <3>1 DEF Save, TornRecorded, LInv, IInv, TypeOK
  <2> QED BY <1>1, <2>1, <2>2, <2>3 DEF Create
<1>2. CASE Delete
  <2>1. CASE DropWatch \/ NothingToDelete
    BY <2>1, UnseenLife DEF TornRecorded, LInv, Unseen
  <2>2. CASE StartDeletion
    BY <2>2 DEF StartDeletion, Enter, stored, TornRecorded, LInv
  <2>3. CASE Detach \/ RemoveRule \/ DeleteFails
    <3>1. /\ UNCHANGED <<db, raced>>
          /\ torn' = torn \/ (torn' = torn \cup {conn["worker"]} /\ pc["worker"] \in DeletePCs)
      BY <2>3 DEF Detach, RemoveRule, DeleteFails, stored, DeletePCs
    <3> QED BY <3>1, DeleterKnows DEF TornRecorded, LInv
  <2>4. CASE DeleteRecord
    BY <2>4 DEF DeleteRecord, TornRecorded, LInv, IInv, TypeOK, Gone
  <2> QED BY <1>2, <2>1, <2>2, <2>3, <2>4 DEF Delete
<1>3. CASE Restart
  BY <1>3 DEF Restart, stored, TornRecorded, LInv
<1> QED BY <1>1, <1>2, <1>3, UnseenLife DEF Next, Worker, Refresher, TornRecorded, LInv, Unseen

(* Whatever worker, refresher, providers and restarts do, every connection  *)
(* lives the life of ConnectionLife: up only with all its record promises,  *)
(* added to only while it is made, taken from only while it is deleted, its *)
(* record gone only when nothing the record knows of is left.               *)
THEOREM ImplementsLife == Spec => LifeSpec
<1>1. Init => Life!Init /\ TornRecorded
  BY DEF Init, Life!Init, TornRecorded, Lives, LifeOf, BeingMade, Creating, CreatePCs, Procs
<1>2. IInv /\ TornRecorded /\ [Next]_vars => TornRecorded' /\ [Life!Next]_(Life!vars)
  BY TornStep, LifeStep DEF LInv
<1> QED BY <1>1, <1>2, Invariance, PTL DEF Spec, LifeSpec, Life!Spec
-----------------------------------------------------------------------------
(* A set of numbers that is not empty has a least one.                      *)
LEMMA LeastOf ==
  ASSUME NEW T, T \subseteq Nat, T # {}
  PROVE  \E m \in T : \A k \in T : m <= k
<1> DEFINE R == OpToRel(<, Nat)
<1>1. IsWellFoundedOn(R, Nat)
  BY Zenon, NatLessThanWellFounded
<1>2. \A a, b \in Nat : a < b => <<a, b>> \in R
  BY Zenon DEF OpToRel
<1> HIDE DEF R
<1>3. PICK m \in T : \A k \in T : ~ (<<k, m>> \in R)
  BY Zenon, <1>1, WFMin
<1>4. \A k \in T : ~ (k < m)
  BY <1>2, <1>3
<1> QED BY <1>4

(* What remains of a pass has a first watch.                                *)
LEMMA FirstWatch ==
  ASSUME TypeOK, pc["refresher"] = "loop", todo["refresher"] = {}, snapshot # {}
  PROVE  \E w \in Configs : NextWatch(w)
<1> DEFINE T == {Key[v] : v \in snapshot}
<1>1. T \subseteq Nat /\ T # {}
  BY ConfigAssumption DEF TypeOK
<1>2. PICK m \in T : \A k \in T : m <= k
  <2> HIDE DEF T
  <2> QED BY <1>1, LeastOf
<1>3. PICK w \in snapshot : Key[w] = m
  OBVIOUS
<1>4. \A v \in snapshot : Key[w] <= Key[v]
  BY <1>2, <1>3
<1> QED BY <1>3, <1>4 DEF NextWatch, TypeOK

(* A pass of the refresher is never stuck: what remains of it has a first   *)
(* watch, whatever their keys (awi_connection_controller.go:238-263).       *)
THEOREM PassNeverStuck == Spec => []PassGoesOn
<1>1. IInv => PassGoesOn
  BY FirstWatch DEF IInv, Placed, PassGoesOn, CreatePCs
<1> QED BY <1>1, Invariance, PTL

(* A provider's call covers something, as long as a side is left.           *)
LEMMA CallsRunOut ==
  ASSUME NEW p, StillLeft(p) # {}
  PROVE  Within(StillLeft(p), left[p])
BY DEF StillLeft, CallCovers, Within

(* The steps of a creation, in their order.                                 *)
LEMMA StepsAre ==
  /\ StepsLeft["lookup"] = 4 /\ StepsLeft["rule"] = 3 /\ StepsLeft["connect"] = 2
  /\ StepsLeft["save"] = 1 /\ StepsLeft["loop"] = 0
BY DEF StepsLeft, PCs, CreatePCs, DeletePCs

(* The refresher's own steps bring its pass to an end.                      *)
LEMMA RefresherNearer ==
  ASSUME IInv, pc["refresher"] # "idle", Refresher
  PROVE  Nearer("refresher")
<1> DEFINE r == "refresher"
<1> USE DEF Procs
<1>0. TypeOK /\ r \in Procs
  BY DEF IInv
<1>1. CASE BeginItem(r)
  <2>1. PICK c \in todo[r] : todo' = [todo EXCEPT ![r] = @ \ {c}]
    BY <1>1 DEF BeginItem
  <2>2. Within(todo'[r], todo[r])
    BY <1>0, <2>1 DEF Within, TypeOK
  <2> QED BY <1>1, <2>2 DEF BeginItem, Nearer
<1>2. CASE AlreadyExists(r) \/ StartCreation(r) \/ AddRule(r) \/ Save(r) \/ CreateFails(r)
  <2>1. UNCHANGED snapshot /\ UNCHANGED todo
    BY <1>2 DEF AlreadyExists, StartCreation, AddRule, Save, CreateFails, NextItem
  <2>2. \/ pc[r] \in {"lookup", "rule", "connect", "save"} /\ pc'[r] = "loop"
        \/ pc[r] = "lookup" /\ pc'[r] \in {"rule", "connect"}
        \/ pc[r] = "rule" /\ pc'[r] = "connect"
    BY <1>0, <1>2 DEF AlreadyExists, StartCreation, AddRule, Save, CreateFails, NextItem, CreatePCs,
                      TypeOK
  <2>3. StepsLeft[pc'[r]] < StepsLeft[pc[r]]
    BY <2>2, StepsAre
  <2> QED BY <2>1, <2>3 DEF Nearer
<1>3. CASE Connect(r)
  <2>1. /\ UNCHANGED <<snapshot, todo>> /\ pc[r] = "connect" /\ left'[r] = StillLeft(r)
        /\ pc'[r] = IF StillLeft(r) = {} THEN "save" ELSE "connect"
    BY <1>0, <1>3 DEF Connect, TypeOK
  <2>2. CASE StillLeft(r) = {}
    BY <2>1, <2>2, StepsAre DEF Nearer
  <2>3. CASE StillLeft(r) # {}
    BY <2>1, <2>3, CallsRunOut DEF Nearer
  <2> QED BY <2>2, <2>3
<1>4. ASSUME NEW w \in Configs, RefreshWatch(w) PROVE Nearer(r)
  BY <1>4 DEF RefreshWatch, NextWatch, Remaining, Within, Nearer
<1>5. ASSUME NEW w \in Configs, AbortPass(w) PROVE Nearer(r)
  BY <1>0, <1>5 DEF AbortPass, Nearer, TypeOK
<1>6. CASE EndPass
  BY <1>0, <1>6 DEF EndPass, Nearer, TypeOK
<1> QED BY <1>1, <1>2, <1>3, <1>4, <1>5, <1>6 DEF Refresher, Create, StartPass

(* Nobody else's step touches the pass, but the end of the process.         *)
LEMMA PassUntouched ==
  ASSUME IInv, [Next]_vars, ~Refresher
  PROVE  \/ pc'["refresher"] = "idle"
         \/ UNCHANGED <<snapshot, pc["refresher"], todo["refresher"], left["refresher"]>>
<1> USE DEF Procs, stored, cloud, queue, local, history
<1>0. TypeOK
  BY DEF IInv
<1>1. CASE Create("worker")
  BY <1>0, <1>1 DEF Create, BeginItem, AlreadyExists, StartCreation, AddRule, Connect, Save,
                    CreateFails, NextItem, TypeOK
<1>2. CASE Delete
  BY <1>0, <1>2 DEF Delete, DropWatch, NothingToDelete, StartDeletion, Detach, RemoveRule,
                    DeleteRecord, DeleteFails, NextItem, TypeOK
<1>3. CASE TakeConnect \/ ConfigFails \/ TakeDisconnect \/ EndJob \/ Reschedule
  BY <1>0, <1>3 DEF TakeConnect, ConfigFails, TakeDisconnect, TakeJob, EndJob, Reschedule, TypeOK
<1>4. CASE \/ \E cfg \in Configs : SubmitConnect(cfg)
           \/ \E t \in Conns \cup Configs : SubmitDisconnect(t)
           \/ Discover \/ UNCHANGED vars
  BY <1>4 DEF SubmitConnect, SubmitDisconnect, Discover, vars
<1>5. CASE Restart
  BY <1>5 DEF Restart
<1> QED BY <1>1, <1>2, <1>3, <1>4, <1>5 DEF Next, Worker

(* Every pass of the refresher gets shorter with each of its steps and with *)
(* nobody else's: with finitely many watches and connections it ends.       *)
THEOREM PassesShorten == Spec => PassShortens
<1>1. IInv /\ [Next]_vars =>
        [pc["refresher"] # "idle" =>
           IF Refresher THEN Nearer("refresher")
           ELSE pc'["refresher"] = "idle" \/
                UNCHANGED <<snapshot, pc["refresher"], todo["refresher"], left["refresher"]>>]_vars
  BY RefresherNearer, PassUntouched
<1> QED BY <1>1, Invariance, PTL DEF Spec, PassShortens
=============================================================================
