----------------------- MODULE AppConnections_proofs -----------------------
(***************************************************************************)
(* Proofs about AppConnections, for any sets of network domain connections *)
(* and requests and any number of deletions, failures and restarts.        *)
(***************************************************************************)
EXTENDS AppConnections, TLAPS

(* What a goroutine has at hand where it is, and that only the worker runs   *)
(* requests.                                                                 *)
Places ==
  /\ \A p \in Procs : pc[p] \in {"add", "record", "count", "remove", "forget"} => work[p] \in Children
  /\ \A p \in Procs : pc[p] \in {"connect", "list", "apply"} => work[p].conn \in Conns
  /\ pc["worker"] \in {"each", "drop"} => work["worker"].req \in Requests
  /\ pc["refresher"] \in {"idle", "connect", "list", "apply", "count", "add", "record"}
  /\ pc["refresher"] \in {"add", "record"} => Applies("refresher")

(* References are held from listing them until the last one is counted.      *)
Held ==
  /\ \A p \in Procs, r \in Requests :
       Holds(p, r) => pc[p] = "apply" \/ (pc[p] \in {"add", "record", "count"} /\ Applies(p))
  /\ \A p \in Procs : pc[p] = "count" => Applies(p)

Typed == TypeOK /\ Places /\ Held
-----------------------------------------------------------------------------
(* Nothing is stored and nobody works at the start.                          *)
LEMMA InitTyped == Init => Typed
<1> SUFFICES ASSUME Init PROVE Typed
  OBVIOUS
<1> USE ConnAssumption, BoundAssumption DEF Init
<1>1. TypeOK
  BY DEF TypeOK, NoWork, NoReferences, Procs
<1>2. Places
  BY DEF Places, Procs
<1>3. Held
  BY DEF Held, Holds, NoReferences, Procs
<1> QED BY <1>1, <1>2, <1>3 DEF Typed

(* Every step keeps the types.                                               *)
LEMMA TypedStep ==
  ASSUME Typed, [Next]_vars
  PROVE  Typed'
<1> USE DEF stored, local, bounds, history, Goto
<1>1. ASSUME NEW p \in Procs, NEW c \in Conns, StartConnection(p, c) PROVE Typed'
  <2> USE <1>1 DEF StartConnection
  <2>1. TypeOK'
    BY ConnAssumption, RequestAssumption, BoundAssumption DEF Typed, TypeOK, Places, Held, Holds,
       Procs, Children, NoWork, NoReferences, IsAll
  <2>2. Places'
    BY ConnAssumption DEF Typed, TypeOK, Places, Held, Holds, Applies, Procs, Children, NoWork,
       IsAll
  <2>3. Held'
    BY DEF Typed, TypeOK, Places, Held, Holds, Applies, Procs, NoReferences
  <2> QED BY <2>1, <2>2, <2>3 DEF Typed
<1>2. ASSUME NEW p \in Procs, SaveConnection(p) PROVE Typed'
  <2> USE <1>2 DEF SaveConnection
  <2>1. TypeOK'
    BY ConnAssumption, RequestAssumption, BoundAssumption DEF Typed, TypeOK, Places, Held, Holds,
       Procs, Children, NoWork, NoReferences, IsAll
  <2>2. Places'
    BY ConnAssumption DEF Typed, TypeOK, Places, Held, Holds, Applies, Procs, Children, NoWork,
       IsAll
  <2>3. Held'
    BY DEF Typed, TypeOK, Places, Held, Holds, Applies, Procs, NoReferences
  <2> QED BY <2>1, <2>2, <2>3 DEF Typed
<1>3. ASSUME NEW p \in Procs, ListReferences(p) PROVE Typed'
  <2> USE <1>3 DEF ListReferences, Midway
  <2>1. TypeOK'
    BY ConnAssumption, RequestAssumption, BoundAssumption DEF Typed, TypeOK, Places, Held, Holds,
       Procs, Children, NoWork, NoReferences, IsAll
  <2>2. Places'
    BY ConnAssumption DEF Typed, TypeOK, Places, Held, Holds, Applies, Procs, Children, NoWork,
       IsAll
  <2>3. Held'
    BY DEF Typed, TypeOK, Places, Held, Holds, Applies, Procs, NoReferences
  <2> QED BY <2>1, <2>2, <2>3 DEF Typed
<1>4. ASSUME NEW p \in Procs, ApplyReference(p) PROVE Typed'
  <2> USE <1>4 DEF ApplyReference, NextNumber
  <2>1. TypeOK'
    BY ConnAssumption, RequestAssumption, BoundAssumption DEF Typed, TypeOK, Places, Held, Holds,
       Procs, Children, NoWork, NoReferences, IsAll
  <2>2. Places'
    BY ConnAssumption DEF Typed, TypeOK, Places, Held, Holds, Applies, Procs, Children, NoWork,
       IsAll
  <2>3. Held'
    BY DEF Typed, TypeOK, Places, Held, Holds, Applies, Procs, NoReferences
  <2> QED BY <2>1, <2>2, <2>3 DEF Typed
<1>5. ASSUME NEW p \in Procs, EndApply(p) PROVE Typed'
  <2> USE <1>5 DEF EndApply
  <2>1. TypeOK'
    BY ConnAssumption, RequestAssumption, BoundAssumption DEF Typed, TypeOK, Places, Held, Holds,
       Procs, Children, NoWork, NoReferences, IsAll
  <2>2. Places'
    BY ConnAssumption DEF Typed, TypeOK, Places, Held, Holds, Applies, Procs, Children, NoWork,
       IsAll
  <2>3. Held'
    BY DEF Typed, TypeOK, Places, Held, Holds, Applies, Procs, NoReferences
  <2> QED BY <2>1, <2>2, <2>3 DEF Typed
<1>6. ASSUME NEW p \in Procs, CountChild(p) PROVE Typed'
  <2> USE <1>6 DEF CountChild, NextNumber
  <2>1. TypeOK'
    <3>1. work[p].req \in Requests /\ snap[p][work[p].req] \in Nat
      BY ConnAssumption DEF Typed, TypeOK, Places, Held, Holds, Applies, Children
    <3>2. refs' \in [Requests -> Nat \cup {None}]
      BY <3>1 DEF Typed, TypeOK
    <3>3. snap' \in [Procs -> [Requests -> Nat \cup {None}]]
      BY <3>1 DEF Typed, TypeOK
    <3>4. pc' \in [Procs -> {"idle", "connect", "list", "apply", "add", "record", "count", "each",
                        "remove", "forget", "drop"}]
      BY DEF Typed, TypeOK
    <3>5. work' \in [Procs -> [req : Requests \cup {None}, conn : Conns \cup {None}, n : Nat]]
      BY DEF Typed, TypeOK
    <3>6. raced' \subseteq Requests
      BY <3>1 DEF Typed, TypeOK
    <3> QED BY <3>1, <3>2, <3>3, <3>4, <3>5, <3>6 DEF Typed, TypeOK
  <2>2. Places'
    BY ConnAssumption DEF Typed, TypeOK, Places, Held, Holds, Applies, Procs, Children, NoWork,
       IsAll
  <2>3. Held'
    BY DEF Typed, TypeOK, Places, Held, Holds, Applies, Procs, NoReferences
  <2> QED BY <2>1, <2>2, <2>3 DEF Typed
<1>7. ASSUME NEW p \in Procs, AddRule(p) PROVE Typed'
  <2> USE <1>7 DEF AddRule, Twice
  <2>1. TypeOK'
    BY ConnAssumption, RequestAssumption, BoundAssumption DEF Typed, TypeOK, Places, Held, Holds,
       Procs, Children, NoWork, NoReferences, IsAll
  <2>2. Places'
    BY ConnAssumption DEF Typed, TypeOK, Places, Held, Holds, Applies, Procs, Children, NoWork,
       IsAll
  <2>3. Held'
    BY DEF Typed, TypeOK, Places, Held, Holds, Applies, Procs, NoReferences
  <2> QED BY <2>1, <2>2, <2>3 DEF Typed
<1>8. ASSUME NEW p \in Procs, SaveChild(p) PROVE Typed'
  <2> USE <1>8 DEF SaveChild, AfterChild, Applies
  <2>1. TypeOK'
    BY ConnAssumption, RequestAssumption, BoundAssumption DEF Typed, TypeOK, Places, Held, Holds,
       Procs, Children, NoWork, NoReferences, IsAll
  <2>2. Places'
    BY ConnAssumption DEF Typed, TypeOK, Places, Held, Holds, Applies, Procs, Children, NoWork,
       IsAll
  <2>3. Held'
    BY DEF Typed, TypeOK, Places, Held, Holds, Applies, Procs, NoReferences
  <2> QED BY <2>1, <2>2, <2>3 DEF Typed
<1>9. ASSUME NEW p \in Procs, CallFails(p) PROVE Typed'
  <2> USE <1>9 DEF CallFails, Fault, AfterFailure, Applies, Twice, Dropped, Midway, RulesOf
  <2>1. TypeOK'
    <3>1. faults' \in 0..MaxFaults
      BY BoundAssumption DEF Typed, TypeOK
    <3>2. pc' \in [Procs -> {"idle", "connect", "list", "apply", "add", "record", "count", "each",
                        "remove", "forget", "drop"}]
      BY DEF Typed, TypeOK
    <3>3. NoWork \in [req : Requests \cup {None}, conn : Conns \cup {None}, n : Nat]
      BY DEF NoWork
    <3>4. work' \in [Procs -> [req : Requests \cup {None}, conn : Conns \cup {None}, n : Nat]]
      BY <3>3 DEF Typed, TypeOK
    <3>5. pc[p] \in {"add", "record", "remove"} => work[p] \in Children
      BY DEF Typed, Places
    <3>6. groups' \subseteq Children /\ torn' \subseteq Children
      BY <3>5 DEF Typed, TypeOK
    <3>7. doubled' \subseteq Children /\ leftover' \subseteq Children
      BY <3>5 DEF Typed, TypeOK
    <3>8. pc[p] = "count" => work[p].req \in Requests
      BY DEF Typed, Places, Children
    <3>9. uncounted' \subseteq Requests
      BY <3>8 DEF Typed, TypeOK
    <3>10. Dropped(p) \subseteq Requests \X Conns
      BY DEF Typed, TypeOK, Places, Held, Holds, Children
    <3>11. settled' \subseteq Requests \X Conns
      BY <3>10 DEF Typed, TypeOK
    <3>12. snap' \in [Procs -> [Requests -> Nat \cup {None}]] /\ todo' \subseteq Conns
      BY DEF Typed, TypeOK, NoReferences
    <3> QED BY <3>1, <3>2, <3>3, <3>4, <3>5, <3>6, <3>7, <3>8, <3>9, <3>10, <3>11, <3>12 DEF
               Typed, TypeOK
  <2>2. Places'
    BY ConnAssumption DEF Typed, TypeOK, Places, Held, Holds, Applies, Procs, Children, NoWork,
       IsAll
  <2>3. Held'
    BY DEF Typed, TypeOK, Places, Held, Holds, Applies, Procs, NoReferences
  <2> QED BY <2>1, <2>2, <2>3 DEF Typed
<1>10. ASSUME NEW r \in Requests, StartOne(r) PROVE Typed'
  <2> USE <1>10 DEF StartOne, Start
  <2>1. TypeOK'
    <3>1. starts' \in [Requests -> 0..MaxStarts]
      BY BoundAssumption DEF Typed, TypeOK
    <3>2. work' \in [Procs -> [req : Requests \cup {None}, conn : Conns \cup {None}, n : Nat]]
      BY DEF Typed, TypeOK
    <3>3. pc' \in [Procs -> {"idle", "connect", "list", "apply", "add", "record", "count", "each",
                        "remove", "forget", "drop"}]
      BY DEF Typed, TypeOK
    <3> QED BY <3>1, <3>2, <3>3 DEF Typed, TypeOK
  <2>2. Places'
    BY ConnAssumption DEF Typed, TypeOK, Places, Held, Holds, Applies, Procs, Children, NoWork,
       IsAll
  <2>3. Held'
    BY DEF Typed, TypeOK, Places, Held, Holds, Applies, Procs, NoReferences
  <2> QED BY <2>1, <2>2, <2>3 DEF Typed
<1>11. ASSUME NEW r \in Requests, StartAll(r) PROVE Typed'
  <2> USE <1>11 DEF StartAll, Start
  <2>1. TypeOK'
    BY ConnAssumption, RequestAssumption, BoundAssumption DEF Typed, TypeOK, Places, Held, Holds,
       Procs, Children, NoWork, NoReferences, IsAll
  <2>2. Places'
    BY ConnAssumption DEF Typed, TypeOK, Places, Held, Holds, Applies, Procs, Children, NoWork,
       IsAll
  <2>3. Held'
    BY DEF Typed, TypeOK, Places, Held, Holds, Applies, Procs, NoReferences
  <2> QED BY <2>1, <2>2, <2>3 DEF Typed
<1>12. ASSUME NEW r \in Requests, StartDrop(r) PROVE Typed'
  <2> USE <1>12 DEF StartDrop, Deletion
  <2>1. TypeOK'
    BY ConnAssumption, RequestAssumption, BoundAssumption DEF Typed, TypeOK, Places, Held, Holds,
       Procs, Children, NoWork, NoReferences, IsAll
  <2>2. Places'
    BY ConnAssumption DEF Typed, TypeOK, Places, Held, Holds, Applies, Procs, Children, NoWork,
       IsAll
  <2>3. Held'
    BY DEF Typed, TypeOK, Places, Held, Holds, Applies, Procs, NoReferences
  <2> QED BY <2>1, <2>2, <2>3 DEF Typed
<1>13. ASSUME NextConnection PROVE Typed'
  <2> USE <1>13 DEF NextConnection
  <2>1. TypeOK'
    BY ConnAssumption, RequestAssumption, BoundAssumption DEF Typed, TypeOK, Places, Held, Holds,
       Procs, Children, NoWork, NoReferences, IsAll
  <2>2. Places'
    BY ConnAssumption DEF Typed, TypeOK, Places, Held, Holds, Applies, Procs, Children, NoWork,
       IsAll
  <2>3. Held'
    BY DEF Typed, TypeOK, Places, Held, Holds, Applies, Procs, NoReferences
  <2> QED BY <2>1, <2>2, <2>3 DEF Typed
<1>14. ASSUME SaveReference PROVE Typed'
  <2> USE <1>14 DEF SaveReference, FinalCount
  <2>1. TypeOK'
    BY ConnAssumption, RequestAssumption, BoundAssumption DEF Typed, TypeOK, Places, Held, Holds,
       Procs, Children, NoWork, NoReferences, IsAll
  <2>2. Places'
    BY ConnAssumption DEF Typed, TypeOK, Places, Held, Holds, Applies, Procs, Children, NoWork,
       IsAll
  <2>3. Held'
    BY DEF Typed, TypeOK, Places, Held, Holds, Applies, Procs, NoReferences
  <2> QED BY <2>1, <2>2, <2>3 DEF Typed
<1>15. ASSUME NEW k \in records, StartRemoval(k) PROVE Typed'
  <2> USE <1>15 DEF StartRemoval, Deletion
  <2>1. TypeOK'
    BY ConnAssumption, RequestAssumption, BoundAssumption DEF Typed, TypeOK, Places, Held, Holds,
       Procs, Children, NoWork, NoReferences, IsAll
  <2>2. Places'
    BY ConnAssumption DEF Typed, TypeOK, Places, Held, Holds, Applies, Procs, Children, NoWork,
       IsAll
  <2>3. Held'
    BY DEF Typed, TypeOK, Places, Held, Holds, Applies, Procs, NoReferences
  <2> QED BY <2>1, <2>2, <2>3 DEF Typed
<1>16. ASSUME RemoveRule PROVE Typed'
  <2> USE <1>16 DEF RemoveRule, RulesOf
  <2>1. TypeOK'
    BY ConnAssumption, RequestAssumption, BoundAssumption DEF Typed, TypeOK, Places, Held, Holds,
       Procs, Children, NoWork, NoReferences, IsAll
  <2>2. Places'
    BY ConnAssumption DEF Typed, TypeOK, Places, Held, Holds, Applies, Procs, Children, NoWork,
       IsAll
  <2>3. Held'
    BY DEF Typed, TypeOK, Places, Held, Holds, Applies, Procs, NoReferences
  <2> QED BY <2>1, <2>2, <2>3 DEF Typed
<1>17. ASSUME DeleteRecord PROVE Typed'
  <2> USE <1>17 DEF DeleteRecord
  <2>1. TypeOK'
    BY ConnAssumption, RequestAssumption, BoundAssumption DEF Typed, TypeOK, Places, Held, Holds,
       Procs, Children, NoWork, NoReferences, IsAll
  <2>2. Places'
    BY ConnAssumption DEF Typed, TypeOK, Places, Held, Holds, Applies, Procs, Children, NoWork,
       IsAll
  <2>3. Held'
    BY DEF Typed, TypeOK, Places, Held, Holds, Applies, Procs, NoReferences
  <2> QED BY <2>1, <2>2, <2>3 DEF Typed
<1>18. ASSUME DropReference PROVE Typed'
  <2> USE <1>18 DEF DropReference
  <2>1. TypeOK'
    BY ConnAssumption, RequestAssumption, BoundAssumption DEF Typed, TypeOK, Places, Held, Holds,
       Procs, Children, NoWork, NoReferences, IsAll
  <2>2. Places'
    BY ConnAssumption DEF Typed, TypeOK, Places, Held, Holds, Applies, Procs, Children, NoWork,
       IsAll
  <2>3. Held'
    BY DEF Typed, TypeOK, Places, Held, Holds, Applies, Procs, NoReferences
  <2> QED BY <2>1, <2>2, <2>3 DEF Typed
<1>19. ASSUME NEW c \in Conns, RemoveConnection(c) PROVE Typed'
  <2> USE <1>19 DEF RemoveConnection, Deletion
  <2>1. TypeOK'
    BY ConnAssumption, RequestAssumption, BoundAssumption DEF Typed, TypeOK, Places, Held, Holds,
       Procs, Children, NoWork, NoReferences, IsAll
  <2>2. Places'
    BY ConnAssumption DEF Typed, TypeOK, Places, Held, Holds, Applies, Procs, Children, NoWork,
       IsAll
  <2>3. Held'
    BY DEF Typed, TypeOK, Places, Held, Holds, Applies, Procs, NoReferences
  <2> QED BY <2>1, <2>2, <2>3 DEF Typed
<1>20. ASSUME Restart PROVE Typed'
  <2> USE <1>20 DEF Restart, Fault, Dropped, Midway
  <2>1. TypeOK'
    <3>1. faults' \in 0..MaxFaults
      BY BoundAssumption DEF Typed, TypeOK
    <3>2. leftover' \subseteq Children
      BY DEF Typed, TypeOK, Places
    <3>3. uncounted' \subseteq Requests
      BY DEF Typed, TypeOK, Places, Children
    <3>4. \A p \in Procs : Dropped(p) \subseteq Requests \X Conns
      BY DEF Typed, TypeOK, Places, Held, Holds, Children
    <3>5. settled' \subseteq Requests \X Conns
      BY <3>4 DEF Typed, TypeOK
    <3>6. work' \in [Procs -> [req : Requests \cup {None}, conn : Conns \cup {None}, n : Nat]]
      BY DEF NoWork
    <3>7. snap' \in [Procs -> [Requests -> Nat \cup {None}]] /\ todo' \subseteq Conns
      BY DEF NoReferences
    <3> QED BY <3>1, <3>2, <3>3, <3>4, <3>5, <3>6, <3>7 DEF Typed, TypeOK
  <2>2. Places'
    BY ConnAssumption DEF Typed, TypeOK, Places, Held, Holds, Applies, Procs, Children, NoWork,
       IsAll
  <2>3. Held'
    BY DEF Typed, TypeOK, Places, Held, Holds, Applies, Procs, NoReferences
  <2> QED BY <2>1, <2>2, <2>3 DEF Typed
<1>21. CASE UNCHANGED vars
  BY <1>21 DEF vars, Typed, TypeOK, Places, Held, Holds, Applies
<1> QED BY <1>1, <1>2, <1>3, <1>4, <1>5, <1>6, <1>7, <1>8, <1>9, <1>10, <1>11, <1>12, <1>13,
           <1>14, <1>15, <1>16, <1>17, <1>18, <1>19, <1>20, <1>21 DEF Next, Connecting, Requesting

-----------------------------------------------------------------------------
(* The rules and records of children.                            *)
Recorded ==
  /\ pc["worker"] \in {"remove", "forget"} => work["worker"] \in records
  /\ \A p \in Procs : pc[p] = "record" => work[p] \in doubled \/ work[p] \in groups \ records
  /\ (pc["worker"] = "record" /\ pc["refresher"] = "record" /\ work["worker"] = work["refresher"])
        => work["worker"] \in doubled
  /\ pc["worker"] = "forget" =>
        \/ work["worker"] \notin groups
        \/ work["worker"] \in doubled
        \/ work["worker"].req \in NodePorts

Enforced == Recorded /\ RulesOwned /\ RecordsEnforced

(* There are no rules at the start.                                          *)
LEMMA InitEnforced == Init => Enforced
BY DEF Init, Enforced, Recorded, RulesOwned, RecordsEnforced, Procs

(* Every step keeps rules and records together.                              *)
LEMMA EnforcedStep ==
  ASSUME Typed, Enforced, [Next]_vars
  PROVE  Enforced'
<1> USE DEF stored, local, bounds, history, Goto
<1>1. ASSUME NEW p \in Procs, NEW c \in Conns, StartConnection(p, c) PROVE Enforced'
  <2> USE <1>1 DEF StartConnection
  <2>1. Recorded'
    BY DEF Typed, TypeOK, Places, Enforced, Recorded, RecordsEnforced, Procs, Other
  <2>2. RulesOwned'
    BY DEF Typed, TypeOK, Places, Enforced, Recorded, RulesOwned, Procs, Other
  <2>3. RecordsEnforced'
    BY DEF Typed, TypeOK, Places, Enforced, Recorded, RecordsEnforced, Procs, Other
  <2> QED BY <2>1, <2>2, <2>3 DEF Enforced
<1>2. ASSUME NEW p \in Procs, SaveConnection(p) PROVE Enforced'
  <2> USE <1>2 DEF SaveConnection
  <2>1. Recorded'
    BY DEF Typed, TypeOK, Places, Enforced, Recorded, RecordsEnforced, Procs, Other
  <2>2. RulesOwned'
    BY DEF Typed, TypeOK, Places, Enforced, Recorded, RulesOwned, Procs, Other
  <2>3. RecordsEnforced'
    BY DEF Typed, TypeOK, Places, Enforced, Recorded, RecordsEnforced, Procs, Other
  <2> QED BY <2>1, <2>2, <2>3 DEF Enforced
<1>3. ASSUME NEW p \in Procs, ListReferences(p) PROVE Enforced'
  <2> USE <1>3 DEF ListReferences, Midway
  <2>1. Recorded'
    BY DEF Typed, TypeOK, Places, Enforced, Recorded, RecordsEnforced, Procs, Other
  <2>2. RulesOwned'
    BY DEF Typed, TypeOK, Places, Enforced, Recorded, RulesOwned, Procs, Other
  <2>3. RecordsEnforced'
    BY DEF Typed, TypeOK, Places, Enforced, Recorded, RecordsEnforced, Procs, Other
  <2> QED BY <2>1, <2>2, <2>3 DEF Enforced
<1>4. ASSUME NEW p \in Procs, ApplyReference(p) PROVE Enforced'
  <2> USE <1>4 DEF ApplyReference, NextNumber
  <2>1. Recorded'
    BY DEF Typed, TypeOK, Places, Enforced, Recorded, RecordsEnforced, Procs, Other
  <2>2. RulesOwned'
    BY DEF Typed, TypeOK, Places, Enforced, Recorded, RulesOwned, Procs, Other
  <2>3. RecordsEnforced'
    BY DEF Typed, TypeOK, Places, Enforced, Recorded, RecordsEnforced, Procs, Other
  <2> QED BY <2>1, <2>2, <2>3 DEF Enforced
<1>5. ASSUME NEW p \in Procs, EndApply(p) PROVE Enforced'
  <2> USE <1>5 DEF EndApply
  <2>1. Recorded'
    BY DEF Typed, TypeOK, Places, Enforced, Recorded, RecordsEnforced, Procs, Other
  <2>2. RulesOwned'
    BY DEF Typed, TypeOK, Places, Enforced, Recorded, RulesOwned, Procs, Other
  <2>3. RecordsEnforced'
    BY DEF Typed, TypeOK, Places, Enforced, Recorded, RecordsEnforced, Procs, Other
  <2> QED BY <2>1, <2>2, <2>3 DEF Enforced
<1>6. ASSUME NEW p \in Procs, CountChild(p) PROVE Enforced'
  <2> USE <1>6 DEF CountChild, NextNumber
  <2>1. Recorded'
    BY DEF Typed, TypeOK, Places, Enforced, Recorded, RecordsEnforced, Procs, Other
  <2>2. RulesOwned'
    BY DEF Typed, TypeOK, Places, Enforced, Recorded, RulesOwned, Procs, Other
  <2>3. RecordsEnforced'
    BY DEF Typed, TypeOK, Places, Enforced, Recorded, RecordsEnforced, Procs, Other
  <2> QED BY <2>1, <2>2, <2>3 DEF Enforced
<1>7. ASSUME NEW p \in Procs, AddRule(p) PROVE Enforced'
  <2> USE <1>7 DEF AddRule, Twice
  <2>1. Recorded'
    BY DEF Typed, TypeOK, Places, Enforced, Recorded, RecordsEnforced, Procs, Other
  <2>2. RulesOwned'
    BY DEF Typed, TypeOK, Places, Enforced, Recorded, RulesOwned, Procs, Other
  <2>3. RecordsEnforced'
    BY DEF Typed, TypeOK, Places, Enforced, Recorded, RecordsEnforced, Procs, Other
  <2> QED BY <2>1, <2>2, <2>3 DEF Enforced
<1>8. ASSUME NEW p \in Procs, SaveChild(p) PROVE Enforced'
  <2> USE <1>8 DEF SaveChild, AfterChild, Applies
  <2>1. Recorded'
    BY DEF Typed, TypeOK, Places, Enforced, Recorded, RecordsEnforced, Procs, Other
  <2>2. RulesOwned'
    BY DEF Typed, TypeOK, Places, Enforced, Recorded, RulesOwned, Procs, Other
  <2>3. RecordsEnforced'
    BY DEF Typed, TypeOK, Places, Enforced, Recorded, RecordsEnforced, Procs, Other
  <2> QED BY <2>1, <2>2, <2>3 DEF Enforced
<1>9. ASSUME NEW p \in Procs, CallFails(p) PROVE Enforced'
  <2> USE <1>9 DEF CallFails, Fault, AfterFailure, Applies, Twice, Dropped, Midway, RulesOf
  <2>1. Recorded'
    BY DEF Typed, TypeOK, Places, Enforced, Recorded, RecordsEnforced, Procs, Other
  <2>2. RulesOwned'
    BY DEF Typed, TypeOK, Places, Enforced, Recorded, RulesOwned, Procs, Other
  <2>3. RecordsEnforced'
    BY DEF Typed, TypeOK, Places, Enforced, Recorded, RecordsEnforced, Procs, Other
  <2> QED BY <2>1, <2>2, <2>3 DEF Enforced
<1>10. ASSUME NEW r \in Requests, StartOne(r) PROVE Enforced'
  <2> USE <1>10 DEF StartOne, Start
  <2>1. Recorded'
    BY DEF Typed, TypeOK, Places, Enforced, Recorded, RecordsEnforced, Procs, Other
  <2>2. RulesOwned'
    BY DEF Typed, TypeOK, Places, Enforced, Recorded, RulesOwned, Procs, Other
  <2>3. RecordsEnforced'
    BY DEF Typed, TypeOK, Places, Enforced, Recorded, RecordsEnforced, Procs, Other
  <2> QED BY <2>1, <2>2, <2>3 DEF Enforced
<1>11. ASSUME NEW r \in Requests, StartAll(r) PROVE Enforced'
  <2> USE <1>11 DEF StartAll, Start
  <2>1. Recorded'
    BY DEF Typed, TypeOK, Places, Enforced, Recorded, RecordsEnforced, Procs, Other
  <2>2. RulesOwned'
    BY DEF Typed, TypeOK, Places, Enforced, Recorded, RulesOwned, Procs, Other
  <2>3. RecordsEnforced'
    BY DEF Typed, TypeOK, Places, Enforced, Recorded, RecordsEnforced, Procs, Other
  <2> QED BY <2>1, <2>2, <2>3 DEF Enforced
<1>12. ASSUME NEW r \in Requests, StartDrop(r) PROVE Enforced'
  <2> USE <1>12 DEF StartDrop, Deletion
  <2>1. Recorded'
    BY DEF Typed, TypeOK, Places, Enforced, Recorded, RecordsEnforced, Procs, Other
  <2>2. RulesOwned'
    BY DEF Typed, TypeOK, Places, Enforced, Recorded, RulesOwned, Procs, Other
  <2>3. RecordsEnforced'
    BY DEF Typed, TypeOK, Places, Enforced, Recorded, RecordsEnforced, Procs, Other
  <2> QED BY <2>1, <2>2, <2>3 DEF Enforced
<1>13. ASSUME NextConnection PROVE Enforced'
  <2> USE <1>13 DEF NextConnection
  <2>1. Recorded'
    BY DEF Typed, TypeOK, Places, Enforced, Recorded, RecordsEnforced, Procs, Other
  <2>2. RulesOwned'
    BY DEF Typed, TypeOK, Places, Enforced, Recorded, RulesOwned, Procs, Other
  <2>3. RecordsEnforced'
    BY DEF Typed, TypeOK, Places, Enforced, Recorded, RecordsEnforced, Procs, Other
  <2> QED BY <2>1, <2>2, <2>3 DEF Enforced
<1>14. ASSUME SaveReference PROVE Enforced'
  <2> USE <1>14 DEF SaveReference, FinalCount
  <2>1. Recorded'
    BY DEF Typed, TypeOK, Places, Enforced, Recorded, RecordsEnforced, Procs, Other
  <2>2. RulesOwned'
    BY DEF Typed, TypeOK, Places, Enforced, Recorded, RulesOwned, Procs, Other
  <2>3. RecordsEnforced'
    BY DEF Typed, TypeOK, Places, Enforced, Recorded, RecordsEnforced, Procs, Other
  <2> QED BY <2>1, <2>2, <2>3 DEF Enforced
<1>15. ASSUME NEW k \in records, StartRemoval(k) PROVE Enforced'
  <2> USE <1>15 DEF StartRemoval, Deletion
  <2>1. Recorded'
    BY DEF Typed, TypeOK, Places, Enforced, Recorded, RecordsEnforced, Procs, Other
  <2>2. RulesOwned'
    BY DEF Typed, TypeOK, Places, Enforced, Recorded, RulesOwned, Procs, Other
  <2>3. RecordsEnforced'
    BY DEF Typed, TypeOK, Places, Enforced, Recorded, RecordsEnforced, Procs, Other
  <2> QED BY <2>1, <2>2, <2>3 DEF Enforced
<1>16. ASSUME RemoveRule PROVE Enforced'
  <2> USE <1>16 DEF RemoveRule, RulesOf
  <2>1. Recorded'
    BY DEF Typed, TypeOK, Places, Enforced, Recorded, RecordsEnforced, Procs, Other
  <2>2. RulesOwned'
    BY DEF Typed, TypeOK, Places, Enforced, Recorded, RulesOwned, Procs, Other
  <2>3. RecordsEnforced'
    BY DEF Typed, TypeOK, Places, Enforced, Recorded, RecordsEnforced, Procs, Other
  <2> QED BY <2>1, <2>2, <2>3 DEF Enforced
<1>17. ASSUME DeleteRecord PROVE Enforced'
  <2> USE <1>17 DEF DeleteRecord
  <2>1. Recorded'
    BY DEF Typed, TypeOK, Places, Enforced, Recorded, RecordsEnforced, Procs, Other
  <2>2. RulesOwned'
    BY DEF Typed, TypeOK, Places, Enforced, Recorded, RulesOwned, Procs, Other
  <2>3. RecordsEnforced'
    BY DEF Typed, TypeOK, Places, Enforced, Recorded, RecordsEnforced, Procs, Other
  <2> QED BY <2>1, <2>2, <2>3 DEF Enforced
<1>18. ASSUME DropReference PROVE Enforced'
  <2> USE <1>18 DEF DropReference
  <2>1. Recorded'
    BY DEF Typed, TypeOK, Places, Enforced, Recorded, RecordsEnforced, Procs, Other
  <2>2. RulesOwned'
    BY DEF Typed, TypeOK, Places, Enforced, Recorded, RulesOwned, Procs, Other
  <2>3. RecordsEnforced'
    BY DEF Typed, TypeOK, Places, Enforced, Recorded, RecordsEnforced, Procs, Other
  <2> QED BY <2>1, <2>2, <2>3 DEF Enforced
<1>19. ASSUME NEW c \in Conns, RemoveConnection(c) PROVE Enforced'
  <2> USE <1>19 DEF RemoveConnection, Deletion
  <2>1. Recorded'
    BY DEF Typed, TypeOK, Places, Enforced, Recorded, RecordsEnforced, Procs, Other
  <2>2. RulesOwned'
    BY DEF Typed, TypeOK, Places, Enforced, Recorded, RulesOwned, Procs, Other
  <2>3. RecordsEnforced'
    BY DEF Typed, TypeOK, Places, Enforced, Recorded, RecordsEnforced, Procs, Other
  <2> QED BY <2>1, <2>2, <2>3 DEF Enforced
<1>20. ASSUME Restart PROVE Enforced'
  <2> USE <1>20 DEF Restart, Fault, Dropped, Midway
  <2>1. Recorded'
    BY DEF Typed, TypeOK, Places, Enforced, Recorded, RecordsEnforced, Procs, Other
  <2>2. RulesOwned'
    BY DEF Typed, TypeOK, Places, Enforced, Recorded, RulesOwned, Procs, Other
  <2>3. RecordsEnforced'
    BY DEF Typed, TypeOK, Places, Enforced, Recorded, RecordsEnforced, Procs, Other
  <2> QED BY <2>1, <2>2, <2>3 DEF Enforced
<1>21. CASE UNCHANGED vars
  BY <1>21 DEF vars, Enforced, Recorded, RulesOwned, RecordsEnforced
<1> QED BY <1>1, <1>2, <1>3, <1>4, <1>5, <1>6, <1>7, <1>8, <1>9, <1>10, <1>11, <1>12, <1>13,
           <1>14, <1>15, <1>16, <1>17, <1>18, <1>19, <1>20, <1>21 DEF Next, Connecting, Requesting

-----------------------------------------------------------------------------
(* Who serves a reference: what is counted has been settled,   *)
(* a reference in use is stored, and while a request for "all" is carried    *)
(* out each connection is still to come, has had its child or is on its way. *)
Serving ==
  /\ \A p \in Procs : pc[p] = "count" => <<work[p].req, work[p].conn>> \in settled
  /\ \A p \in Procs, r \in Requests : Holds(p, r) /\ r \notin raced => refs[r] # None
  /\ pc["worker"] = "each" => IsAll(work["worker"].req)
  /\ \A r \in Requests, c \in conns :
       Midway(r) => \/ c \in todo
                    \/ <<r, c>> \in settled
                    \/ InFlight(r, c)
                    \/ pc["worker"] \in {"add", "record"} /\ work["worker"].conn = c

Served == Serving /\ AllServed

(* Where a goroutine is after saving a child: with its number to store, with *)
(* the next connection, or with nothing.                                     *)
LEMMA AfterSaving ==
  ASSUME Typed, NEW p \in Procs, SaveChild(p)
  PROVE  \/ AfterChild(p) = "count" /\ Applies(p) /\ pc' = [pc EXCEPT ![p] = "count"] /\ work' = work
         \/ /\ AfterChild(p) = "each" /\ ~Applies(p) /\ IsAll(work[p].req)
            /\ pc' = [pc EXCEPT ![p] = "each"] /\ work' = work
         \/ /\ AfterChild(p) = "idle" /\ ~Applies(p) /\ ~IsAll(work[p].req)
            /\ pc' = [pc EXCEPT ![p] = "idle"] /\ work' = [work EXCEPT ![p] = NoWork]
BY DEF SaveChild, AfterChild, Goto, Typed, TypeOK

(* Where a goroutine is after an error: with the next connection, or with    *)
(* nothing.                                                                  *)
LEMMA AfterFailing ==
  ASSUME Typed, NEW p \in Procs, CallFails(p)
  PROVE  \/ /\ pc[p] \in {"add", "record"} /\ IsAll(work[p].req) /\ ~Applies(p)
            /\ pc' = [pc EXCEPT ![p] = "each"] /\ work' = work /\ todo' = todo
         \/ /\ pc' = [pc EXCEPT ![p] = "idle"] /\ work' = [work EXCEPT ![p] = NoWork]
            /\ todo' = IF p = "worker" THEN {} ELSE todo
BY DEF CallFails, AfterFailure, Goto, Typed, TypeOK

(* There are no connections at the start.                                    *)
LEMMA InitServed == Init => Served
BY ConnAssumption DEF Init, Served, Serving, AllServed, Procs, Holds, NoReferences, Midway

(* Every step serves every connection.                                       *)
LEMMA ServedStep ==
  ASSUME Typed, Typed', Served, [Next]_vars
  PROVE  Served'
<1> USE DEF stored, local, bounds, history, Goto
<1>1. ASSUME NEW p \in Procs, NEW c \in Conns, StartConnection(p, c) PROVE Served'
  <2> USE <1>1 DEF StartConnection
  <2>1. \A q \in Procs : (pc[q] = "count" => <<work[q].req, work[q].conn>> \in settled)'
    BY ConnAssumption DEF Typed, TypeOK, Places, Held, Served, Serving, Procs, Applies, Holds
  <2>2. \A q \in Procs, s \in Requests : (Holds(q, s) /\ s \notin raced => refs[s] # None)'
    BY ConnAssumption DEF Typed, TypeOK, Places, Held, Served, Serving, Procs, Other, Holds,
       Applies, NoReferences
  <2>3. (pc["worker"] = "each" => IsAll(work["worker"].req))'
    BY DEF Typed, TypeOK, Places, Held, Served, Serving, Procs, IsAll, NoWork
  <2>4. \A s \in Requests, d \in conns' :
           Midway(s)' => \/ d \in todo'
                         \/ <<s, d>> \in settled'
                         \/ InFlight(s, d)'
                         \/ pc'["worker"] \in {"add", "record"} /\ work'["worker"].conn = d
    BY ConnAssumption DEF Typed, TypeOK, Places, Held, Served, Serving, Procs, Other, Holds,
       Applies, NoReferences, NoWork, InFlight, Midway, IsAll
  <2>5. AllServed'
    BY ConnAssumption DEF Typed, TypeOK, Places, Held, Served, Serving, AllServed, Procs, Other,
       Holds, Applies, NoReferences, NoWork, InFlight, Midway, IsAll
  <2> QED BY <2>1, <2>2, <2>3, <2>4, <2>5 DEF Served, Serving
<1>2. ASSUME NEW p \in Procs, SaveConnection(p) PROVE Served'
  <2> USE <1>2 DEF SaveConnection
  <2>1. \A q \in Procs : (pc[q] = "count" => <<work[q].req, work[q].conn>> \in settled)'
    BY ConnAssumption DEF Typed, TypeOK, Places, Held, Served, Serving, Procs, Applies, Holds
  <2>2. \A q \in Procs, s \in Requests : (Holds(q, s) /\ s \notin raced => refs[s] # None)'
    BY ConnAssumption DEF Typed, TypeOK, Places, Held, Served, Serving, Procs, Other, Holds,
       Applies, NoReferences
  <2>3. (pc["worker"] = "each" => IsAll(work["worker"].req))'
    BY DEF Typed, TypeOK, Places, Held, Served, Serving, Procs, IsAll, NoWork
  <2>4. \A s \in Requests, d \in conns' :
           Midway(s)' => \/ d \in todo'
                         \/ <<s, d>> \in settled'
                         \/ InFlight(s, d)'
                         \/ pc'["worker"] \in {"add", "record"} /\ work'["worker"].conn = d
    BY ConnAssumption DEF Typed, TypeOK, Places, Held, Served, Serving, Procs, Other, Holds,
       Applies, NoReferences, NoWork, InFlight, Midway, IsAll
  <2>5. AllServed'
    BY ConnAssumption DEF Typed, TypeOK, Places, Held, Served, Serving, AllServed, Procs, Other,
       Holds, Applies, NoReferences, NoWork, InFlight, Midway, IsAll
  <2> QED BY <2>1, <2>2, <2>3, <2>4, <2>5 DEF Served, Serving
<1>3. ASSUME NEW p \in Procs, ListReferences(p) PROVE Served'
  <2> USE <1>3 DEF ListReferences, Midway
  <2>1. \A q \in Procs : (pc[q] = "count" => <<work[q].req, work[q].conn>> \in settled)'
    BY ConnAssumption DEF Typed, TypeOK, Places, Held, Served, Serving, Procs, Applies, Holds
  <2>2. \A q \in Procs, s \in Requests : (Holds(q, s) /\ s \notin raced => refs[s] # None)'
    BY ConnAssumption DEF Typed, TypeOK, Places, Held, Served, Serving, Procs, Other, Holds,
       Applies, NoReferences
  <2>3. (pc["worker"] = "each" => IsAll(work["worker"].req))'
    BY DEF Typed, TypeOK, Places, Held, Served, Serving, Procs, IsAll, NoWork
  <2>4. \A s \in Requests, d \in conns' :
           Midway(s)' => \/ d \in todo'
                         \/ <<s, d>> \in settled'
                         \/ InFlight(s, d)'
                         \/ pc'["worker"] \in {"add", "record"} /\ work'["worker"].conn = d
    BY ConnAssumption DEF Typed, TypeOK, Places, Held, Served, Serving, Procs, Other, Holds,
       Applies, NoReferences, NoWork, InFlight, Midway, IsAll
  <2>5. AllServed'
    BY ConnAssumption DEF Typed, TypeOK, Places, Held, Served, Serving, AllServed, Procs, Other,
       Holds, Applies, NoReferences, NoWork, InFlight, Midway, IsAll
  <2> QED BY <2>1, <2>2, <2>3, <2>4, <2>5 DEF Served, Serving
<1>4. ASSUME NEW p \in Procs, ApplyReference(p) PROVE Served'
  <2> USE <1>4 DEF ApplyReference, NextNumber
  <2>1. \A q \in Procs : (pc[q] = "count" => <<work[q].req, work[q].conn>> \in settled)'
    BY ConnAssumption DEF Typed, TypeOK, Places, Held, Served, Serving, Procs, Applies, Holds
  <2>2. \A q \in Procs, s \in Requests : (Holds(q, s) /\ s \notin raced => refs[s] # None)'
    BY ConnAssumption DEF Typed, TypeOK, Places, Held, Served, Serving, Procs, Other, Holds,
       Applies, NoReferences
  <2>3. (pc["worker"] = "each" => IsAll(work["worker"].req))'
    BY DEF Typed, TypeOK, Places, Held, Served, Serving, Procs, IsAll, NoWork
  <2>4. \A s \in Requests, d \in conns' :
           Midway(s)' => \/ d \in todo'
                         \/ <<s, d>> \in settled'
                         \/ InFlight(s, d)'
                         \/ pc'["worker"] \in {"add", "record"} /\ work'["worker"].conn = d
    BY ConnAssumption DEF Typed, TypeOK, Places, Held, Served, Serving, Procs, Other, Holds,
       Applies, NoReferences, NoWork, InFlight, Midway, IsAll
  <2>5. AllServed'
    BY ConnAssumption DEF Typed, TypeOK, Places, Held, Served, Serving, AllServed, Procs, Other,
       Holds, Applies, NoReferences, NoWork, InFlight, Midway, IsAll
  <2> QED BY <2>1, <2>2, <2>3, <2>4, <2>5 DEF Served, Serving
<1>5. ASSUME NEW p \in Procs, EndApply(p) PROVE Served'
  <2> USE <1>5 DEF EndApply
  <2>1. \A q \in Procs : (pc[q] = "count" => <<work[q].req, work[q].conn>> \in settled)'
    BY ConnAssumption DEF Typed, TypeOK, Places, Held, Served, Serving, Procs, Applies, Holds
  <2>2. \A q \in Procs, s \in Requests : (Holds(q, s) /\ s \notin raced => refs[s] # None)'
    BY ConnAssumption DEF Typed, TypeOK, Places, Held, Served, Serving, Procs, Other, Holds,
       Applies, NoReferences
  <2>3. (pc["worker"] = "each" => IsAll(work["worker"].req))'
    BY DEF Typed, TypeOK, Places, Held, Served, Serving, Procs, IsAll, NoWork
  <2>4. \A s \in Requests, d \in conns' :
           Midway(s)' => \/ d \in todo'
                         \/ <<s, d>> \in settled'
                         \/ InFlight(s, d)'
                         \/ pc'["worker"] \in {"add", "record"} /\ work'["worker"].conn = d
    BY ConnAssumption DEF Typed, TypeOK, Places, Held, Served, Serving, Procs, Other, Holds,
       Applies, NoReferences, NoWork, InFlight, Midway, IsAll
  <2>5. AllServed'
    BY ConnAssumption DEF Typed, TypeOK, Places, Held, Served, Serving, AllServed, Procs, Other,
       Holds, Applies, NoReferences, NoWork, InFlight, Midway, IsAll
  <2> QED BY <2>1, <2>2, <2>3, <2>4, <2>5 DEF Served, Serving
<1>6. ASSUME NEW p \in Procs, CountChild(p) PROVE Served'
  <2> USE <1>6 DEF CountChild, NextNumber
  <2>1. \A q \in Procs : (pc[q] = "count" => <<work[q].req, work[q].conn>> \in settled)'
    BY ConnAssumption DEF Typed, TypeOK, Places, Held, Served, Serving, Procs, Applies, Holds
  <2>2. \A q \in Procs, s \in Requests : (Holds(q, s) /\ s \notin raced => refs[s] # None)'
    BY ConnAssumption DEF Typed, TypeOK, Places, Held, Served, Serving, Procs, Other, Holds,
       Applies, NoReferences
  <2>3. (pc["worker"] = "each" => IsAll(work["worker"].req))'
    BY DEF Typed, TypeOK, Places, Held, Served, Serving, Procs, IsAll, NoWork
  <2>4. \A s \in Requests, d \in conns' :
           Midway(s)' => \/ d \in todo'
                         \/ <<s, d>> \in settled'
                         \/ InFlight(s, d)'
                         \/ pc'["worker"] \in {"add", "record"} /\ work'["worker"].conn = d
    <3>1. SUFFICES ASSUME NEW s \in Requests, NEW d \in conns', Midway(s)'
                 PROVE  d \in todo' \/ <<s, d>> \in settled' \/ InFlight(s, d)'
                          \/ (pc'["worker"] \in {"add", "record"} /\ work'["worker"].conn = d)
      OBVIOUS
    <3>2. p = "refresher"
      BY <3>1 DEF Typed, TypeOK, Midway, Procs
    <3>3. Midway(s) /\ UNCHANGED <<todo, settled, conns>>
          /\ pc'["worker"] = pc["worker"] /\ work'["worker"] = work["worker"]
      BY <3>1, <3>2 DEF Typed, TypeOK, Midway, Procs, Holds
    <3>4. \/ d \in todo
          \/ <<s, d>> \in settled
          \/ InFlight(s, d)
          \/ pc["worker"] \in {"add", "record"} /\ work["worker"].conn = d
      BY <3>1, <3>3 DEF Served, Serving
    <3>5. ASSUME InFlight(s, d) PROVE InFlight(s, d)' \/ <<s, d>> \in settled
      <4>1. pc["refresher"] = "count" /\ pc["worker"] # "list" /\ ~Holds("worker", s)
        BY <3>2, <3>3 DEF Midway
      <4>2. work["refresher"].conn = d /\ Holds("refresher", s)
        BY <4>1, <3>5 DEF InFlight, Procs
      <4>3. work'["refresher"] = work["refresher"]
        BY <3>2 DEF Typed, TypeOK, Procs
      <4>4. CASE s = work["refresher"].req
        <5>1. <<work["refresher"].req, work["refresher"].conn>> \in settled
          BY <4>1 DEF Served, Serving, Procs
        <5> QED BY <5>1, <4>2, <4>4
      <4>5. CASE s # work["refresher"].req
        <5>1. snap'["refresher"][s] = snap["refresher"][s]
          BY <4>5, <3>1, <3>2 DEF Typed, TypeOK, Procs
        <5>2. Holds("refresher", s)'
          BY <5>1, <4>2 DEF Holds
        <5> QED BY <5>2, <4>2, <4>3 DEF InFlight, Procs
      <4> QED BY <4>4, <4>5
    <3> QED BY <3>3, <3>4, <3>5
  <2>5. AllServed'
    <3>1. SUFFICES ASSUME NEW s \in Requests \ raced', NEW d \in conns', refs'[s] # None
                 PROVE  <<s, d>> \in settled' \/ InFlight(s, d)'
      BY DEF AllServed
    <3>2. s \notin raced /\ UNCHANGED <<settled, conns>>
      BY <3>1
    <3>3. refs[s] # None
      <4>1. CASE s = work[p].req
        <5>1. Applies(p)
          BY DEF Typed, Held
        <5>2. Holds(p, s)
          BY <5>1, <4>1 DEF Applies, Holds
        <5> QED BY <5>2, <3>1, <3>2 DEF Served, Serving
      <4>2. CASE s # work[p].req
        BY <4>2, <3>1 DEF Typed, TypeOK
      <4> QED BY <4>1, <4>2
    <3>4. <<s, d>> \in settled \/ InFlight(s, d)
      BY <3>1, <3>2, <3>3 DEF Served, AllServed
    <3>5. ASSUME NEW q \in Procs, work[q].conn = d, pc[q] = "list" \/ Holds(q, s)
          PROVE  <<s, d>> \in settled \/ InFlight(s, d)'
      <4>1. CASE q # p
        BY <4>1, <3>5 DEF Typed, TypeOK, Procs, Holds, InFlight
      <4>2. CASE q = p /\ s = work[p].req
        BY <4>2, <3>5 DEF Served, Serving
      <4>3. CASE q = p /\ s # work[p].req
        <5>1. Holds(p, s)' /\ work'[p] = work[p]
          BY <4>3, <3>1, <3>5 DEF Typed, TypeOK, Procs, Holds
        <5> QED BY <5>1, <4>3, <3>5 DEF InFlight
      <4> QED BY <4>1, <4>2, <4>3
    <3> QED BY <3>2, <3>4, <3>5 DEF InFlight
  <2> QED BY <2>1, <2>2, <2>3, <2>4, <2>5 DEF Served, Serving
<1>7. ASSUME NEW p \in Procs, AddRule(p) PROVE Served'
  <2> USE <1>7 DEF AddRule, Twice
  <2>1. \A q \in Procs : (pc[q] = "count" => <<work[q].req, work[q].conn>> \in settled)'
    BY ConnAssumption DEF Typed, TypeOK, Places, Held, Served, Serving, Procs, Applies, Holds
  <2>2. \A q \in Procs, s \in Requests : (Holds(q, s) /\ s \notin raced => refs[s] # None)'
    BY ConnAssumption DEF Typed, TypeOK, Places, Held, Served, Serving, Procs, Other, Holds,
       Applies, NoReferences
  <2>3. (pc["worker"] = "each" => IsAll(work["worker"].req))'
    BY DEF Typed, TypeOK, Places, Held, Served, Serving, Procs, IsAll, NoWork
  <2>4. \A s \in Requests, d \in conns' :
           Midway(s)' => \/ d \in todo'
                         \/ <<s, d>> \in settled'
                         \/ InFlight(s, d)'
                         \/ pc'["worker"] \in {"add", "record"} /\ work'["worker"].conn = d
    BY ConnAssumption DEF Typed, TypeOK, Places, Held, Served, Serving, Procs, Other, Holds,
       Applies, NoReferences, NoWork, InFlight, Midway, IsAll
  <2>5. AllServed'
    BY ConnAssumption DEF Typed, TypeOK, Places, Held, Served, Serving, AllServed, Procs, Other,
       Holds, Applies, NoReferences, NoWork, InFlight, Midway, IsAll
  <2> QED BY <2>1, <2>2, <2>3, <2>4, <2>5 DEF Served, Serving
<1>8. ASSUME NEW p \in Procs, SaveChild(p) PROVE Served'
  <2>0. \/ Applies(p) /\ pc' = [pc EXCEPT ![p] = "count"] /\ work' = work
        \/ ~Applies(p) /\ IsAll(work[p].req) /\ pc' = [pc EXCEPT ![p] = "each"] /\ work' = work
        \/ /\ ~Applies(p) /\ ~IsAll(work[p].req)
           /\ pc' = [pc EXCEPT ![p] = "idle"] /\ work' = [work EXCEPT ![p] = NoWork]
    BY <1>8, AfterSaving
  <2> USE <1>8, <2>0 DEF SaveChild, Applies
  <2> HIDE DEF Goto
  <2>1. \A q \in Procs : (pc[q] = "count" => <<work[q].req, work[q].conn>> \in settled)'
    BY ConnAssumption DEF Typed, TypeOK, Places, Held, Served, Serving, Procs, Applies, Holds
  <2>2. \A q \in Procs, s \in Requests : (Holds(q, s) /\ s \notin raced => refs[s] # None)'
    BY ConnAssumption DEF Typed, TypeOK, Places, Held, Served, Serving, Procs, Other, Holds,
       Applies, NoReferences
  <2>3. (pc["worker"] = "each" => IsAll(work["worker"].req))'
    BY DEF Typed, TypeOK, Places, Held, Served, Serving, Procs, IsAll, NoWork
  <2>4. \A s \in Requests, d \in conns' :
           Midway(s)' => \/ d \in todo'
                         \/ <<s, d>> \in settled'
                         \/ InFlight(s, d)'
                         \/ pc'["worker"] \in {"add", "record"} /\ work'["worker"].conn = d
    BY ConnAssumption DEF Typed, TypeOK, Places, Held, Served, Serving, Procs, Other, Holds,
       Applies, NoReferences, NoWork, InFlight, Midway, IsAll
  <2>5. AllServed'
    BY ConnAssumption DEF Typed, TypeOK, Places, Held, Served, Serving, AllServed, Procs, Other,
       Holds, Applies, NoReferences, NoWork, InFlight, Midway, IsAll
  <2> QED BY <2>1, <2>2, <2>3, <2>4, <2>5 DEF Served, Serving
<1>9. ASSUME NEW p \in Procs, CallFails(p) PROVE Served'
  <2>0. \/ /\ pc[p] \in {"add", "record"} /\ IsAll(work[p].req) /\ ~Applies(p)
           /\ pc' = [pc EXCEPT ![p] = "each"] /\ work' = work /\ todo' = todo
        \/ /\ pc' = [pc EXCEPT ![p] = "idle"] /\ work' = [work EXCEPT ![p] = NoWork]
           /\ todo' = IF p = "worker" THEN {} ELSE todo
    BY <1>9, AfterFailing
  <2>a. /\ pc[p] \notin {"idle", "apply"} /\ settled' = settled \cup Dropped(p)
        /\ snap' = [snap EXCEPT ![p] = NoReferences]
        /\ uncounted' = IF pc[p] = "count" THEN uncounted \cup {work[p].req} ELSE uncounted
        /\ pc[p] = "each" => todo = {}
        /\ UNCHANGED <<conns, records, refs, starts, removed, raced>>
    BY <1>9 DEF CallFails
  <2> USE <1>9, <2>0, <2>a DEF Applies, Dropped, Midway
  <2> HIDE DEF Goto
  <2>1. \A q \in Procs : (pc[q] = "count" => <<work[q].req, work[q].conn>> \in settled)'
    BY <2>0, <2>a DEF Typed, TypeOK, Served, Serving, Procs
  <2>2. \A q \in Procs, s \in Requests : (Holds(q, s) /\ s \notin raced => refs[s] # None)'
    BY ConnAssumption DEF Typed, TypeOK, Places, Held, Served, Serving, Procs, Other, Holds,
       Applies, NoReferences
  <2>3. (pc["worker"] = "each" => IsAll(work["worker"].req))'
    BY DEF Typed, TypeOK, Places, Held, Served, Serving, Procs, IsAll, NoWork
  <2>4. \A s \in Requests, d \in conns' :
           Midway(s)' => \/ d \in todo'
                         \/ <<s, d>> \in settled'
                         \/ InFlight(s, d)'
                         \/ pc'["worker"] \in {"add", "record"} /\ work'["worker"].conn = d
    BY ConnAssumption DEF Typed, TypeOK, Places, Held, Served, Serving, Procs, Other, Holds,
       Applies, NoReferences, NoWork, InFlight, Midway, IsAll
  <2>5. AllServed'
    BY ConnAssumption DEF Typed, TypeOK, Places, Held, Served, Serving, AllServed, Procs, Other,
       Holds, Applies, NoReferences, NoWork, InFlight, Midway, IsAll
  <2> QED BY <2>1, <2>2, <2>3, <2>4, <2>5 DEF Served, Serving
<1>10. ASSUME NEW r \in Requests, StartOne(r) PROVE Served'
  <2> USE <1>10 DEF StartOne, Start
  <2>1. \A q \in Procs : (pc[q] = "count" => <<work[q].req, work[q].conn>> \in settled)'
    BY ConnAssumption DEF Typed, TypeOK, Places, Held, Served, Serving, Procs, Applies, Holds
  <2>2. \A q \in Procs, s \in Requests : (Holds(q, s) /\ s \notin raced => refs[s] # None)'
    BY ConnAssumption DEF Typed, TypeOK, Places, Held, Served, Serving, Procs, Other, Holds,
       Applies, NoReferences
  <2>3. (pc["worker"] = "each" => IsAll(work["worker"].req))'
    BY DEF Typed, TypeOK, Places, Held, Served, Serving, Procs, IsAll, NoWork
  <2>4. \A s \in Requests, d \in conns' :
           Midway(s)' => \/ d \in todo'
                         \/ <<s, d>> \in settled'
                         \/ InFlight(s, d)'
                         \/ pc'["worker"] \in {"add", "record"} /\ work'["worker"].conn = d
    BY ConnAssumption DEF Typed, TypeOK, Places, Held, Served, Serving, Procs, Other, Holds,
       Applies, NoReferences, NoWork, InFlight, Midway, IsAll
  <2>5. AllServed'
    BY ConnAssumption DEF Typed, TypeOK, Places, Held, Served, Serving, AllServed, Procs, Other,
       Holds, Applies, NoReferences, NoWork, InFlight, Midway, IsAll
  <2> QED BY <2>1, <2>2, <2>3, <2>4, <2>5 DEF Served, Serving
<1>11. ASSUME NEW r \in Requests, StartAll(r) PROVE Served'
  <2> USE <1>11 DEF StartAll, Start
  <2>1. \A q \in Procs : (pc[q] = "count" => <<work[q].req, work[q].conn>> \in settled)'
    BY ConnAssumption DEF Typed, TypeOK, Places, Held, Served, Serving, Procs, Applies, Holds
  <2>2. \A q \in Procs, s \in Requests : (Holds(q, s) /\ s \notin raced => refs[s] # None)'
    BY ConnAssumption DEF Typed, TypeOK, Places, Held, Served, Serving, Procs, Other, Holds,
       Applies, NoReferences
  <2>3. (pc["worker"] = "each" => IsAll(work["worker"].req))'
    BY DEF Typed, TypeOK, Places, Held, Served, Serving, Procs, IsAll, NoWork
  <2>4. \A s \in Requests, d \in conns' :
           Midway(s)' => \/ d \in todo'
                         \/ <<s, d>> \in settled'
                         \/ InFlight(s, d)'
                         \/ pc'["worker"] \in {"add", "record"} /\ work'["worker"].conn = d
    BY ConnAssumption DEF Typed, TypeOK, Places, Held, Served, Serving, Procs, Other, Holds,
       Applies, NoReferences, NoWork, InFlight, Midway, IsAll
  <2>5. AllServed'
    BY ConnAssumption DEF Typed, TypeOK, Places, Held, Served, Serving, AllServed, Procs, Other,
       Holds, Applies, NoReferences, NoWork, InFlight, Midway, IsAll
  <2> QED BY <2>1, <2>2, <2>3, <2>4, <2>5 DEF Served, Serving
<1>12. ASSUME NEW r \in Requests, StartDrop(r) PROVE Served'
  <2> USE <1>12 DEF StartDrop, Deletion
  <2>1. \A q \in Procs : (pc[q] = "count" => <<work[q].req, work[q].conn>> \in settled)'
    BY ConnAssumption DEF Typed, TypeOK, Places, Held, Served, Serving, Procs, Applies, Holds
  <2>2. \A q \in Procs, s \in Requests : (Holds(q, s) /\ s \notin raced => refs[s] # None)'
    BY ConnAssumption DEF Typed, TypeOK, Places, Held, Served, Serving, Procs, Other, Holds,
       Applies, NoReferences
  <2>3. (pc["worker"] = "each" => IsAll(work["worker"].req))'
    BY DEF Typed, TypeOK, Places, Held, Served, Serving, Procs, IsAll, NoWork
  <2>4. \A s \in Requests, d \in conns' :
           Midway(s)' => \/ d \in todo'
                         \/ <<s, d>> \in settled'
                         \/ InFlight(s, d)'
                         \/ pc'["worker"] \in {"add", "record"} /\ work'["worker"].conn = d
    BY ConnAssumption DEF Typed, TypeOK, Places, Held, Served, Serving, Procs, Other, Holds,
       Applies, NoReferences, NoWork, InFlight, Midway, IsAll
  <2>5. AllServed'
    BY ConnAssumption DEF Typed, TypeOK, Places, Held, Served, Serving, AllServed, Procs, Other,
       Holds, Applies, NoReferences, NoWork, InFlight, Midway, IsAll
  <2> QED BY <2>1, <2>2, <2>3, <2>4, <2>5 DEF Served, Serving
<1>13. ASSUME NextConnection PROVE Served'
  <2> USE <1>13 DEF NextConnection
  <2>1. \A q \in Procs : (pc[q] = "count" => <<work[q].req, work[q].conn>> \in settled)'
    BY ConnAssumption DEF Typed, TypeOK, Places, Held, Served, Serving, Procs, Applies, Holds
  <2>2. \A q \in Procs, s \in Requests : (Holds(q, s) /\ s \notin raced => refs[s] # None)'
    BY ConnAssumption DEF Typed, TypeOK, Places, Held, Served, Serving, Procs, Other, Holds,
       Applies, NoReferences
  <2>3. (pc["worker"] = "each" => IsAll(work["worker"].req))'
    BY DEF Typed, TypeOK, Places, Held, Served, Serving, Procs, IsAll, NoWork
  <2>4. \A s \in Requests, d \in conns' :
           Midway(s)' => \/ d \in todo'
                         \/ <<s, d>> \in settled'
                         \/ InFlight(s, d)'
                         \/ pc'["worker"] \in {"add", "record"} /\ work'["worker"].conn = d
    BY ConnAssumption DEF Typed, TypeOK, Places, Held, Served, Serving, Procs, Other, Holds,
       Applies, NoReferences, NoWork, InFlight, Midway, IsAll
  <2>5. AllServed'
    <3>1. \A s \in Requests, d \in Conns : InFlight(s, d) => InFlight(s, d)'
      BY DEF Typed, TypeOK, Held, InFlight, Holds, Procs
    <3> QED BY <3>1 DEF Served, AllServed, Typed, TypeOK
  <2> QED BY <2>1, <2>2, <2>3, <2>4, <2>5 DEF Served, Serving
<1>14. ASSUME SaveReference PROVE Served'
  <2> USE <1>14 DEF SaveReference, FinalCount
  <2>1. \A q \in Procs : (pc[q] = "count" => <<work[q].req, work[q].conn>> \in settled)'
    BY ConnAssumption DEF Typed, TypeOK, Places, Held, Served, Serving, Procs, Applies, Holds
  <2>2. \A q \in Procs, s \in Requests : (Holds(q, s) /\ s \notin raced => refs[s] # None)'
    BY ConnAssumption DEF Typed, TypeOK, Places, Held, Served, Serving, Procs, Other, Holds,
       Applies, NoReferences
  <2>3. (pc["worker"] = "each" => IsAll(work["worker"].req))'
    BY DEF Typed, TypeOK, Places, Held, Served, Serving, Procs, IsAll, NoWork
  <2>4. \A s \in Requests, d \in conns' :
           Midway(s)' => \/ d \in todo'
                         \/ <<s, d>> \in settled'
                         \/ InFlight(s, d)'
                         \/ pc'["worker"] \in {"add", "record"} /\ work'["worker"].conn = d
    BY ConnAssumption DEF Typed, TypeOK, Places, Held, Served, Serving, Procs, Other, Holds,
       Applies, NoReferences, NoWork, InFlight, Midway, IsAll
  <2>5. AllServed'
    BY ConnAssumption DEF Typed, TypeOK, Places, Held, Served, Serving, AllServed, Procs, Other,
       Holds, Applies, NoReferences, NoWork, InFlight, Midway, IsAll
  <2> QED BY <2>1, <2>2, <2>3, <2>4, <2>5 DEF Served, Serving
<1>15. ASSUME NEW k \in records, StartRemoval(k) PROVE Served'
  <2> USE <1>15 DEF StartRemoval, Deletion
  <2>1. \A q \in Procs : (pc[q] = "count" => <<work[q].req, work[q].conn>> \in settled)'
    BY ConnAssumption DEF Typed, TypeOK, Places, Held, Served, Serving, Procs, Applies, Holds
  <2>2. \A q \in Procs, s \in Requests : (Holds(q, s) /\ s \notin raced => refs[s] # None)'
    BY ConnAssumption DEF Typed, TypeOK, Places, Held, Served, Serving, Procs, Other, Holds,
       Applies, NoReferences
  <2>3. (pc["worker"] = "each" => IsAll(work["worker"].req))'
    BY DEF Typed, TypeOK, Places, Held, Served, Serving, Procs, IsAll, NoWork
  <2>4. \A s \in Requests, d \in conns' :
           Midway(s)' => \/ d \in todo'
                         \/ <<s, d>> \in settled'
                         \/ InFlight(s, d)'
                         \/ pc'["worker"] \in {"add", "record"} /\ work'["worker"].conn = d
    BY ConnAssumption DEF Typed, TypeOK, Places, Held, Served, Serving, Procs, Other, Holds,
       Applies, NoReferences, NoWork, InFlight, Midway, IsAll
  <2>5. AllServed'
    BY ConnAssumption DEF Typed, TypeOK, Places, Held, Served, Serving, AllServed, Procs, Other,
       Holds, Applies, NoReferences, NoWork, InFlight, Midway, IsAll
  <2> QED BY <2>1, <2>2, <2>3, <2>4, <2>5 DEF Served, Serving
<1>16. ASSUME RemoveRule PROVE Served'
  <2> USE <1>16 DEF RemoveRule, RulesOf
  <2>1. \A q \in Procs : (pc[q] = "count" => <<work[q].req, work[q].conn>> \in settled)'
    BY ConnAssumption DEF Typed, TypeOK, Places, Held, Served, Serving, Procs, Applies, Holds
  <2>2. \A q \in Procs, s \in Requests : (Holds(q, s) /\ s \notin raced => refs[s] # None)'
    BY ConnAssumption DEF Typed, TypeOK, Places, Held, Served, Serving, Procs, Other, Holds,
       Applies, NoReferences
  <2>3. (pc["worker"] = "each" => IsAll(work["worker"].req))'
    BY DEF Typed, TypeOK, Places, Held, Served, Serving, Procs, IsAll, NoWork
  <2>4. \A s \in Requests, d \in conns' :
           Midway(s)' => \/ d \in todo'
                         \/ <<s, d>> \in settled'
                         \/ InFlight(s, d)'
                         \/ pc'["worker"] \in {"add", "record"} /\ work'["worker"].conn = d
    BY ConnAssumption DEF Typed, TypeOK, Places, Held, Served, Serving, Procs, Other, Holds,
       Applies, NoReferences, NoWork, InFlight, Midway, IsAll
  <2>5. AllServed'
    BY ConnAssumption DEF Typed, TypeOK, Places, Held, Served, Serving, AllServed, Procs, Other,
       Holds, Applies, NoReferences, NoWork, InFlight, Midway, IsAll
  <2> QED BY <2>1, <2>2, <2>3, <2>4, <2>5 DEF Served, Serving
<1>17. ASSUME DeleteRecord PROVE Served'
  <2> USE <1>17 DEF DeleteRecord
  <2>1. \A q \in Procs : (pc[q] = "count" => <<work[q].req, work[q].conn>> \in settled)'
    BY ConnAssumption DEF Typed, TypeOK, Places, Held, Served, Serving, Procs, Applies, Holds
  <2>2. \A q \in Procs, s \in Requests : (Holds(q, s) /\ s \notin raced => refs[s] # None)'
    BY ConnAssumption DEF Typed, TypeOK, Places, Held, Served, Serving, Procs, Other, Holds,
       Applies, NoReferences
  <2>3. (pc["worker"] = "each" => IsAll(work["worker"].req))'
    BY DEF Typed, TypeOK, Places, Held, Served, Serving, Procs, IsAll, NoWork
  <2>4. \A s \in Requests, d \in conns' :
           Midway(s)' => \/ d \in todo'
                         \/ <<s, d>> \in settled'
                         \/ InFlight(s, d)'
                         \/ pc'["worker"] \in {"add", "record"} /\ work'["worker"].conn = d
    BY ConnAssumption DEF Typed, TypeOK, Places, Held, Served, Serving, Procs, Other, Holds,
       Applies, NoReferences, NoWork, InFlight, Midway, IsAll
  <2>5. AllServed'
    BY ConnAssumption DEF Typed, TypeOK, Places, Held, Served, Serving, AllServed, Procs, Other,
       Holds, Applies, NoReferences, NoWork, InFlight, Midway, IsAll
  <2> QED BY <2>1, <2>2, <2>3, <2>4, <2>5 DEF Served, Serving
<1>18. ASSUME DropReference PROVE Served'
  <2> USE <1>18 DEF DropReference
  <2>1. \A q \in Procs : (pc[q] = "count" => <<work[q].req, work[q].conn>> \in settled)'
    BY ConnAssumption DEF Typed, TypeOK, Places, Held, Served, Serving, Procs, Applies, Holds
  <2>2. \A q \in Procs, s \in Requests : (Holds(q, s) /\ s \notin raced => refs[s] # None)'
    BY ConnAssumption DEF Typed, TypeOK, Places, Held, Served, Serving, Procs, Other, Holds,
       Applies, NoReferences
  <2>3. (pc["worker"] = "each" => IsAll(work["worker"].req))'
    BY DEF Typed, TypeOK, Places, Held, Served, Serving, Procs, IsAll, NoWork
  <2>4. \A s \in Requests, d \in conns' :
           Midway(s)' => \/ d \in todo'
                         \/ <<s, d>> \in settled'
                         \/ InFlight(s, d)'
                         \/ pc'["worker"] \in {"add", "record"} /\ work'["worker"].conn = d
    BY ConnAssumption DEF Typed, TypeOK, Places, Held, Served, Serving, Procs, Other, Holds,
       Applies, NoReferences, NoWork, InFlight, Midway, IsAll
  <2>5. AllServed'
    BY ConnAssumption DEF Typed, TypeOK, Places, Held, Served, Serving, AllServed, Procs, Other,
       Holds, Applies, NoReferences, NoWork, InFlight, Midway, IsAll
  <2> QED BY <2>1, <2>2, <2>3, <2>4, <2>5 DEF Served, Serving
<1>19. ASSUME NEW c \in Conns, RemoveConnection(c) PROVE Served'
  <2> USE <1>19 DEF RemoveConnection, Deletion
  <2>1. \A q \in Procs : (pc[q] = "count" => <<work[q].req, work[q].conn>> \in settled)'
    BY ConnAssumption DEF Typed, TypeOK, Places, Held, Served, Serving, Procs, Applies, Holds
  <2>2. \A q \in Procs, s \in Requests : (Holds(q, s) /\ s \notin raced => refs[s] # None)'
    BY ConnAssumption DEF Typed, TypeOK, Places, Held, Served, Serving, Procs, Other, Holds,
       Applies, NoReferences
  <2>3. (pc["worker"] = "each" => IsAll(work["worker"].req))'
    BY DEF Typed, TypeOK, Places, Held, Served, Serving, Procs, IsAll, NoWork
  <2>4. \A s \in Requests, d \in conns' :
           Midway(s)' => \/ d \in todo'
                         \/ <<s, d>> \in settled'
                         \/ InFlight(s, d)'
                         \/ pc'["worker"] \in {"add", "record"} /\ work'["worker"].conn = d
    BY ConnAssumption DEF Typed, TypeOK, Places, Held, Served, Serving, Procs, Other, Holds,
       Applies, NoReferences, NoWork, InFlight, Midway, IsAll
  <2>5. AllServed'
    BY ConnAssumption DEF Typed, TypeOK, Places, Held, Served, Serving, AllServed, Procs, Other,
       Holds, Applies, NoReferences, NoWork, InFlight, Midway, IsAll
  <2> QED BY <2>1, <2>2, <2>3, <2>4, <2>5 DEF Served, Serving
<1>20. ASSUME Restart PROVE Served'
  <2> USE <1>20 DEF Restart, Fault, Dropped, Midway
  <2>1. \A q \in Procs : (pc[q] = "count" => <<work[q].req, work[q].conn>> \in settled)'
    BY ConnAssumption DEF Typed, TypeOK, Places, Held, Served, Serving, Procs, Applies, Holds
  <2>2. \A q \in Procs, s \in Requests : (Holds(q, s) /\ s \notin raced => refs[s] # None)'
    BY ConnAssumption DEF Typed, TypeOK, Places, Held, Served, Serving, Procs, Other, Holds,
       Applies, NoReferences
  <2>3. (pc["worker"] = "each" => IsAll(work["worker"].req))'
    BY DEF Typed, TypeOK, Places, Held, Served, Serving, Procs, IsAll, NoWork
  <2>4. \A s \in Requests, d \in conns' :
           Midway(s)' => \/ d \in todo'
                         \/ <<s, d>> \in settled'
                         \/ InFlight(s, d)'
                         \/ pc'["worker"] \in {"add", "record"} /\ work'["worker"].conn = d
    BY ConnAssumption DEF Typed, TypeOK, Places, Held, Served, Serving, Procs, Other, Holds,
       Applies, NoReferences, NoWork, InFlight, Midway, IsAll
  <2>5. AllServed'
    BY ConnAssumption DEF Typed, TypeOK, Places, Held, Served, Serving, AllServed, Procs, Other,
       Holds, Applies, NoReferences, NoWork, InFlight, Midway, IsAll
  <2> QED BY <2>1, <2>2, <2>3, <2>4, <2>5 DEF Served, Serving
<1>21. CASE UNCHANGED vars
  BY <1>21 DEF vars, Served, Serving, AllServed, Holds, Midway, InFlight
<1> QED BY <1>1, <1>2, <1>3, <1>4, <1>5, <1>6, <1>7, <1>8, <1>9, <1>10, <1>11, <1>12, <1>13,
           <1>14, <1>15, <1>16, <1>17, <1>18, <1>19, <1>20, <1>21 DEF Next, Connecting, Requesting

-----------------------------------------------------------------------------
(* The numbers of children.  Of a request begun once, whose     *)
(* reference nobody wrote while another used it and whose Counter was never  *)
(* missed, one goroutine at a time makes children, and the next number is    *)
(* above all that are there.                                                 *)
Single(r) == r \notin raced \cup uncounted /\ starts[r] <= 1

Numbered(k) == IF IsAll(k.req) THEN k.n > 0 ELSE k.n = 0 /\ k.conn = Target[k.req]

Begun ==
  /\ \A r \in Requests : refs[r] # None => IsAll(r) /\ starts[r] >= 1
  /\ \A p \in Procs, r \in Requests : Holds(p, r) => IsAll(r) /\ starts[r] >= 1
  /\ \A k \in records : Numbered(k) /\ starts[k.req] >= 1
  /\ pc["worker"] \in {"each", "add", "record"} => starts[work["worker"].req] >= 1
  /\ pc["worker"] = "each" => IsAll(work["worker"].req)
  /\ \A p \in Procs : pc[p] \in {"add", "record"} => Numbered(work[p])

OneUser ==
  /\ \A r \in Requests : Midway(r) /\ Single(r) => refs[r] = None /\ ~Holds("refresher", r)
  /\ \A p \in Procs, r \in Requests : Holds(p, r) /\ Single(r) => ~Holds(Other(p), r) /\ snap[p][r] = refs[r]
  /\ \A p \in Procs : pc[p] \in {"add", "record", "count"} /\ Applies(p) => work[p].n = snap[p][work[p].req] + 1

Counting(k) == \E p \in Procs : pc[p] = "count" /\ work[p] = k

Above ==
  \A k \in records :
    Single(k.req) /\ IsAll(k.req) =>
      /\ refs[k.req] # None => k.n <= refs[k.req] \/ Counting(k)
      /\ Midway(k.req) => k.n <= work["worker"].n /\ (pc["worker"] # "each" => k.n < work["worker"].n)

Named == Begun /\ OneUser /\ Above /\ NamesUnique

(* There are no children at the start.                                       *)
LEMMA InitNamed == Init => Named
BY ConnAssumption DEF Init, Named, Begun, OneUser, Above, NamesUnique, Procs, Holds, NoReferences,
   Midway

(* Every step keeps the numbers apart.                                       *)
LEMMA NamedStep ==
  ASSUME Typed, Typed', Named, [Next]_vars
  PROVE  Named'
<1> USE DEF stored, local, bounds, history, Goto
<1>1. ASSUME NEW p \in Procs, NEW c \in Conns, StartConnection(p, c) PROVE Named'
  <2> USE <1>1 DEF StartConnection
  <2>1. Begun'
    BY ConnAssumption, RequestAssumption DEF Typed, TypeOK, Places, Held, Named, Procs, Other,
       Holds, Applies, NoReferences, NoWork, IsAll, Children, Begun, Numbered
  <2>2. OneUser'
    BY ConnAssumption, RequestAssumption DEF Typed, TypeOK, Places, Held, Named, Procs, Other,
       Holds, Applies, NoReferences, NoWork, IsAll, Children, Begun, OneUser, Single, Midway
  <2>3. Above'
    BY ConnAssumption, RequestAssumption DEF Typed, TypeOK, Places, Held, Named, Procs, Other,
       Holds, Applies, NoReferences, NoWork, IsAll, Children, Begun, OneUser, Above, Single,
       Midway, Counting, Numbered
  <2>4. NamesUnique'
    BY ConnAssumption, RequestAssumption DEF Typed, TypeOK, Places, Held, Named, Procs, Other,
       Holds, Applies, NoReferences, NoWork, IsAll, Children, Begun, OneUser, Above, Single,
       Midway, Counting, Numbered, NamesUnique
  <2> QED BY <2>1, <2>2, <2>3, <2>4 DEF Named
<1>2. ASSUME NEW p \in Procs, SaveConnection(p) PROVE Named'
  <2> USE <1>2 DEF SaveConnection
  <2>1. Begun'
    BY ConnAssumption, RequestAssumption DEF Typed, TypeOK, Places, Held, Named, Procs, Other,
       Holds, Applies, NoReferences, NoWork, IsAll, Children, Begun, Numbered
  <2>2. OneUser'
    BY ConnAssumption, RequestAssumption DEF Typed, TypeOK, Places, Held, Named, Procs, Other,
       Holds, Applies, NoReferences, NoWork, IsAll, Children, Begun, OneUser, Single, Midway
  <2>3. Above'
    BY ConnAssumption, RequestAssumption DEF Typed, TypeOK, Places, Held, Named, Procs, Other,
       Holds, Applies, NoReferences, NoWork, IsAll, Children, Begun, OneUser, Above, Single,
       Midway, Counting, Numbered
  <2>4. NamesUnique'
    BY ConnAssumption, RequestAssumption DEF Typed, TypeOK, Places, Held, Named, Procs, Other,
       Holds, Applies, NoReferences, NoWork, IsAll, Children, Begun, OneUser, Above, Single,
       Midway, Counting, Numbered, NamesUnique
  <2> QED BY <2>1, <2>2, <2>3, <2>4 DEF Named
<1>3. ASSUME NEW p \in Procs, ListReferences(p) PROVE Named'
  <2> USE <1>3 DEF ListReferences, Midway
  <2>1. Begun'
    BY ConnAssumption, RequestAssumption DEF Typed, TypeOK, Places, Held, Named, Procs, Other,
       Holds, Applies, NoReferences, NoWork, IsAll, Children, Begun, Numbered
  <2>2. OneUser'
    BY ConnAssumption, RequestAssumption DEF Typed, TypeOK, Places, Held, Named, Procs, Other,
       Holds, Applies, NoReferences, NoWork, IsAll, Children, Begun, OneUser, Single, Midway
  <2>3. Above'
    BY ConnAssumption, RequestAssumption DEF Typed, TypeOK, Places, Held, Named, Procs, Other,
       Holds, Applies, NoReferences, NoWork, IsAll, Children, Begun, OneUser, Above, Single,
       Midway, Counting, Numbered
  <2>4. NamesUnique'
    BY ConnAssumption, RequestAssumption DEF Typed, TypeOK, Places, Held, Named, Procs, Other,
       Holds, Applies, NoReferences, NoWork, IsAll, Children, Begun, OneUser, Above, Single,
       Midway, Counting, Numbered, NamesUnique
  <2> QED BY <2>1, <2>2, <2>3, <2>4 DEF Named
<1>4. ASSUME NEW p \in Procs, ApplyReference(p) PROVE Named'
  <2> USE <1>4 DEF ApplyReference, NextNumber
  <2>1. Begun'
    BY ConnAssumption, RequestAssumption DEF Typed, TypeOK, Places, Held, Named, Procs, Other,
       Holds, Applies, NoReferences, NoWork, IsAll, Children, Begun, Numbered
  <2>2. OneUser'
    BY ConnAssumption, RequestAssumption DEF Typed, TypeOK, Places, Held, Named, Procs, Other,
       Holds, Applies, NoReferences, NoWork, IsAll, Children, Begun, OneUser, Single, Midway
  <2>3. Above'
    BY ConnAssumption, RequestAssumption DEF Typed, TypeOK, Places, Held, Named, Procs, Other,
       Holds, Applies, NoReferences, NoWork, IsAll, Children, Begun, OneUser, Above, Single,
       Midway, Counting, Numbered
  <2>4. NamesUnique'
    BY ConnAssumption, RequestAssumption DEF Typed, TypeOK, Places, Held, Named, Procs, Other,
       Holds, Applies, NoReferences, NoWork, IsAll, Children, Begun, OneUser, Above, Single,
       Midway, Counting, Numbered, NamesUnique
  <2> QED BY <2>1, <2>2, <2>3, <2>4 DEF Named
<1>5. ASSUME NEW p \in Procs, EndApply(p) PROVE Named'
  <2> USE <1>5 DEF EndApply
  <2>1. Begun'
    BY ConnAssumption, RequestAssumption DEF Typed, TypeOK, Places, Held, Named, Procs, Other,
       Holds, Applies, NoReferences, NoWork, IsAll, Children, Begun, Numbered
  <2>2. OneUser'
    BY ConnAssumption, RequestAssumption DEF Typed, TypeOK, Places, Held, Named, Procs, Other,
       Holds, Applies, NoReferences, NoWork, IsAll, Children, Begun, OneUser, Single, Midway
  <2>3. Above'
    BY ConnAssumption, RequestAssumption DEF Typed, TypeOK, Places, Held, Named, Procs, Other,
       Holds, Applies, NoReferences, NoWork, IsAll, Children, Begun, OneUser, Above, Single,
       Midway, Counting, Numbered
  <2>4. NamesUnique'
    BY ConnAssumption, RequestAssumption DEF Typed, TypeOK, Places, Held, Named, Procs, Other,
       Holds, Applies, NoReferences, NoWork, IsAll, Children, Begun, OneUser, Above, Single,
       Midway, Counting, Numbered, NamesUnique
  <2> QED BY <2>1, <2>2, <2>3, <2>4 DEF Named
<1>6. ASSUME NEW p \in Procs, CountChild(p) PROVE Named'
  <2> USE <1>6 DEF CountChild, NextNumber
  <2>1. Begun'
    BY ConnAssumption, RequestAssumption DEF Typed, TypeOK, Places, Held, Named, Procs, Other,
       Holds, Applies, NoReferences, NoWork, IsAll, Children, Begun, Numbered
  <2>2. OneUser'
    BY ConnAssumption, RequestAssumption DEF Typed, TypeOK, Places, Held, Named, Procs, Other,
       Holds, Applies, NoReferences, NoWork, IsAll, Children, Begun, OneUser, Single, Midway
  <2>3. Above'
    BY ConnAssumption, RequestAssumption DEF Typed, TypeOK, Places, Held, Named, Procs, Other,
       Holds, Applies, NoReferences, NoWork, IsAll, Children, Begun, OneUser, Above, Single,
       Midway, Counting, Numbered
  <2>4. NamesUnique'
    BY ConnAssumption, RequestAssumption DEF Typed, TypeOK, Places, Held, Named, Procs, Other,
       Holds, Applies, NoReferences, NoWork, IsAll, Children, Begun, OneUser, Above, Single,
       Midway, Counting, Numbered, NamesUnique
  <2> QED BY <2>1, <2>2, <2>3, <2>4 DEF Named
<1>7. ASSUME NEW p \in Procs, AddRule(p) PROVE Named'
  <2> USE <1>7 DEF AddRule, Twice
  <2>1. Begun'
    BY ConnAssumption, RequestAssumption DEF Typed, TypeOK, Places, Held, Named, Procs, Other,
       Holds, Applies, NoReferences, NoWork, IsAll, Children, Begun, Numbered
  <2>2. OneUser'
    BY ConnAssumption, RequestAssumption DEF Typed, TypeOK, Places, Held, Named, Procs, Other,
       Holds, Applies, NoReferences, NoWork, IsAll, Children, Begun, OneUser, Single, Midway
  <2>3. Above'
    BY ConnAssumption, RequestAssumption DEF Typed, TypeOK, Places, Held, Named, Procs, Other,
       Holds, Applies, NoReferences, NoWork, IsAll, Children, Begun, OneUser, Above, Single,
       Midway, Counting, Numbered
  <2>4. NamesUnique'
    BY ConnAssumption, RequestAssumption DEF Typed, TypeOK, Places, Held, Named, Procs, Other,
       Holds, Applies, NoReferences, NoWork, IsAll, Children, Begun, OneUser, Above, Single,
       Midway, Counting, Numbered, NamesUnique
  <2> QED BY <2>1, <2>2, <2>3, <2>4 DEF Named
<1>8. ASSUME NEW p \in Procs, SaveChild(p) PROVE Named'
  <2>0. \/ Applies(p) /\ pc' = [pc EXCEPT ![p] = "count"] /\ work' = work
        \/ ~Applies(p) /\ IsAll(work[p].req) /\ pc' = [pc EXCEPT ![p] = "each"] /\ work' = work
        \/ /\ ~Applies(p) /\ ~IsAll(work[p].req)
           /\ pc' = [pc EXCEPT ![p] = "idle"] /\ work' = [work EXCEPT ![p] = NoWork]
    BY <1>8, AfterSaving
  <2> USE <1>8, <2>0 DEF SaveChild, Applies
  <2> HIDE DEF Goto
  <2>1. Begun'
    BY ConnAssumption, RequestAssumption DEF Typed, TypeOK, Places, Held, Named, Procs, Other,
       Holds, Applies, NoReferences, NoWork, IsAll, Children, Begun, Numbered
  <2>2. OneUser'
    BY ConnAssumption, RequestAssumption DEF Typed, TypeOK, Places, Held, Named, Procs, Other,
       Holds, Applies, NoReferences, NoWork, IsAll, Children, Begun, OneUser, Single, Midway
  <2>3. Above'
    BY ConnAssumption, RequestAssumption DEF Typed, TypeOK, Places, Held, Named, Procs, Other,
       Holds, Applies, NoReferences, NoWork, IsAll, Children, Begun, OneUser, Above, Single,
       Midway, Counting, Numbered
  <2>4. NamesUnique'
    BY ConnAssumption, RequestAssumption DEF Typed, TypeOK, Places, Held, Named, Procs, Other,
       Holds, Applies, NoReferences, NoWork, IsAll, Children, Begun, OneUser, Above, Single,
       Midway, Counting, Numbered, NamesUnique
  <2> QED BY <2>1, <2>2, <2>3, <2>4 DEF Named
<1>9. ASSUME NEW p \in Procs, CallFails(p) PROVE Named'
  <2>0. \/ /\ pc[p] \in {"add", "record"} /\ IsAll(work[p].req) /\ ~Applies(p)
           /\ pc' = [pc EXCEPT ![p] = "each"] /\ work' = work /\ todo' = todo
        \/ /\ pc' = [pc EXCEPT ![p] = "idle"] /\ work' = [work EXCEPT ![p] = NoWork]
           /\ todo' = IF p = "worker" THEN {} ELSE todo
    BY <1>9, AfterFailing
  <2>a. /\ pc[p] \notin {"idle", "apply"} /\ settled' = settled \cup Dropped(p)
        /\ snap' = [snap EXCEPT ![p] = NoReferences]
        /\ uncounted' = IF pc[p] = "count" THEN uncounted \cup {work[p].req} ELSE uncounted
        /\ pc[p] = "each" => todo = {}
        /\ UNCHANGED <<conns, records, refs, starts, removed, raced>>
    BY <1>9 DEF CallFails
  <2> USE <1>9, <2>0, <2>a DEF Applies, Dropped, Midway
  <2> HIDE DEF Goto
  <2>1. Begun'
    BY ConnAssumption, RequestAssumption DEF Typed, TypeOK, Places, Held, Named, Procs, Other,
       Holds, Applies, NoReferences, NoWork, IsAll, Children, Begun, Numbered
  <2>2. OneUser'
    BY ConnAssumption, RequestAssumption DEF Typed, TypeOK, Places, Held, Named, Procs, Other,
       Holds, Applies, NoReferences, NoWork, IsAll, Children, Begun, OneUser, Single, Midway
  <2>3. Above'
    BY ConnAssumption, RequestAssumption DEF Typed, TypeOK, Places, Held, Named, Procs, Other,
       Holds, Applies, NoReferences, NoWork, IsAll, Children, Begun, OneUser, Above, Single,
       Midway, Counting, Numbered
  <2>4. NamesUnique'
    BY ConnAssumption, RequestAssumption DEF Typed, TypeOK, Places, Held, Named, Procs, Other,
       Holds, Applies, NoReferences, NoWork, IsAll, Children, Begun, OneUser, Above, Single,
       Midway, Counting, Numbered, NamesUnique
  <2> QED BY <2>1, <2>2, <2>3, <2>4 DEF Named
<1>10. ASSUME NEW r \in Requests, StartOne(r) PROVE Named'
  <2> USE <1>10 DEF StartOne, Start
  <2>1. Begun'
    BY ConnAssumption, RequestAssumption DEF Typed, TypeOK, Places, Held, Named, Procs, Other,
       Holds, Applies, NoReferences, NoWork, IsAll, Children, Begun, Numbered
  <2>2. OneUser'
    BY ConnAssumption, RequestAssumption DEF Typed, TypeOK, Places, Held, Named, Procs, Other,
       Holds, Applies, NoReferences, NoWork, IsAll, Children, Begun, OneUser, Single, Midway
  <2>3. Above'
    BY ConnAssumption, RequestAssumption DEF Typed, TypeOK, Places, Held, Named, Procs, Other,
       Holds, Applies, NoReferences, NoWork, IsAll, Children, Begun, OneUser, Above, Single,
       Midway, Counting, Numbered
  <2>4. NamesUnique'
    BY ConnAssumption, RequestAssumption DEF Typed, TypeOK, Places, Held, Named, Procs, Other,
       Holds, Applies, NoReferences, NoWork, IsAll, Children, Begun, OneUser, Above, Single,
       Midway, Counting, Numbered, NamesUnique
  <2> QED BY <2>1, <2>2, <2>3, <2>4 DEF Named
<1>11. ASSUME NEW r \in Requests, StartAll(r) PROVE Named'
  <2> USE <1>11 DEF StartAll, Start
  <2>1. Begun'
    BY ConnAssumption, RequestAssumption DEF Typed, TypeOK, Places, Held, Named, Procs, Other,
       Holds, Applies, NoReferences, NoWork, IsAll, Children, Begun, Numbered
  <2>2. OneUser'
    BY ConnAssumption, RequestAssumption DEF Typed, TypeOK, Places, Held, Named, Procs, Other,
       Holds, Applies, NoReferences, NoWork, IsAll, Children, Begun, OneUser, Single, Midway
  <2>3. Above'
    BY ConnAssumption, RequestAssumption DEF Typed, TypeOK, Places, Held, Named, Procs, Other,
       Holds, Applies, NoReferences, NoWork, IsAll, Children, Begun, OneUser, Above, Single,
       Midway, Counting, Numbered
  <2>4. NamesUnique'
    BY ConnAssumption, RequestAssumption DEF Typed, TypeOK, Places, Held, Named, Procs, Other,
       Holds, Applies, NoReferences, NoWork, IsAll, Children, Begun, OneUser, Above, Single,
       Midway, Counting, Numbered, NamesUnique
  <2> QED BY <2>1, <2>2, <2>3, <2>4 DEF Named
<1>12. ASSUME NEW r \in Requests, StartDrop(r) PROVE Named'
  <2> USE <1>12 DEF StartDrop, Deletion
  <2>1. Begun'
    BY ConnAssumption, RequestAssumption DEF Typed, TypeOK, Places, Held, Named, Procs, Other,
       Holds, Applies, NoReferences, NoWork, IsAll, Children, Begun, Numbered
  <2>2. OneUser'
    BY ConnAssumption, RequestAssumption DEF Typed, TypeOK, Places, Held, Named, Procs, Other,
       Holds, Applies, NoReferences, NoWork, IsAll, Children, Begun, OneUser, Single, Midway
  <2>3. Above'
    BY ConnAssumption, RequestAssumption DEF Typed, TypeOK, Places, Held, Named, Procs, Other,
       Holds, Applies, NoReferences, NoWork, IsAll, Children, Begun, OneUser, Above, Single,
       Midway, Counting, Numbered
  <2>4. NamesUnique'
    BY ConnAssumption, RequestAssumption DEF Typed, TypeOK, Places, Held, Named, Procs, Other,
       Holds, Applies, NoReferences, NoWork, IsAll, Children, Begun, OneUser, Above, Single,
       Midway, Counting, Numbered, NamesUnique
  <2> QED BY <2>1, <2>2, <2>3, <2>4 DEF Named
<1>13. ASSUME NextConnection PROVE Named'
  <2> USE <1>13 DEF NextConnection
  <2>1. Begun'
    BY ConnAssumption, RequestAssumption DEF Typed, TypeOK, Places, Held, Named, Procs, Other,
       Holds, Applies, NoReferences, NoWork, IsAll, Children, Begun, Numbered
  <2>2. OneUser'
    BY ConnAssumption, RequestAssumption DEF Typed, TypeOK, Places, Held, Named, Procs, Other,
       Holds, Applies, NoReferences, NoWork, IsAll, Children, Begun, OneUser, Single, Midway
  <2>3. Above'
    BY ConnAssumption, RequestAssumption DEF Typed, TypeOK, Places, Held, Named, Procs, Other,
       Holds, Applies, NoReferences, NoWork, IsAll, Children, Begun, OneUser, Above, Single,
       Midway, Counting, Numbered
  <2>4. NamesUnique'
    BY ConnAssumption, RequestAssumption DEF Typed, TypeOK, Places, Held, Named, Procs, Other,
       Holds, Applies, NoReferences, NoWork, IsAll, Children, Begun, OneUser, Above, Single,
       Midway, Counting, Numbered, NamesUnique
  <2> QED BY <2>1, <2>2, <2>3, <2>4 DEF Named
<1>14. ASSUME SaveReference PROVE Named'
  <2> USE <1>14 DEF SaveReference, FinalCount
  <2>1. Begun'
    BY ConnAssumption, RequestAssumption DEF Typed, TypeOK, Places, Held, Named, Procs, Other,
       Holds, Applies, NoReferences, NoWork, IsAll, Children, Begun, Numbered
  <2>2. OneUser'
    BY ConnAssumption, RequestAssumption DEF Typed, TypeOK, Places, Held, Named, Procs, Other,
       Holds, Applies, NoReferences, NoWork, IsAll, Children, Begun, OneUser, Single, Midway
  <2>3. Above'
    BY ConnAssumption, RequestAssumption DEF Typed, TypeOK, Places, Held, Named, Procs, Other,
       Holds, Applies, NoReferences, NoWork, IsAll, Children, Begun, OneUser, Above, Single,
       Midway, Counting, Numbered
  <2>4. NamesUnique'
    BY ConnAssumption, RequestAssumption DEF Typed, TypeOK, Places, Held, Named, Procs, Other,
       Holds, Applies, NoReferences, NoWork, IsAll, Children, Begun, OneUser, Above, Single,
       Midway, Counting, Numbered, NamesUnique
  <2> QED BY <2>1, <2>2, <2>3, <2>4 DEF Named
<1>15. ASSUME NEW k \in records, StartRemoval(k) PROVE Named'
  <2> USE <1>15 DEF StartRemoval, Deletion
  <2>1. Begun'
    BY ConnAssumption, RequestAssumption DEF Typed, TypeOK, Places, Held, Named, Procs, Other,
       Holds, Applies, NoReferences, NoWork, IsAll, Children, Begun, Numbered
  <2>2. OneUser'
    BY ConnAssumption, RequestAssumption DEF Typed, TypeOK, Places, Held, Named, Procs, Other,
       Holds, Applies, NoReferences, NoWork, IsAll, Children, Begun, OneUser, Single, Midway
  <2>3. Above'
    BY ConnAssumption, RequestAssumption DEF Typed, TypeOK, Places, Held, Named, Procs, Other,
       Holds, Applies, NoReferences, NoWork, IsAll, Children, Begun, OneUser, Above, Single,
       Midway, Counting, Numbered
  <2>4. NamesUnique'
    BY ConnAssumption, RequestAssumption DEF Typed, TypeOK, Places, Held, Named, Procs, Other,
       Holds, Applies, NoReferences, NoWork, IsAll, Children, Begun, OneUser, Above, Single,
       Midway, Counting, Numbered, NamesUnique
  <2> QED BY <2>1, <2>2, <2>3, <2>4 DEF Named
<1>16. ASSUME RemoveRule PROVE Named'
  <2> USE <1>16 DEF RemoveRule, RulesOf
  <2>1. Begun'
    BY ConnAssumption, RequestAssumption DEF Typed, TypeOK, Places, Held, Named, Procs, Other,
       Holds, Applies, NoReferences, NoWork, IsAll, Children, Begun, Numbered
  <2>2. OneUser'
    BY ConnAssumption, RequestAssumption DEF Typed, TypeOK, Places, Held, Named, Procs, Other,
       Holds, Applies, NoReferences, NoWork, IsAll, Children, Begun, OneUser, Single, Midway
  <2>3. Above'
    BY ConnAssumption, RequestAssumption DEF Typed, TypeOK, Places, Held, Named, Procs, Other,
       Holds, Applies, NoReferences, NoWork, IsAll, Children, Begun, OneUser, Above, Single,
       Midway, Counting, Numbered
  <2>4. NamesUnique'
    BY ConnAssumption, RequestAssumption DEF Typed, TypeOK, Places, Held, Named, Procs, Other,
       Holds, Applies, NoReferences, NoWork, IsAll, Children, Begun, OneUser, Above, Single,
       Midway, Counting, Numbered, NamesUnique
  <2> QED BY <2>1, <2>2, <2>3, <2>4 DEF Named
<1>17. ASSUME DeleteRecord PROVE Named'
  <2> USE <1>17 DEF DeleteRecord
  <2>1. Begun'
    BY ConnAssumption, RequestAssumption DEF Typed, TypeOK, Places, Held, Named, Procs, Other,
       Holds, Applies, NoReferences, NoWork, IsAll, Children, Begun, Numbered
  <2>2. OneUser'
    BY ConnAssumption, RequestAssumption DEF Typed, TypeOK, Places, Held, Named, Procs, Other,
       Holds, Applies, NoReferences, NoWork, IsAll, Children, Begun, OneUser, Single, Midway
  <2>3. Above'
    BY ConnAssumption, RequestAssumption DEF Typed, TypeOK, Places, Held, Named, Procs, Other,
       Holds, Applies, NoReferences, NoWork, IsAll, Children, Begun, OneUser, Above, Single,
       Midway, Counting, Numbered
  <2>4. NamesUnique'
    BY ConnAssumption, RequestAssumption DEF Typed, TypeOK, Places, Held, Named, Procs, Other,
       Holds, Applies, NoReferences, NoWork, IsAll, Children, Begun, OneUser, Above, Single,
       Midway, Counting, Numbered, NamesUnique
  <2> QED BY <2>1, <2>2, <2>3, <2>4 DEF Named
<1>18. ASSUME DropReference PROVE Named'
  <2> USE <1>18 DEF DropReference
  <2>1. Begun'
    BY ConnAssumption, RequestAssumption DEF Typed, TypeOK, Places, Held, Named, Procs, Other,
       Holds, Applies, NoReferences, NoWork, IsAll, Children, Begun, Numbered
  <2>2. OneUser'
    BY ConnAssumption, RequestAssumption DEF Typed, TypeOK, Places, Held, Named, Procs, Other,
       Holds, Applies, NoReferences, NoWork, IsAll, Children, Begun, OneUser, Single, Midway
  <2>3. Above'
    BY ConnAssumption, RequestAssumption DEF Typed, TypeOK, Places, Held, Named, Procs, Other,
       Holds, Applies, NoReferences, NoWork, IsAll, Children, Begun, OneUser, Above, Single,
       Midway, Counting, Numbered
  <2>4. NamesUnique'
    BY ConnAssumption, RequestAssumption DEF Typed, TypeOK, Places, Held, Named, Procs, Other,
       Holds, Applies, NoReferences, NoWork, IsAll, Children, Begun, OneUser, Above, Single,
       Midway, Counting, Numbered, NamesUnique
  <2> QED BY <2>1, <2>2, <2>3, <2>4 DEF Named
<1>19. ASSUME NEW c \in Conns, RemoveConnection(c) PROVE Named'
  <2> USE <1>19 DEF RemoveConnection, Deletion
  <2>1. Begun'
    BY ConnAssumption, RequestAssumption DEF Typed, TypeOK, Places, Held, Named, Procs, Other,
       Holds, Applies, NoReferences, NoWork, IsAll, Children, Begun, Numbered
  <2>2. OneUser'
    BY ConnAssumption, RequestAssumption DEF Typed, TypeOK, Places, Held, Named, Procs, Other,
       Holds, Applies, NoReferences, NoWork, IsAll, Children, Begun, OneUser, Single, Midway
  <2>3. Above'
    BY ConnAssumption, RequestAssumption DEF Typed, TypeOK, Places, Held, Named, Procs, Other,
       Holds, Applies, NoReferences, NoWork, IsAll, Children, Begun, OneUser, Above, Single,
       Midway, Counting, Numbered
  <2>4. NamesUnique'
    BY ConnAssumption, RequestAssumption DEF Typed, TypeOK, Places, Held, Named, Procs, Other,
       Holds, Applies, NoReferences, NoWork, IsAll, Children, Begun, OneUser, Above, Single,
       Midway, Counting, Numbered, NamesUnique
  <2> QED BY <2>1, <2>2, <2>3, <2>4 DEF Named
<1>20. ASSUME Restart PROVE Named'
  <2> USE <1>20 DEF Restart, Fault, Dropped, Midway
  <2>1. Begun'
    BY ConnAssumption, RequestAssumption DEF Typed, TypeOK, Places, Held, Named, Procs, Other,
       Holds, Applies, NoReferences, NoWork, IsAll, Children, Begun, Numbered
  <2>2. OneUser'
    BY ConnAssumption, RequestAssumption DEF Typed, TypeOK, Places, Held, Named, Procs, Other,
       Holds, Applies, NoReferences, NoWork, IsAll, Children, Begun, OneUser, Single, Midway
  <2>3. Above'
    BY ConnAssumption, RequestAssumption DEF Typed, TypeOK, Places, Held, Named, Procs, Other,
       Holds, Applies, NoReferences, NoWork, IsAll, Children, Begun, OneUser, Above, Single,
       Midway, Counting, Numbered
  <2>4. NamesUnique'
    BY ConnAssumption, RequestAssumption DEF Typed, TypeOK, Places, Held, Named, Procs, Other,
       Holds, Applies, NoReferences, NoWork, IsAll, Children, Begun, OneUser, Above, Single,
       Midway, Counting, Numbered, NamesUnique
  <2> QED BY <2>1, <2>2, <2>3, <2>4 DEF Named
<1>21. CASE UNCHANGED vars
  BY <1>21 DEF vars, Named, Begun, OneUser, Above, NamesUnique, Single, Numbered, Counting, Holds,
     Applies, Midway
<1> QED BY <1>1, <1>2, <1>3, <1>4, <1>5, <1>6, <1>7, <1>8, <1>9, <1>10, <1>11, <1>12, <1>13,
           <1>14, <1>15, <1>16, <1>17, <1>18, <1>19, <1>20, <1>21 DEF Next, Connecting, Requesting

-----------------------------------------------------------------------------
(* The types hold of every behaviour.                                        *)
LEMMA TypedAlways == Spec => []Typed
<1>1. Typed /\ [Next]_vars => Typed'
  BY TypedStep
<1> QED BY InitTyped, <1>1, PTL DEF Spec

(* The variables keep their types.                                           *)
THEOREM TypeCorrect == Spec => []TypeOK
<1>1. Typed => TypeOK
  BY DEF Typed
<1> QED BY <1>1, TypedAlways, PTL

(* Rules and records stay together in every behaviour.                       *)
LEMMA EnforcedAlways == Spec => []Enforced
<1>1. Typed /\ Enforced /\ [Next]_vars => Enforced'
  BY EnforcedStep
<1> QED BY InitEnforced, <1>1, TypedAlways, PTL DEF Spec

(* No allow rule is left in a cloud without a record, but for the exceptions *)
(* RulesOwned names                                                          *)
(* (awi_connection_controller.go:657-760, disconnect.go:224-250).            *)
THEOREM NoStrayRule == Spec => []RulesOwned
<1>1. Enforced => RulesOwned
  BY DEF Enforced
<1> QED BY <1>1, EnforcedAlways, PTL

(* A stored app connection's rule is there, whatever else is created and     *)
(* deleted (disconnect.go:237-245, security_groups.go:265).                  *)
THEOREM RuleStays == Spec => []RecordsEnforced
<1>1. Enforced => RecordsEnforced
  BY DEF Enforced
<1> QED BY <1>1, EnforcedAlways, PTL

(* Every network domain connection gets its child of every reference         *)
(* (awi_connection_controller.go:583-655).                                   *)
THEOREM EveryConnectionServed == Spec => []AllServed
<1>1. Typed /\ Typed' /\ Served /\ [Next]_vars => Served'
  BY ServedStep
<1>2. Served => AllServed
  BY DEF Served
<1> QED BY InitServed, <1>1, <1>2, TypedAlways, PTL DEF Spec

(* The numbers hold of every behaviour.                                      *)
LEMMA NamedAlways == Spec => []Named
<1>1. Typed /\ Typed' /\ Named /\ [Next]_vars => Named'
  BY NamedStep
<1> QED BY InitNamed, <1>1, TypedAlways, PTL DEF Spec

(* No two children of a reference share a name                               *)
(* (awi_connection_controller.go:583-655).                                   *)
THEOREM NumbersDiffer == Spec => []NamesUnique
<1>1. Named => NamesUnique
  BY DEF Named
<1> QED BY <1>1, NamedAlways, PTL

(* A step writes the Counter of a reference it listed as it still is.        *)
LEMMA CounterStep ==
  ASSUME Typed, Named, [Next]_vars, NEW r \in Requests,
         refs[r] # None, refs'[r] # None, r \notin raced' \cup uncounted', starts'[r] <= 1
  PROVE  \/ refs'[r] = refs[r]
         \/ /\ refs'[r] = refs[r] + 1
            /\ \E p \in Procs : pc[p] = "count" /\ work[p].req = r /\ work[p].n = refs'[r]
<1> USE DEF stored, local, bounds, history
<1>1. ASSUME NEW p \in Procs, CountChild(p), work[p].req = r
      PROVE  /\ refs'[r] = refs[r] + 1
             /\ pc[p] = "count" /\ work[p].req = r /\ work[p].n = refs'[r]
  <2>1. Holds(p, r) /\ Applies(p)
    BY <1>1 DEF CountChild, Typed, Held, Applies
  <2>2. Single(r)
    BY <1>1 DEF CountChild, Single
  <2>3. snap[p][r] = refs[r]
    BY <2>1, <2>2 DEF Named, OneUser
  <2>4. work[p].n = snap[p][r] + 1
    BY <1>1, <2>1 DEF CountChild, Named, OneUser
  <2>5. refs'[r] = snap[p][r] + 1
    BY <1>1 DEF CountChild, NextNumber, Typed, TypeOK
  <2> QED BY <1>1, <2>3, <2>4, <2>5 DEF CountChild
<1>2. ASSUME NEW p \in Procs, CountChild(p), work[p].req # r PROVE refs'[r] = refs[r]
  BY <1>2 DEF CountChild, Typed, TypeOK
<1>3. ASSUME SaveReference PROVE refs'[r] = refs[r]
  <2>1. CASE work["worker"].req = r
    <3>1. IsAll(r) /\ Single(r)
      BY <1>3, <2>1 DEF SaveReference, Named, Begun, Single
    <3>2. ~Holds("worker", r)
      BY <1>3 DEF SaveReference, Typed, Held, Procs
    <3>3. Midway(r)
      BY <1>3, <2>1, <3>1, <3>2 DEF SaveReference, Midway
    <3> QED BY <3>1, <3>3 DEF Named, OneUser
  <2>2. CASE work["worker"].req # r
    BY <1>3, <2>2 DEF SaveReference, Typed, TypeOK
  <2> QED BY <2>1, <2>2
<1>4. ASSUME DropReference PROVE refs'[r] = refs[r]
  BY <1>4 DEF DropReference, Typed, TypeOK
<1>5. CASE UNCHANGED refs
  BY <1>5
<1>6. ASSUME NEW p \in Procs, Connecting(p) PROVE CountChild(p) \/ UNCHANGED refs
  BY <1>6 DEF Connecting, StartConnection, SaveConnection, ListReferences, ApplyReference,
     EndApply, AddRule, SaveChild, CallFails
<1>7. ASSUME Requesting PROVE SaveReference \/ DropReference \/ UNCHANGED refs
  BY <1>7 DEF Requesting, StartOne, StartAll, StartDrop, NextConnection, StartRemoval, RemoveRule,
     DeleteRecord, RemoveConnection
<1>8. ASSUME Restart PROVE UNCHANGED refs
  BY <1>8 DEF Restart
<1>9. UNCHANGED vars => UNCHANGED refs
  BY DEF vars
<1> QED BY <1>1, <1>2, <1>3, <1>4, <1>5, <1>6, <1>7, <1>8, <1>9 DEF Next

(* Between its creation and its deletion, a reference's Counter only counts  *)
(* up, one for the child just made, whichever goroutine writes it back       *)
(* (awi_connection_controller.go:629-655).                                   *)
THEOREM CounterCounts == Spec => CounterSteps
<1>1. Typed /\ Named /\ [Next]_vars
      => [\A r \in Requests :
            refs[r] # None /\ refs'[r] # None /\ r \notin raced' \cup uncounted' /\ starts'[r] <= 1
              => \/ refs'[r] = refs[r]
                 \/ /\ refs'[r] = refs[r] + 1
                    /\ \E p \in Procs :
                         pc[p] = "count" /\ work[p].req = r /\ work[p].n = refs'[r]]_vars
  BY CounterStep
<1> QED BY <1>1, TypedAlways, NamedAlways, PTL DEF Spec, CounterSteps
=============================================================================
