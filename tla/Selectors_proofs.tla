-------------------------- MODULE Selectors_proofs --------------------------
(***************************************************************************)
(* Proofs about Selectors, for tables and selectors of any size.           *)
(***************************************************************************)
EXTENDS Selectors, SequenceTheorems, FiniteSetTheorems, TLAPS

(* What the listed tables are: sequences, and so are a policy's entries.     *)
LEMMA Tables ==
  ASSUME TypeOK
  PROVE  /\ Len(policies) \in Nat /\ DOMAIN policies = 1..Len(policies)
         /\ Len(domains) \in Nat /\ DOMAIN domains = 1..Len(domains)
<1>1. IsList(policies) /\ IsList(domains)
  BY SelectorsAssumption DEF TypeOK
<1> QED BY <1>1, LenProperties DEF IsList

(* A listed domain's id is one of the tables' ids.                           *)
LEMMA DomainIds ==
  ASSUME TypeOK, NEW i \in Nat, i < Len(domains)
  PROVE  domains[i + 1].id \in Ids
<1>1. i + 1 \in 1..Len(domains) /\ domains \in DomainTables
  BY Tables DEF TypeOK
<1>2. domains[i + 1].id \in {domains[k].id : k \in 1..Len(domains)}
  BY <1>1
<1> QED BY <1>1, <1>2 DEF Ids

(* The entries of a listed policy are a sequence.                            *)
LEMMA Entries ==
  ASSUME TypeOK, NEW i \in 1..Len(policies)
  PROVE  Len(policies[i].rules) \in Nat /\ DOMAIN policies[i].rules = 1..Len(policies[i].rules)
<1>1. IsList(policies[i].rules)
  BY SelectorsAssumption DEF TypeOK
<1> QED BY <1>1, LenProperties DEF IsList

(* The entries that are translated are a listed policy's, or none.           *)
LEMMA RulesTyped ==
  ASSUME TypeOK
  PROVE  /\ Len(Rules) \in Nat /\ DOMAIN Rules = 1..Len(Rules)
         /\ \A j \in 1..Len(Rules) : Rules[j].protocol \in Protocols /\ Rules[j].port \in Ports
<1>1. CASE found = <<>>
  BY <1>1 DEF Rules
<1>2. ASSUME NEW i \in 1..Len(policies), found = <<policies[i]>>
      PROVE  /\ Len(Rules) \in Nat /\ DOMAIN Rules = 1..Len(Rules)
             /\ \A j \in 1..Len(Rules) : Rules[j].protocol \in Protocols /\ Rules[j].port \in Ports
  <2>1. Rules = policies[i].rules
    BY <1>2 DEF Rules
  <2>2. policies \in PolicyTables
    BY DEF TypeOK
  <2>3. \A j \in 1..Len(policies[i].rules) :
          policies[i].rules[j].protocol \in Protocols /\ policies[i].rules[j].port \in Ports
    BY <2>2 DEF Protocols, Ports
  <2> QED BY <2>1, <2>3, Entries
<1> QED BY <1>1, <1>2 DEF TypeOK

(* Nothing is found or translated at the start.                              *)
LEMMA InitTyped == Init => TypeOK
<1> SUFFICES ASSUME Init PROVE TypeOK
  OBVIOUS
<1>1. IsList(domains)
  BY SelectorsAssumption DEF Init
<1>2. acl = <<>> /\ DOMAIN acl = {}
  BY DEF Init
<1> QED BY <1>2 DEF Init, TypeOK, States

(* One entry keeps the translated map over protocols and ports of the tables. *)
LEMMA EntryTyped ==
  ASSUME NEW f, NEW e, DOMAIN f \subseteq Protocols \ {None},
         \A p \in DOMAIN f : f[p] \subseteq Ports \ {NoPort},
         e.protocol \in Protocols, e.port \in Ports
  PROVE  /\ DOMAIN AddEntry(f, e) \subseteq Protocols \ {None}
         /\ \A p \in DOMAIN AddEntry(f, e) : AddEntry(f, e)[p] \subseteq Ports \ {NoPort}
BY DEF AddEntry

(* Every step keeps the types.                                               *)
LEMMA TypedStep ==
  ASSUME TypeOK, [Next]_vars
  PROVE  TypeOK'
<1> USE DEF inputs, Goto
<1>0. AfterPolicy \in {"rules", "source"}
  BY DEF AfterPolicy
<1>1. ASSUME NoPolicy PROVE TypeOK'
  BY <1>0, <1>1, Tables, RulesTyped DEF NoPolicy, TypeOK, States, Rules
<1>2. ASSUME NEW i \in 1..Len(policies), TakePolicy(i) PROVE TypeOK'
  <2>1. found' \in {<<>>} \cup {<<policies[j]>> : j \in 1..Len(policies)}
    BY <1>2 DEF TakePolicy, TypeOK
  <2>2. pc' \in States /\ next' \in Nat /\ (pc' \in {"source", "destination"} => next' = 0)
    BY <1>0, <1>2 DEF TakePolicy, TypeOK, States
  <2>3. pc' = "rules" => next' = 0 /\ (found' = <<>> \/ found' = <<policies[i]>>)
    BY <1>2 DEF TakePolicy, TypeOK
  <2>4. pc' = "rules" => next' <= Len(Rules')
    BY <2>3, Entries DEF Rules
  <2> QED BY <1>2, <2>1, <2>2, <2>4, Tables DEF TakePolicy, TypeOK
<1>3. ASSUME PolicyMissing PROVE TypeOK'
  BY <1>3 DEF PolicyMissing, TypeOK, States
<1>4. ASSUME Translate PROVE TypeOK'
  <2>1. Rules[next + 1].protocol \in Protocols /\ Rules[next + 1].port \in Ports
    BY <1>4, RulesTyped DEF Translate, TypeOK
  <2>2. /\ DOMAIN acl' \subseteq Protocols \ {None}
        /\ \A p \in DOMAIN acl' : acl'[p] \subseteq Ports \ {NoPort}
    BY <1>4, <2>1, EntryTyped DEF Translate, TypeOK
  <2>3. next' \in Nat /\ next' <= Len(Rules) /\ Rules' = Rules
    BY <1>4, RulesTyped DEF Translate, TypeOK, Rules
  <2> QED BY <1>4, <2>2, <2>3 DEF Translate, TypeOK
<1>5. ASSUME Translated PROVE TypeOK'
  BY <1>5 DEF Translated, TypeOK, States
<1>6. ASSUME TakeSource PROVE TypeOK'
  <2>1. domains[next + 1].id \in Ids
    BY <1>6, DomainIds DEF TakeSource, TypeOK
  <2>2. sources' \in Seq(Ids)
    BY <1>6, <2>1 DEF TakeSource, TypeOK
  <2> QED BY <1>6, <2>2, Tables DEF TakeSource, TypeOK
<1>7. ASSUME TakeDestination PROVE TypeOK'
  <2>1. domains[next + 1].id \in Ids
    BY <1>7, DomainIds DEF TakeDestination, TypeOK
  <2>2. [i \in 1..Len(sources) |-> <<sources[i], domains[next + 1].id>>] \in Seq(Ids \X Ids)
    BY <2>1, LenProperties, ElementOfSeq DEF TypeOK
  <2>3. requests' \in Seq(Ids \X Ids)
    BY <1>7, <2>2, ConcatProperties DEF TakeDestination, TypeOK
  <2> QED BY <1>7, <2>3, Tables DEF TakeDestination, TypeOK
<1>8. ASSUME DomainsPassed PROVE TypeOK'
  BY <1>8, Tables DEF DomainsPassed, TypeOK, States
<1>9. CASE UNCHANGED vars
  BY <1>9 DEF vars, TypeOK, Rules
<1> QED BY <1>1, <1>2, <1>3, <1>4, <1>5, <1>6, <1>7, <1>8, <1>9 DEF Next

(* Types: a loop never passes the table it runs over, and what is translated *)
(* are protocols and ports of the tables.                                    *)
THEOREM TypeCorrect == Spec => []TypeOK
BY InitTyped, TypedStep, PTL DEF Spec

-----------------------------------------------------------------------------
(* Until a policy decides, none is found; and the policies that were passed  *)
(* by id or by name are not the one that is named.                           *)
Searching ==
  LET s == select["policy"] IN
  /\ pc = "policy" => found = <<>>
  /\ pc = "policy" /\ (s.id # None \/ s.name # None) => \A i \in 1..next : ~Names(s, policies[i])
  /\ PolicyChosen

(* Nothing has been passed at the start.                                     *)
LEMMA InitSearching == Init => Searching
BY DEF Init, Searching, PolicyChosen, Elements

(* Every step keeps the search in agreement with the selector.               *)
LEMMA SearchingStep ==
  ASSUME TypeOK, Searching, [Next]_vars
  PROVE  Searching'
<1> USE DEF inputs, Goto, Searching, PolicyChosen
<1>0. AfterPolicy # "policy"
  BY DEF AfterPolicy
<1>1. ASSUME NoPolicy PROVE Searching'
  BY <1>0, <1>1 DEF NoPolicy, Elements
<1>2. ASSUME NEW i \in 1..Len(policies), TakePolicy(i) PROVE Searching'
  <2> DEFINE s == select["policy"]
             p == policies[i]
  <2>1. /\ i = next + 1 /\ next \in Nat /\ p \in Elements(policies)
        /\ UNCHANGED <<policies, select>>
    BY <1>2, Tables DEF TakePolicy, TypeOK, Elements
  <2>2. \A q \in Elements(<<p>>) : q = p
    BY DEF Elements
  <2>3. Elements(<<>>) = {}
    BY DEF Elements
  <2>4. found = <<>> /\ pc = "policy"
    BY <1>2 DEF TakePolicy
  <2>5. CASE found' = <<p>> /\ pc' = AfterPolicy /\ Names(s, p)
    BY <1>0, <2>1, <2>2, <2>5
  <2>6. CASE UNCHANGED <<found, pc>> /\ next' = i /\ ~Names(s, p)
    BY <2>1, <2>3, <2>4, <2>6
  <2>7. CASE found' = <<>> /\ pc' = AfterPolicy /\ s.id = None /\ s.name = None
    BY <1>0, <2>1, <2>3, <2>7
  <2>8. \/ found' = <<p>> /\ pc' = AfterPolicy /\ Names(s, p)
        \/ UNCHANGED <<found, pc>> /\ next' = i /\ ~Names(s, p)
        \/ found' = <<>> /\ pc' = AfterPolicy /\ s.id = None /\ s.name = None
    <3>1. CASE s.id # None
      BY <1>2, <3>1 DEF TakePolicy, Names
    <3>2. CASE s.id = None /\ s.name # None
      BY <1>2, <3>2 DEF TakePolicy, Names
    <3>3. CASE s.id = None /\ s.name = None
      BY <1>2, <3>3 DEF TakePolicy, Names, CarriesAll
    <3> QED BY <3>1, <3>2, <3>3
  <2> QED BY <2>5, <2>6, <2>7, <2>8
<1>3. ASSUME PolicyMissing PROVE Searching'
  <2>1. \A p \in Elements(policies) : \E i \in 1..next : p = policies[i]
    BY <1>3, Tables DEF PolicyMissing, Elements
  <2> QED BY <1>3, <2>1 DEF PolicyMissing
<1>4. ASSUME Translate PROVE Searching'
  BY <1>4 DEF Translate
<1>5. ASSUME Translated PROVE Searching'
  BY <1>5 DEF Translated
<1>6. ASSUME TakeSource PROVE Searching'
  BY <1>6 DEF TakeSource
<1>7. ASSUME TakeDestination PROVE Searching'
  BY <1>7 DEF TakeDestination
<1>8. ASSUME DomainsPassed PROVE Searching'
  BY <1>8 DEF DomainsPassed
<1>9. CASE UNCHANGED vars
  BY <1>9 DEF vars
<1> QED BY <1>1, <1>2, <1>3, <1>4, <1>5, <1>6, <1>7, <1>8, <1>9 DEF Next

(* The policy that is used is one the selector names, and a policy that is   *)
(* listed under the selected id or name is found.                            *)
THEOREM ChosenIsNamed == Spec => []PolicyChosen
<1>1. Searching => PolicyChosen
  BY DEF Searching
<1>2. TypeOK /\ Searching /\ [Next]_vars => Searching'
  BY SearchingStep
<1> QED BY <1>1, <1>2, InitSearching, TypeCorrect, PTL DEF Spec

-----------------------------------------------------------------------------
(* What the first n entries allow, and where they narrow what they allowed.  *)
Allowed(n, p, port) ==
  \E i \in 1..n : Rules[i].protocol = p /\ Rules[i].port \in {NoPort, port}
Cut(n, p) ==
  \E i, j \in 1..n : /\ i < j /\ Rules[i].protocol = p /\ Rules[j].protocol = p
                     /\ Rules[i].port = NoPort /\ Rules[j].port # NoPort

(* The map after n entries: it admits what they allow, less what was cut.    *)
Translation(n) ==
  /\ \A p \in DOMAIN acl : \A port :
       port \in acl[p] \/ acl[p] = {} => Allowed(n, p, port)
  /\ \A p, port : p # None /\ Allowed(n, p, port) => Admits(acl, p, port) \/ Cut(n, p)

Translating ==
  /\ pc = "policy" => acl = <<>>
  /\ pc = "rules" => Translation(next)
  /\ flow = "app" => pc \notin {"source", "destination"}
  /\ flow = "app" /\ pc = "done" => Translation(Len(Rules))

(* Nothing is translated at the start.                                       *)
LEMMA InitTranslating == Init => Translating
BY DEF Init, Translating

(* One more entry: a port joins the ports of its protocol, an entry without  *)
(* a port opens every port again.                                            *)
LEMMA EntryTranslated ==
  ASSUME TypeOK, Translate, Translation(next)
  PROVE  Translation(next)'
<1> DEFINE n == next
           e == Rules[next + 1]
<1>1. /\ n \in Nat /\ acl' = AddEntry(acl, e) /\ Rules' = Rules
      /\ \A p \in DOMAIN acl : NoPort \notin acl[p]
  BY DEF Translate, TypeOK, Rules
<1>2. \A p, port : Allowed(n + 1, p, port) <=>
                     Allowed(n, p, port) \/ (e.protocol = p /\ e.port \in {NoPort, port})
  BY <1>1 DEF Allowed
<1>3. \A p : Cut(n, p) => Cut(n + 1, p)
  BY <1>1 DEF Cut
<1>4. ASSUME NEW p, p = e.protocol, e.port # NoPort, Allowed(n, p, NoPort)
      PROVE  Cut(n + 1, p)
  <2>1. PICK i \in 1..n : Rules[i].protocol = p /\ Rules[i].port = NoPort
    BY <1>4 DEF Allowed
  <2>2. i \in 1..(n + 1) /\ n + 1 \in 1..(n + 1) /\ i < n + 1
    BY <1>1
  <2> QED BY <1>4, <2>1, <2>2 DEF Cut
<1>5. ASSUME NEW p \in DOMAIN acl', NEW port, port \in acl'[p] \/ acl'[p] = {}
      PROVE  Allowed(n + 1, p, port)
  <2>1. CASE p # e.protocol \/ e.protocol = None
    BY <1>1, <1>2, <1>5, <2>1 DEF AddEntry, Translation
  <2>2. CASE p = e.protocol /\ p # None /\ e.port = NoPort
    BY <1>2, <2>2
  <2>3. CASE p = e.protocol /\ p # None /\ e.port # NoPort
    BY <1>1, <1>2, <1>5, <2>3 DEF AddEntry, Translation
  <2> QED BY <2>1, <2>2, <2>3
<1>6. ASSUME NEW p, NEW port, p # None, Allowed(n + 1, p, port)
      PROVE  Admits(acl', p, port) \/ Cut(n + 1, p)
  <2>1. CASE p # e.protocol
    BY <1>1, <1>2, <1>3, <1>6, <2>1 DEF AddEntry, Translation, Admits
  <2>2. CASE p = e.protocol /\ e.port = NoPort
    BY <1>1, <1>6, <2>2 DEF AddEntry, Admits
  <2>3. CASE p = e.protocol /\ e.port # NoPort
    <3>1. acl'[p] = (IF p \in DOMAIN acl THEN acl[p] ELSE {}) \cup {e.port} /\ p \in DOMAIN acl'
      BY <1>1, <1>6, <2>3 DEF AddEntry
    <3>2. CASE Allowed(n, p, port) /\ ~Cut(n, p)
      <4>1. Admits(acl, p, port)
        BY <1>6, <3>2 DEF Translation
      <4>2. acl[p] = {} => Allowed(n, p, NoPort)
        BY <4>1 DEF Translation, Admits
      <4> QED BY <1>4, <2>3, <3>1, <4>1, <4>2 DEF Admits
    <3>3. CASE port = e.port
      BY <3>1, <3>3 DEF Admits
    <3> QED BY <1>2, <1>3, <1>6, <2>3, <3>2, <3>3
  <2> QED BY <2>1, <2>2, <2>3
<1>7. next' = n + 1
  BY DEF Translate
<1> QED BY <1>1, <1>5, <1>6, <1>7 DEF Translation, Allowed, Cut, Admits

(* What was translated stays so while the map and the policy stay.           *)
LEMMA TranslationKept ==
  ASSUME NEW n, UNCHANGED <<acl, found>>, Translation(n)
  PROVE  Translation(n)'
<1>1. acl' = acl /\ Rules' = Rules
  BY DEF Rules
<1>2. \A p, port : Allowed(n, p, port)' <=> Allowed(n, p, port)
  BY <1>1 DEF Allowed
<1>3. \A p : Cut(n, p)' <=> Cut(n, p)
  BY <1>1 DEF Cut
<1>4. \A p, port : Admits(acl, p, port)' <=> Admits(acl, p, port)
  BY <1>1 DEF Admits
<1>5. ASSUME NEW p \in DOMAIN acl, NEW port, port \in acl[p] \/ acl[p] = {}
      PROVE  Allowed(n, p, port)
  BY <1>5 DEF Translation
<1>6. ASSUME NEW p, NEW port, p # None, Allowed(n, p, port)
      PROVE  Admits(acl, p, port) \/ Cut(n, p)
  BY <1>6 DEF Translation
<1> QED BY <1>1, <1>2, <1>3, <1>4, <1>5, <1>6 DEF Translation

(* Every step keeps the map in agreement with the entries that were passed.  *)
LEMMA TranslatingStep ==
  ASSUME TypeOK, Translating, [Next]_vars
  PROVE  Translating'
<1> USE DEF inputs, Goto
<1>1. ASSUME NoPolicy PROVE Translating'
  <2>1. acl' = <<>> /\ pc' # "policy" /\ UNCHANGED flow
        /\ (pc' = "rules" => next' = 0) /\ (flow = "app" => pc' \in {"rules", "failed"})
    BY <1>1 DEF NoPolicy, Translating, AfterPolicy
  <2>2. pc' = "rules" => Translation(next)'
    BY <2>1 DEF Translation, Allowed
  <2> QED BY <2>1, <2>2 DEF Translating
<1>2. ASSUME NEW i \in 1..Len(policies), TakePolicy(i) PROVE Translating'
  <2>1. acl' = <<>> /\ UNCHANGED flow
        /\ (pc' = "rules" => next' = 0) /\ (flow = "app" => pc' \in {"rules", "policy"})
    BY <1>2 DEF TakePolicy, Translating, AfterPolicy
  <2>2. pc' = "rules" => Translation(next)'
    BY <2>1 DEF Translation, Allowed
  <2> QED BY <2>1, <2>2 DEF Translating
<1>3. ASSUME PolicyMissing PROVE Translating'
  BY <1>3 DEF PolicyMissing, Translating
<1>4. ASSUME Translate PROVE Translating'
  <2>1. Translation(next)'
    BY <1>4, EntryTranslated DEF Translate, Translating
  <2> QED BY <1>4, <2>1 DEF Translate, Translating
<1>5. ASSUME Translated PROVE Translating'
  <2>1. Translation(Len(Rules)) /\ UNCHANGED <<acl, found>> /\ pc' = "done"
    BY <1>5 DEF Translated, Translating
  <2>2. Translation(Len(Rules))'
    <3>1. PICK n : n = Len(Rules)
      OBVIOUS
    <3>2. Translation(n)
      BY <2>1, <3>1
    <3>3. n = Len(Rules') /\ Translation(n)'
      BY <2>1, <3>1, <3>2, TranslationKept DEF Rules
    <3> QED BY <3>3 DEF Translation, Allowed, Cut, Rules
  <2> QED BY <2>1, <2>2 DEF Translating
<1>6. ASSUME TakeSource PROVE Translating'
  BY <1>6 DEF TakeSource, Translating
<1>7. ASSUME TakeDestination PROVE Translating'
  BY <1>7 DEF TakeDestination, Translating
<1>8. ASSUME DomainsPassed PROVE Translating'
  BY <1>8 DEF DomainsPassed, Translating
<1>9. CASE UNCHANGED vars
  <2>1. UNCHANGED <<flow, acl, found, pc, next>>
    BY <1>9 DEF vars
  <2>2. Translation(next) => Translation(next)'
    <3> SUFFICES ASSUME Translation(next) PROVE Translation(next)'
      OBVIOUS
    <3>1. PICK n : n = next
      OBVIOUS
    <3>2. n = next' /\ Translation(n)'
      BY <2>1, <3>1, TranslationKept
    <3> QED BY <3>2 DEF Translation, Allowed, Cut
  <2>3. Translation(Len(Rules)) => Translation(Len(Rules))'
    <3> SUFFICES ASSUME Translation(Len(Rules)) PROVE Translation(Len(Rules))'
      OBVIOUS
    <3>1. PICK n : n = Len(Rules)
      OBVIOUS
    <3>2. Translation(n)
      BY <3>1
    <3>3. n = Len(Rules') /\ Translation(n)'
      BY <2>1, <3>1, <3>2, TranslationKept DEF Rules
    <3> QED BY <3>3 DEF Translation, Allowed, Cut, Rules
  <2> QED BY <2>1, <2>2, <2>3 DEF Translating
<1> QED BY <1>1, <1>2, <1>3, <1>4, <1>5, <1>6, <1>7, <1>8, <1>9 DEF Next

(* The translated map lets through what the policy's entries allow, and all  *)
(* of it except where a port that comes later narrows a protocol.            *)
THEOREM TranslatedIsAllowed == Spec => []TranslationExact
<1>1. TypeOK /\ Translating => TranslationExact
  <2> SUFFICES ASSUME TypeOK, Translating, flow = "app", pc = "done",
                      NEW p \in Protocols \ {None}, NEW port
               PROVE  /\ Admits(acl, p, port) => Allows(Rules, p, port)
                      /\ Allows(Rules, p, port) => Admits(acl, p, port) \/ Narrowed(Rules, p)
    BY DEF TranslationExact
  <2>1. Translation(Len(Rules)) /\ DOMAIN Rules = 1..Len(Rules)
    BY RulesTyped DEF Translating
  <2>2. Allows(Rules, p, port) <=> Allowed(Len(Rules), p, port)
    BY <2>1 DEF Allows, Allowed
  <2>3. Cut(Len(Rules), p) => Narrowed(Rules, p)
    BY <2>1 DEF Cut, Narrowed
  <2> QED BY <2>1, <2>2, <2>3 DEF Translation, Admits
<1>2. TypeOK /\ Translating /\ [Next]_vars => Translating'
  BY TranslatingStep
<1> QED BY <1>1, <1>2, InitTranslating, TypeCorrect, PTL DEF Spec

-----------------------------------------------------------------------------
(* The counter of checkLabelsMatch reaches 0 exactly when every selected     *)
(* label is carried, as long as no two carried keys differ only in case: a   *)
(* selected label then equals at most one carried label.                     *)
LEMMA CounterCountsLabels ==
  ASSUME NEW match, NEW all, IsFiniteSet(match), IsFiniteSet(all), Plain(all)
  PROVE  LabelsMatch(match, all) <=>
           match # {} /\ \A l \in match : \E m \in all : Same(l, m)
<1> DEFINE pairs == {m \in match \X all : Same(m[1], m[2])}
           carried == {l \in match : \E m \in all : Same(l, m)}
           first == [m \in pairs |-> m[1]]
<1>1. \A m, n \in pairs : m[1] = n[1] => m = n
  <2> SUFFICES ASSUME NEW m \in pairs, NEW n \in pairs, m[1] = n[1] PROVE m = n
    OBVIOUS
  <2>1. /\ m[2] \in all /\ n[2] \in all /\ m = <<m[1], m[2]>> /\ n = <<n[1], n[2]>>
        /\ Fold[m[2][1]] = Fold[n[2][1]]
    BY DEF Same
  <2> QED BY <2>1 DEF Plain
<1>2. first \in [pairs -> carried]
  OBVIOUS
<1>3. \A l \in carried : \E m \in pairs : first[m] = l
  <2> SUFFICES ASSUME NEW l \in carried PROVE \E m \in pairs : first[m] = l
    OBVIOUS
  <2>1. PICK n \in all : Same(l, n)
    OBVIOUS
  <2>2. <<l, n>> \in pairs /\ first[<<l, n>>] = l
    BY <2>1
  <2> QED BY <2>2
<1>4. first \in Bijection(pairs, carried)
  BY <1>1, <1>2, <1>3 DEF Bijection, Injection, Surjection, IsInjective
<1>5. IsFiniteSet(carried) /\ Cardinality(carried) <= Cardinality(match)
      /\ (Cardinality(carried) = Cardinality(match) => carried = match)
  BY FS_Subset
<1>6. IsFiniteSet(match \X all)
  BY FS_Product
<1>7. IsFiniteSet(pairs)
  BY <1>6, FS_Subset
<1>8. ExistsBijection(pairs, carried)
  BY <1>4 DEF ExistsBijection
<1>9. Cardinality(pairs) = Cardinality(carried)
  BY <1>5, <1>7, <1>8, FS_Bijection
<1> QED BY <1>5, <1>9 DEF LabelsMatch

(* A list names nothing twice.                                               *)
Once(s) == \A i, j \in DOMAIN s : s[i] = s[j] => i = j

(* The ids of the domains among the first n that a side's selector matches.  *)
Matched(side, n) ==
  {domains[k].id : k \in {j \in 1..n : DomainMatches(select[side], domains[j])}}

(* Joining two lists that share nothing.                                     *)
LEMMA Joined ==
  ASSUME NEW S, NEW s \in Seq(S), NEW t \in Seq(S)
  PROVE  /\ Elements(s \o t) = Elements(s) \cup Elements(t)
         /\ Once(s) /\ Once(t) /\ Elements(s) \cap Elements(t) = {} => Once(s \o t)
<1> DEFINE u == s \o t
<1>1. /\ u \in Seq(S) /\ Len(s) \in Nat /\ Len(t) \in Nat
      /\ DOMAIN s = 1..Len(s) /\ DOMAIN t = 1..Len(t) /\ DOMAIN u = 1..(Len(s) + Len(t))
      /\ \A i \in 1..(Len(s) + Len(t)) : u[i] = IF i <= Len(s) THEN s[i] ELSE t[i - Len(s)]
  BY ConcatProperties, LenProperties
<1> HIDE DEF u
<1>2. \A i \in 1..Len(s) : i \in DOMAIN u /\ u[i] = s[i]
  BY <1>1
<1>3. \A i \in 1..Len(t) : Len(s) + i \in DOMAIN u /\ u[Len(s) + i] = t[i]
  <2> TAKE i \in 1..Len(t)
  <2>1. Len(s) + i \in 1..(Len(s) + Len(t)) /\ ~(Len(s) + i <= Len(s)) /\ (Len(s) + i) - Len(s) = i
    BY <1>1
  <2>2. u[Len(s) + i] = t[(Len(s) + i) - Len(s)]
    BY <1>1, <2>1
  <2> QED BY <1>1, <2>1, <2>2
<1>4. \A i \in DOMAIN u : \/ i \in DOMAIN s /\ u[i] = s[i]
                          \/ i > Len(s) /\ i - Len(s) \in DOMAIN t /\ u[i] = t[i - Len(s)]
  BY <1>1
<1>5. Elements(s) \cup Elements(t) \subseteq Elements(u)
  <2>1. \A x \in Elements(s) : \E i \in 1..Len(s) : x = s[i]
    BY <1>1 DEF Elements
  <2>2. \A x \in Elements(t) : \E i \in 1..Len(t) : x = t[i]
    BY <1>1 DEF Elements
  <2> QED BY <1>2, <1>3, <2>1, <2>2 DEF Elements
<1>6. Elements(u) \subseteq Elements(s) \cup Elements(t)
  BY <1>4 DEF Elements
<1>7. ASSUME Once(s), Once(t), Elements(s) \cap Elements(t) = {},
             NEW i \in DOMAIN u, NEW j \in DOMAIN u, u[i] = u[j]
      PROVE  i = j
  <2>1. CASE i \in DOMAIN s /\ u[i] = s[i] /\ j \in DOMAIN s /\ u[j] = s[j]
    BY <1>7, <2>1 DEF Once
  <2>2. CASE /\ i > Len(s) /\ i - Len(s) \in DOMAIN t /\ u[i] = t[i - Len(s)]
             /\ j > Len(s) /\ j - Len(s) \in DOMAIN t /\ u[j] = t[j - Len(s)]
    <3>1. i - Len(s) = j - Len(s)
      BY <1>7, <2>2 DEF Once
    <3> QED BY <1>1, <3>1
  <2>3. CASE i \in DOMAIN s /\ u[i] = s[i] /\ j - Len(s) \in DOMAIN t /\ u[j] = t[j - Len(s)]
    BY <1>7, <2>3 DEF Elements
  <2>4. CASE i - Len(s) \in DOMAIN t /\ u[i] = t[i - Len(s)] /\ j \in DOMAIN s /\ u[j] = s[j]
    BY <1>7, <2>4 DEF Elements
  <2> QED BY <1>4, <2>1, <2>2, <2>3, <2>4
<1>8. Once(s) /\ Once(t) /\ Elements(s) \cap Elements(t) = {} => Once(u)
  BY <1>7 DEF Once
<1> QED BY <1>5, <1>6, <1>8 DEF u

(* Adding one element that is not in the list yet.                           *)
LEMMA Added ==
  ASSUME NEW S, NEW s \in Seq(S), NEW e \in S
  PROVE  /\ Elements(Append(s, e)) = Elements(s) \cup {e}
         /\ Once(s) /\ e \notin Elements(s) => Once(Append(s, e))
<1>1. <<e>> \in Seq(S) /\ Elements(<<e>>) = {e} /\ Once(<<e>>)
  BY DEF Elements, Once
<1>2. Append(s, e) = s \o <<e>>
  BY AppendIsConcat
<1>3. e \notin Elements(s) => Elements(s) \cap Elements(<<e>>) = {}
  BY <1>1
<1>4. /\ Elements(s \o <<e>>) = Elements(s) \cup Elements(<<e>>)
      /\ Once(s) /\ Once(<<e>>) /\ Elements(s) \cap Elements(<<e>>) = {} => Once(s \o <<e>>)
  BY <1>1, Joined
<1> QED BY <1>1, <1>2, <1>3, <1>4

(* One more domain of the table joins the matched ones if it matches, and    *)
(* has an id that none before it has.                                        *)
LEMMA OneMore ==
  ASSUME TypeOK, NEW side, NEW n \in Nat, n < Len(domains)
  PROVE  /\ domains[n + 1].id \notin Matched(side, n)
         /\ Matched(side, n + 1) = IF DomainMatches(select[side], domains[n + 1])
                                   THEN Matched(side, n) \cup {domains[n + 1].id}
                                   ELSE Matched(side, n)
<1>1. domains \in DomainTables /\ Len(domains) \in Nat
  BY Tables DEF TypeOK
<1>2. \A i, j \in 1..Len(domains) : domains[i].id = domains[j].id => i = j
  BY <1>1, SelectorsAssumption
<1>3. n + 1 \in 1..Len(domains) /\ 1..n \subseteq 1..Len(domains) /\ n + 1 \notin 1..n
      /\ 1..(n + 1) = (1..n) \cup {n + 1}
  BY <1>1
<1>4. domains[n + 1].id \notin Matched(side, n)
  BY <1>2, <1>3 DEF Matched
<1> HIDE <1>2
<1>5. Matched(side, n + 1) = IF DomainMatches(select[side], domains[n + 1])
                             THEN Matched(side, n) \cup {domains[n + 1].id}
                             ELSE Matched(side, n)
  BY <1>3 DEF Matched
<1> QED BY <1>4, <1>5

-----------------------------------------------------------------------------
(* What the domain loops have built: the sources that match, once each, and  *)
(* then every one of them with every destination that matches, once each.    *)
Built(n) ==
  /\ Elements(sources) = Matched("source", Len(domains)) /\ Once(sources)
  /\ Elements(requests) = Matched("source", Len(domains)) \X Matched("destination", n)
  /\ Once(requests)

Pairing ==
  /\ pc \in {"policy", "rules", "source"} => requests = <<>>
  /\ pc \in {"policy", "rules"} => sources = <<>>
  /\ pc = "source" =>
       Elements(sources) = Matched("source", next) /\ Once(sources)
  /\ pc = "destination" => Built(next)
  /\ flow # "app" => pc # "rules"
  /\ pc = "done" /\ flow # "app" => Built(Len(domains))

(* Nothing is built at the start.                                            *)
LEMMA InitPairing == Init => Pairing
BY DEF Init, Pairing

(* What has been matched or built stays so while the lists stay.             *)
LEMMA PairingKept ==
  ASSUME Pairing, UNCHANGED <<flow, domains, select, sources, requests, pc, next>>
  PROVE  Pairing'
<1>2. Matched("source", next)' = Matched("source", next)
  BY DEF Matched
<1>3. Matched("source", Len(domains))' = Matched("source", Len(domains))
  BY DEF Matched
<1>4. Matched("destination", next)' = Matched("destination", next)
  BY DEF Matched
<1>5. Matched("destination", Len(domains))' = Matched("destination", Len(domains))
  BY DEF Matched
<1> QED BY <1>2, <1>3, <1>4, <1>5 DEF Pairing, Built

(* The first domain loop starts with nothing matched.                        *)
LEMMA PairingStarts ==
  ASSUME sources' = <<>>, requests' = <<>>, next' = 0, pc' \in {"rules", "source", "failed"},
         flow' # "app" => pc' # "rules"
  PROVE  Pairing'
<1>1. Matched("source", next)' = {} /\ Elements(sources)' = {} /\ Once(sources)'
  BY DEF Matched, Elements, Once
<1> QED BY <1>1 DEF Pairing

(* Every step keeps the lists in agreement with the domains that were passed. *)
LEMMA PairingStep ==
  ASSUME TypeOK, Pairing, [Next]_vars
  PROVE  Pairing'
<1> USE DEF inputs, Goto
<1>1. ASSUME NoPolicy PROVE Pairing'
  <2>1. pc = "policy" /\ sources = <<>> /\ requests = <<>>
    BY <1>1 DEF NoPolicy, Pairing
  <2> QED BY <1>1, <2>1, PairingStarts DEF NoPolicy, AfterPolicy
<1>2. ASSUME NEW i \in 1..Len(policies), TakePolicy(i) PROVE Pairing'
  <2>1. pc = "policy" /\ sources = <<>> /\ requests = <<>>
    BY <1>2 DEF TakePolicy, Pairing
  <2>2. CASE pc' = AfterPolicy /\ next' = 0
    BY <1>2, <2>1, <2>2, PairingStarts DEF TakePolicy, AfterPolicy
  <2>3. CASE UNCHANGED pc
    BY <1>2, <2>1, <2>3 DEF TakePolicy, Pairing
  <2> QED BY <1>2, <2>2, <2>3 DEF TakePolicy
<1>3. ASSUME PolicyMissing PROVE Pairing'
  BY <1>3 DEF PolicyMissing, Pairing
<1>4. ASSUME Translate PROVE Pairing'
  BY <1>4 DEF Translate, Pairing
<1>5. ASSUME Translated PROVE Pairing'
  BY <1>5 DEF Translated, Pairing
<1>6. ASSUME TakeSource PROVE Pairing'
  <2> DEFINE d == domains[next + 1]
  <2>1. /\ next \in Nat /\ next < Len(domains) /\ next' = next + 1 /\ d.id \in Ids
        /\ pc = "source" /\ sources \in Seq(Ids)
        /\ UNCHANGED <<flow, domains, select, requests, pc>>
    BY <1>6, DomainIds DEF TakeSource, TypeOK
  <2>2. Matched("source", next)' = Matched("source", next + 1)
    BY <2>1 DEF Matched
  <2>3. Elements(sources) = Matched("source", next) /\ Once(sources) /\ requests = <<>>
    BY <2>1 DEF Pairing
  <2>4. /\ d.id \notin Matched("source", next)
        /\ Matched("source", next + 1) = IF DomainMatches(select["source"], d)
                                         THEN Matched("source", next) \cup {d.id}
                                         ELSE Matched("source", next)
    BY <2>1, OneMore
  <2>5. Elements(sources') = Matched("source", next + 1) /\ Once(sources')
    <3>1. CASE DomainMatches(select["source"], d)
      <4>1. sources' = Append(sources, d.id)
        BY <1>6, <3>1 DEF TakeSource
      <4>2. Elements(Append(sources, d.id)) = Elements(sources) \cup {d.id}
            /\ Once(Append(sources, d.id))
        BY <2>1, <2>3, <2>4, Added
      <4> QED BY <2>3, <2>4, <3>1, <4>1, <4>2
    <3>2. CASE ~DomainMatches(select["source"], d)
      <4>1. sources' = sources
        BY <1>6, <3>2 DEF TakeSource
      <4> QED BY <2>3, <2>4, <3>2, <4>1
    <3> QED BY <3>1, <3>2
  <2> QED BY <2>1, <2>2, <2>3, <2>5 DEF Pairing
<1>7. ASSUME TakeDestination PROVE Pairing'
  <2> DEFINE d == domains[next + 1]
             new == [i \in 1..Len(sources) |-> <<sources[i], d.id>>]
             S == Matched("source", Len(domains))
  <2>1. /\ next \in Nat /\ next < Len(domains) /\ next' = next + 1 /\ d.id \in Ids
        /\ pc = "destination" /\ sources \in Seq(Ids) /\ requests \in Seq(Ids \X Ids)
        /\ UNCHANGED <<flow, domains, select, sources, pc>>
    BY <1>7, DomainIds DEF TakeDestination, TypeOK
  <2>2. Matched("destination", next)' = Matched("destination", next + 1)
    BY <2>1 DEF Matched
  <2>3. Matched("source", Len(domains))' = S
    BY <2>1 DEF Matched
  <2>4. /\ Elements(sources) = S /\ Once(sources)
        /\ Elements(requests) = S \X Matched("destination", next) /\ Once(requests)
    BY <2>1 DEF Pairing, Built
  <2>5. /\ d.id \notin Matched("destination", next)
        /\ Matched("destination", next + 1) = IF DomainMatches(select["destination"], d)
                                              THEN Matched("destination", next) \cup {d.id}
                                              ELSE Matched("destination", next)
    BY <2>1, OneMore
  <2>6. new \in Seq(Ids \X Ids) /\ DOMAIN new = DOMAIN sources
        /\ \A i \in DOMAIN sources : new[i] = <<sources[i], d.id>>
    BY <2>1, LenProperties, ElementOfSeq
  <2> HIDE DEF S, new
  <2>7. Elements(new) = S \X {d.id} /\ Once(new)
    <3>1. Once(new)
      BY <2>4, <2>6 DEF Once
    <3>2. Elements(new) = Elements(sources) \X {d.id}
      BY <2>6 DEF Elements
    <3> QED BY <2>4, <3>1, <3>2
  <2>8. /\ Elements(requests') = S \X Matched("destination", next + 1)
        /\ Once(requests')
    <3>1. CASE DomainMatches(select["destination"], d)
      <4>1. requests' = requests \o new
        BY <1>7, <3>1 DEF TakeDestination, new
      <4>2. Elements(requests) \cap Elements(new) = {}
        BY <2>4, <2>5, <2>7
      <4>3. Elements(requests \o new) = Elements(requests) \cup Elements(new)
            /\ Once(requests \o new)
        BY <2>1, <2>4, <2>6, <2>7, <4>2, Joined
      <4>4. Elements(requests) \cup Elements(new) = S \X (Matched("destination", next) \cup {d.id})
        BY <2>4, <2>7
      <4> QED BY <2>5, <3>1, <4>1, <4>3, <4>4
    <3>2. CASE ~DomainMatches(select["destination"], d)
      <4>1. requests' = requests
        BY <1>7, <3>2 DEF TakeDestination
      <4> QED BY <2>4, <2>5, <3>2, <4>1
    <3> QED BY <3>1, <3>2
  <2> QED BY <2>1, <2>2, <2>3, <2>4, <2>8 DEF Pairing, Built
<1>8. ASSUME DomainsPassed PROVE Pairing'
  <2>1. UNCHANGED <<flow, domains, select, sources, requests>> /\ next' = 0 /\ next = Len(domains)
    BY <1>8 DEF DomainsPassed
  <2>2. /\ Matched("source", Len(domains))' = Matched("source", Len(domains))
        /\ Matched("destination", Len(domains))' = Matched("destination", Len(domains))
        /\ Matched("destination", next)' = {}
    BY <2>1 DEF Matched
  <2>3. CASE pc = "source"
    <3>1. requests = <<>> /\ Elements(requests) = {} /\ Once(requests)
      BY <2>3 DEF Pairing, Elements, Once
    <3>2. Elements(sources) = Matched("source", Len(domains)) /\ Once(sources)
      BY <2>1, <2>3 DEF Pairing
    <3>3. pc' \in {"failed", "destination"}
      BY <1>8, <2>3 DEF DomainsPassed
    <3> QED BY <2>1, <2>2, <3>1, <3>2, <3>3 DEF Pairing, Built
  <2>4. CASE pc = "destination"
    <3>1. Built(Len(domains))
      BY <2>1, <2>4 DEF Pairing
    <3>2. pc' \in {"failed", "done"}
      BY <1>8, <2>4 DEF DomainsPassed
    <3> QED BY <2>1, <2>2, <3>1, <3>2 DEF Pairing, Built
  <2> QED BY <1>8, <2>3, <2>4 DEF DomainsPassed
<1>9. CASE UNCHANGED vars
  BY <1>9, PairingKept DEF vars
<1> QED BY <1>1, <1>2, <1>3, <1>4, <1>5, <1>6, <1>7, <1>8, <1>9 DEF Next

(* A finished request connects every domain the source selector names with   *)
(* every domain the destination selector names, each pair once.              *)
THEOREM ConnectedAreWanted == Spec => []PairsExact
<1>1. TypeOK /\ Pairing => PairsExact
  <2> SUFFICES ASSUME TypeOK, Pairing, pc = "done", flow = "domains",
                      \A i \in 1..Len(domains) : Plain(domains[i].labels)
               PROVE  /\ Elements(requests) = Wanteds("source") \X Wanteds("destination")
                      /\ \A i, j \in DOMAIN requests : requests[i] = requests[j] => i = j
    BY DEF PairsExact
  <2>1. \A side \in Sides, i \in 1..Len(domains) :
          DomainMatches(select[side], domains[i]) <=> Wanted(select[side], domains[i])
    <3> TAKE side \in Sides, i \in 1..Len(domains)
    <3>1. select[side] \in Selects /\ domains \in DomainTables
      BY DEF TypeOK
    <3>2. IsFiniteSet(select[side].labels) /\ IsFiniteSet(domains[i].labels)
      BY <3>1, SelectorsAssumption DEF IsMap
    <3> QED BY <3>2, CounterCountsLabels DEF DomainMatches, Wanted
  <2>2. \A side \in Sides : Matched(side, Len(domains)) = Wanteds(side)
    BY <2>1 DEF Matched, Wanteds
  <2>3. Built(Len(domains))
    BY DEF Pairing
  <2> QED BY <2>2, <2>3 DEF Built, Once, Sides
<1>2. TypeOK /\ Pairing /\ [Next]_vars => Pairing'
  BY PairingStep
<1> QED BY <1>1, <1>2, InitPairing, TypeCorrect, PTL DEF Spec
=============================================================================
