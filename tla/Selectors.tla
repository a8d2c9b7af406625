----------------------------- MODULE Selectors -----------------------------
(* How a request's selectors are resolved (awi_connection_controller.go,      *)
(* translator.go): a network domain connection finds its access policy and    *)
(* then every source and every destination domain its selectors match; an     *)
(* app connection finds its policy and has the policy's protocol entries      *)
(* translated into the map a provider enforces.  Each loop is one action per  *)
(* element, in the order of the listed table; the tables come from the        *)
(* database and are read once.                                                *)
EXTENDS Naturals, Sequences, FiniteSets

CONSTANTS
  None,          \* an empty string or an absent selector
  Fold,          \* the labels' keys and values to what strings.EqualFold compares
  NoPort,           \* the port of an entry that has none: every port
  PolicyTables,  \* the access policies the database may list: sequences of records
  DomainTables,  \* the network domains it may list: sequences of records
  Selects,       \* the selectors of a request: [id, name, labels], labels a set of <<key, value>>
  Flows          \* the requests, subset of {"domains", "app"}

VARIABLES
  flow,       \* what is being resolved
  policies, domains,          \* the listed tables
  select,     \* the selectors of the access policy, the source and the destination
  pc,         \* "policy", "rules", "source", "destination", "done", "failed"
  next,       \* how many elements the current loop has passed
  found,      \* matchedPolicies
  acl,        \* the translated protocols: a partial function to sets of ports
  sources, requests           \* withSource; connectionRequests, as pairs of domains

vars == <<flow, policies, domains, select, pc, next, found, acl, sources, requests>>
inputs == <<flow, policies, domains, select>>

Sides == {"policy", "source", "destination"}
States == {"policy", "rules", "source", "destination", "done", "failed"}

(* A labels map holds each key once; a folded map may not.                    *)
IsMap(labels) == IsFiniteSet(labels) /\ \A a, b \in labels : a[1] = b[1] => a = b
IsList(s) == s \in Seq({s[i] : i \in DOMAIN s})

(* A domain is stored under its id, so a table lists an id once.              *)
ASSUME SelectorsAssumption ==
  /\ \A t \in PolicyTables \cup DomainTables :
       IsList(t) /\ \A i \in 1..Len(t) : IsMap(t[i].labels)
  /\ \A t \in PolicyTables : \A i \in 1..Len(t) : IsList(t[i].rules)
  /\ \A t \in DomainTables : \A i, j \in 1..Len(t) : t[i].id = t[j].id => i = j
  /\ \A s \in Selects : IsMap(s.labels)

Same(a, b) == Fold[a[1]] = Fold[b[1]] /\ Fold[a[2]] = Fold[b[2]]

-----------------------------------------------------------------------------
MutantLabelsMatch(match, all) ==   \* without the early return for no labels
  Cardinality({m \in match \X all : Same(m[1], m[2])}) = Cardinality(match)

(* checkLabelsMatch: a counter starts at the number of selected labels and    *)
(* goes down once for every pair of a selected and a carried label that are   *)
(* equal ignoring case; 0 is a match.                                         *)
LabelsMatch(match, all) ==
  match # {} /\ Cardinality({m \in match \X all : Same(m[1], m[2])}) = Cardinality(match)

DomainMatches(s, d) ==
  \/ s.id # None /\ d.id = s.id
  \/ s.name # None /\ d.name = s.name
  \/ LabelsMatch(s.labels, d.labels)

(* The label loop of findAccessPolicies compares with case; a selected empty  *)
(* value also accepts a policy without the key.                               *)
Labelled(l, p) == l \in p.labels \/ (l[2] = None /\ \A m \in p.labels : m[1] # l[1])
MutantCarriesAny(s, p) == \E l \in s.labels : Labelled(l, p)
CarriesAll(s, p) == \A l \in s.labels : Labelled(l, p)

MutantAddEntry(f, e) ==   \* an entry without a port leaves the ports that are there
  IF e.protocol = None THEN f
  ELSE [p \in DOMAIN f \cup {e.protocol} |->
          IF p # e.protocol THEN f[p]
          ELSE (IF p \in DOMAIN f THEN f[p] ELSE {}) \cup ({e.port} \ {NoPort})]

MutantAddAny(f, e) ==     \* the empty port appended like any other
  IF e.protocol = None THEN f
  ELSE [p \in DOMAIN f \cup {e.protocol} |->
          IF p # e.protocol THEN f[p]
          ELSE (IF p \in DOMAIN f THEN f[p] ELSE {}) \cup {e.port}]

(* One entry of AwiGrpcProtocolsAndPortsTo...: no protocol, skipped; no port, *)
(* the protocol's ports start over as the empty list, which is "all ports"; a *)
(* port is appended to whatever list is there.                                *)
AddEntry(f, e) ==
  IF e.protocol = None THEN f
  ELSE [p \in DOMAIN f \cup {e.protocol} |->
          IF p # e.protocol THEN f[p]
          ELSE IF e.port = NoPort THEN {}
          ELSE (IF p \in DOMAIN f THEN f[p] ELSE {}) \cup {e.port}]

Rules == IF found = <<>> THEN <<>> ELSE found[1].rules

-----------------------------------------------------------------------------
Init ==
  /\ flow \in Flows
  /\ policies \in PolicyTables /\ domains \in DomainTables
  /\ select \in [Sides -> Selects]
  /\ pc = "policy" /\ next = 0
  /\ found = <<>> /\ acl = <<>> /\ sources = <<>> /\ requests = <<>>

AfterPolicy == IF flow = "app" THEN "rules" ELSE "source"

Goto(state) == pc' = state /\ next' = 0

(* A request without an access policy: no policy, no error.                   *)
NoPolicy ==
  /\ pc = "policy"
  /\ select["policy"].id = None /\ select["policy"].name = None
  /\ select["policy"].labels = {}
  /\ \/ Goto(AfterPolicy)   \* GetAccessPolicy() == nil
     \/ Goto("failed")      \* an access policy whose selector is empty
  /\ UNCHANGED <<inputs, found, acl, sources, requests>>

(* By id, a read by key; by name, the first one listed; by labels, the first  *)
(* one listed decides, because the return is inside the loop.                 *)
TakePolicy(i) ==
  LET s == select["policy"] p == policies[i] IN
  /\ pc = "policy" /\ i = next + 1 /\ i <= Len(policies)
  /\ \/ /\ s.id # None
        /\ IF p.id = s.id THEN found' = <<p>> /\ Goto(AfterPolicy)
           ELSE UNCHANGED <<found, pc>> /\ next' = i
     \/ /\ s.id = None /\ s.name # None
        /\ IF p.name = s.name THEN found' = <<p>> /\ Goto(AfterPolicy)
           ELSE UNCHANGED <<found, pc>> /\ next' = i
     \/ /\ s.id = None /\ s.name = None /\ s.labels # {}
        /\ found' = IF CarriesAll(s, p) THEN <<p>> ELSE <<>>
        /\ Goto(AfterPolicy)
  /\ UNCHANGED <<inputs, acl, sources, requests>>

PolicyMissing ==
  /\ pc = "policy" /\ next = Len(policies)
  /\ \/ select["policy"].id # None \/ select["policy"].name # None
     \/ select["policy"].labels # {}
  /\ Goto("failed")
  /\ UNCHANGED <<inputs, found, acl, sources, requests>>

Translate ==
  /\ pc = "rules" /\ next < Len(Rules)
  /\ acl' = AddEntry(acl, Rules[next + 1])
  /\ next' = next + 1
  /\ UNCHANGED <<inputs, pc, found, sources, requests>>

Translated ==
  /\ pc = "rules" /\ next = Len(Rules)
  /\ Goto("done")
  /\ UNCHANGED <<inputs, found, acl, sources, requests>>

TakeSource ==
  /\ pc = "source" /\ next < Len(domains)
  /\ next' = next + 1
  /\ sources' = IF DomainMatches(select["source"], domains[next + 1])
                THEN Append(sources, domains[next + 1].id) ELSE sources
  /\ UNCHANGED <<inputs, pc, found, acl, requests>>

(* One request per source already found, in their order.                      *)
TakeDestination ==
  /\ pc = "destination" /\ next < Len(domains)
  /\ next' = next + 1
  /\ requests' = IF DomainMatches(select["destination"], domains[next + 1])
                 THEN requests \o [i \in 1..Len(sources) |-> <<sources[i], domains[next + 1].id>>]
                 ELSE requests
  /\ UNCHANGED <<inputs, pc, found, acl, sources>>

DomainsPassed ==
  /\ next = Len(domains)
  /\ \/ pc = "source" /\ Goto(IF sources = <<>> THEN "failed" ELSE "destination")
     \/ pc = "destination" /\ Goto(IF requests = <<>> THEN "failed" ELSE "done")
  /\ UNCHANGED <<inputs, found, acl, sources, requests>>

Next ==
  \/ NoPolicy \/ PolicyMissing
  \/ \E i \in 1..Len(policies) : TakePolicy(i)
  \/ Translate \/ Translated
  \/ TakeSource \/ TakeDestination \/ DomainsPassed

Spec == Init /\ [][Next]_vars

-----------------------------------------------------------------------------
Elements(s) == {s[i] : i \in DOMAIN s}
Ids == UNION {{t[i].id : i \in 1..Len(t)} : t \in DomainTables}
Protocols == UNION {UNION {{t[i].rules[j].protocol : j \in 1..Len(t[i].rules)} : i \in 1..Len(t)} :
                     t \in PolicyTables}
Ports == UNION {UNION {{t[i].rules[j].port : j \in 1..Len(t[i].rules)} : i \in 1..Len(t)} :
                 t \in PolicyTables}

(* Type: next never passes the table it runs over, a translated protocol is a *)
(* protocol of the tables and no port in its list is the empty one.           *)
TypeOK ==
  /\ flow \in Flows /\ policies \in PolicyTables /\ domains \in DomainTables
  /\ select \in [Sides -> Selects] /\ pc \in States /\ next \in Nat
  /\ pc \in {"source", "destination"} => next <= Len(domains)
  /\ found \in {<<>>} \cup {<<policies[i]>> : i \in 1..Len(policies)}
  /\ pc = "rules" => next <= Len(Rules)
  /\ DOMAIN acl \subseteq Protocols \ {None}
  /\ \A p \in DOMAIN acl : acl[p] \subseteq Ports \ {NoPort}
  /\ sources \in Seq(Ids) /\ requests \in Seq(Ids \X Ids)

(* A policy is used only if it is one the selector names: by the id, without  *)
(* an id by the name, without both by carrying every selected label; and an   *)
(* id or a name that some listed policy has is never reported as missing.     *)
Names(s, p) ==
  IF s.id # None THEN p.id = s.id
  ELSE IF s.name # None THEN p.name = s.name
  ELSE s.labels # {} /\ \A l \in s.labels : Labelled(l, p)

PolicyChosen ==
  LET s == select["policy"] IN
  /\ \A p \in Elements(found) : p \in Elements(policies) /\ Names(s, p)
  /\ found = <<>> /\ pc # "policy" /\ (s.id # None \/ s.name # None)
        => \A p \in Elements(policies) : ~Names(s, p)

(* What the translated map lets through is what the policy's entries allow;   *)
(* only a protocol listed without a port and again, later, with one is cut    *)
(* down, to the ports that follow: the later port is appended to the empty    *)
(* list that meant "all ports".  The port NoPort stands for one no entry lists.  *)
Admits(f, p, port) == p \in DOMAIN f /\ (f[p] = {} \/ port \in f[p])
Allows(rules, p, port) == \E i \in DOMAIN rules : rules[i].protocol = p /\ rules[i].port \in {NoPort, port}
Narrowed(rules, p) ==
  \E i, j \in DOMAIN rules : /\ i < j /\ rules[i].protocol = p /\ rules[j].protocol = p
                             /\ rules[i].port = NoPort /\ rules[j].port # NoPort

TranslationExact ==
  flow = "app" /\ pc = "done" =>
    \A p \in Protocols \ {None}, port \in Ports \cup {NoPort} :
      /\ Admits(acl, p, port) => Allows(Rules, p, port)
      /\ Allows(Rules, p, port) => Admits(acl, p, port) \/ Narrowed(Rules, p)

(* A finished request connects every source the selectors name with every     *)
(* destination they name and nothing else, each pair once.  By labels a       *)
(* domain is named when it carries each selected label, ignoring case; this   *)
(* is what the counter computes as long as no domain has two keys that differ *)
(* only in case.                                                              *)
Plain(labels) == \A a, b \in labels : Fold[a[1]] = Fold[b[1]] => a = b
Wanted(s, d) ==
  \/ s.id # None /\ d.id = s.id
  \/ s.name # None /\ d.name = s.name
  \/ s.labels # {} /\ \A l \in s.labels : \E m \in d.labels : Same(l, m)
Wanteds(side) == {domains[i].id : i \in {j \in 1..Len(domains) : Wanted(select[side], domains[j])}}

PairsExact ==
  pc = "done" /\ flow = "domains" /\ (\A i \in 1..Len(domains) : Plain(domains[i].labels)) =>
    /\ Elements(requests) = Wanteds("source") \X Wanteds("destination")
    /\ \A i, j \in DOMAIN requests : requests[i] = requests[j] => i = j
=============================================================================
