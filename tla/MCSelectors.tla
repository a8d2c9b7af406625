----------------------------- MODULE MCSelectors -----------------------------
(* TLC instances of Selectors: texts in two cases, tables of up to two        *)
(* policies and two domains, every selector kind.                             *)
EXTENDS Selectors, TLC

CONSTANTS id1, id2, name1, name2, app, APP, x, y, tcp, udp, p80, p81

MCFold == app :> app @@ APP :> app @@ x :> x @@ y :> y @@ None :> None

Entry(protocol, port) == [protocol |-> protocol, port |-> port]
RuleLists == {<<>>} \cup {<<Entry(tcp, p80), Entry(tcp, NoPort), Entry(udp, p81)>>,
                          <<Entry(None, p80), Entry(tcp, NoPort), Entry(tcp, p80)>>}
             \cup {<<Entry(udp, NoPort), Entry(tcp, p80), Entry(tcp, p81)>>}

Policy(id, name, labels, rules) == [id |-> id, name |-> name, labels |-> labels, rules |-> rules]
MCPolicyTables ==
  {<<>>} \cup
  {<<Policy(id1, name1, {<<app, x>>}, r), Policy(id2, name2, {<<app, x>>, <<APP, y>>}, <<>>)>> :
     r \in RuleLists}

Domain(id, labels) == [id |-> id, name |-> IF id = id1 THEN name1 ELSE name2, labels |-> labels]
MCDomainTables ==
  {<<Domain(id1, a), Domain(id2, b)>> :
     a \in {{}, {<<app, x>>}, {<<app, x>>, <<APP, x>>}}, b \in {{<<APP, x>>}, {<<app, y>>}}}

Select(id, name, labels) == [id |-> id, name |-> name, labels |-> labels]
MCSelects ==
  {Select(None, None, {}), Select(id1, None, {}), Select(id2, name1, {}), Select(None, name2, {}),
   Select(None, None, {<<app, x>>}), Select(None, None, {<<app, x>>, <<APP, y>>}),
   Select(None, name1, {<<APP, x>>}), Select(None, None, {<<y, None>>})}
=============================================================================
