------------------------------ MODULE MCDataPlane ------------------------------
(* One path, matched by a scenario and, in some files, by a rule.             *)
EXTENDS DataPlane, TLC

CONSTANTS path, rule, scenario

TheScenario(enabled, onExhausted, steps) ==
    <<[name |-> scenario, match |-> {path}, enabled |-> enabled,
       onExhausted |-> onExhausted, steps |-> steps]>>

File(order, scenarios) ==
    [ compiles  |-> TRUE,
      enabled   |-> [n \in {order[i] : i \in DOMAIN order} |-> TRUE],
      order     |-> order,
      routes    |-> [n \in {order[i] : i \in DOMAIN order} |-> {path}],
      scenarios |-> scenarios ]

\* The definition changes, and the scenario is removed and comes back.
Redefining == {File(<<>>, TheScenario(TRUE, "repeat", <<"a", "b">>)),
               File(<<>>, TheScenario(TRUE, "last", <<"a">>)),
               File(<<>>, <<>>)}

\* The scenario is switched off in the file, which is no change of definition.
Switching == {File(<<rule>>, TheScenario(TRUE, "last", <<"a", "b">>)),
              File(<<rule>>, TheScenario(FALSE, "last", <<"a", "b">>)),
              File(<<rule>>, TheScenario(TRUE, "passthrough", <<"a", "b">>))}

RequestSymmetry == Permutations(Requests)

==============================================================================
