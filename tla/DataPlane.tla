------------------------------ MODULE DataPlane ------------------------------
(***************************************************************************)
(* The data plane's shared state at work: requests that take one snapshot  *)
(* of the runtime and draw their place in a decision sequence              *)
(* (handler.go:80, override.go:25), while the config watcher replaces the  *)
(* snapshot and restarts changed scenarios, and control API calls toggle   *)
(* rules and reset sequences (runtime_control.go, scenario.go).            *)
(*                                                                         *)
(* Composes RuntimeControl (the snapshot pointer and its writers) with     *)
(* DecisionCounters (the counters and nextIndex).  What neither has alone  *)
(* is that a request reads the one before the other, and that Update       *)
(* publishes a snapshot before it restarts the scenarios that changed.     *)
(*                                                                         *)
(* A configuration adds to RuntimeControl's fields the order of its rules, *)
(* the paths each matches, and its scenarios.  Requests that match nothing *)
(* or carry an X-Chaos header touch neither part and are left out.         *)
(***************************************************************************)
EXTENDS Integers, Sequences, SequencesExt

CONSTANTS
    Rules, Configs, Watchers, Clients, None,      \* as in RuntimeControl
    Requests, MaxDraws, MaxRestarts,              \* as in DecisionCounters
    Scenarios,    \* names of scenarios
    Paths,        \* what a request may ask for
    Resetters     \* goroutines serving the two reset endpoints

RuleKeys == {"rule"} \X Rules
ScenarioKeys == {"scenario"} \X Scenarios
Keys == RuleKeys \cup ScenarioKeys

VARIABLES
    current, pc, op, loaded, replaced,            \* as in RuntimeControl
    stored, counters, at, key, held,              \* as in DecisionCounters
    restarts, born, since, draws,
    snapshot,     \* request -> the runtime it captured
    changed,      \* watcher -> the scenarios it has still to restart
    resetting,    \* resetter -> the reset it serves and the keys it has left
    (* History, read by the properties only. *)
    arrival,      \* request -> what was so when it arrived
    played,       \* for every draw, what the request played
    floor,        \* key -> counters made before the last reset of it that is over
    resetFloor    \* resetter -> counters made before its Reset began

Control == INSTANCE RuntimeControl
Counters == INSTANCE DecisionCounters

ASSUME PartsAssumption ==
    /\ Control!ConfigsAssumption /\ Control!CallersAssumption /\ Control!NoneAssumption
    /\ Counters!BoundsAssumption /\ Counters!KeysAssumption

\* What Validate requires of the rules and scenarios of a file (validate.go:45).
ASSUME FilesAssumption ==
    \A c \in Configs :
        /\ \A i \in DOMAIN c.order : c.order[i] \in Rules
        /\ \A s \in Range(c.scenarios) :
              /\ s.name \in Scenarios
              /\ s.onExhausted \in {"repeat", "last", "passthrough"}
              /\ Len(s.steps) \in Nat \ {0}
              /\ [match |-> s.match, onExhausted |-> s.onExhausted, steps |-> s.steps] # None

controlVars == <<current, pc, op, loaded, replaced>>
counterVars == <<stored, counters, at, key, held, restarts, born, since, draws>>
requestVars == <<snapshot, arrival, played>>
resetVars == <<resetting, floor, resetFloor>>
vars == <<controlVars, counterVars, requestVars, changed, resetVars>>

-------------------------------------------------------------------------------
(* Matching and steps.                                                     *)

ScenarioNames(rt) == {s.name : s \in Range(rt.base.scenarios)}

ScenarioOf(rt, name) == CHOOSE s \in Range(rt.base.scenarios) : s.name = name

\* sameDefinition compares everything but the enabled flag.
Definition(rt, name) ==
    IF name \in ScenarioNames(rt)
    THEN LET s == ScenarioOf(rt, name)
         IN  [match |-> s.match, onExhausted |-> s.onExhausted, steps |-> s.steps]
    ELSE None

First(positions) == {i \in positions : \A j \in positions : i <= j}

\* The key of the first enabled scenario that matches, else of the first enabled
\* rule: a set of one key, or of none.
selectFaults(rt, path) ==
    LET scenarios == rt.base.scenarios
        rules == rt.base.order
        scenarioHits == {i \in DOMAIN scenarios :
                            scenarios[i].enabled /\ path \in scenarios[i].match}
        ruleHits == {i \in DOMAIN rules :
                        Control!Effective(rt)[rules[i]] /\ path \in rt.base.routes[rules[i]]}
    IN  IF scenarioHits # {} THEN {<<"scenario", scenarios[i].name>> : i \in First(scenarioHits)}
        ELSE {<<"rule", rules[i]>> : i \in First(ruleHits)}

\* Mutant of step: the bound is one too high.
StepBoundTooHigh(definition, position) ==
    LET count == Len(definition.steps)
    IN  CASE position <= count -> position
          [] position > count /\ definition.onExhausted = "repeat" -> position % count
          [] position > count /\ definition.onExhausted = "last" -> count - 1
          [] OTHER -> None

\* The position in steps (from 0) that the request at this position plays.
step(definition, position) ==
    LET count == Len(definition.steps)
    IN  CASE position < count -> position
          [] position >= count /\ definition.onExhausted = "repeat" -> position % count
          [] position >= count /\ definition.onExhausted = "last" -> count - 1
          [] OTHER -> None

\* Mutant of ChangedScenarios: only dropped scenarios are restarted.
DroppedScenarios(previous, next) == ScenarioNames(previous) \ ScenarioNames(next)

\* The scenarios Update restarts: those the next file drops or redefines.
ChangedScenarios(previous, next) ==
    {n \in ScenarioNames(previous) : Definition(previous, n) # Definition(next, n)}

NoReset == [kind |-> "none", left |-> {}]
Resets == [kind : {"none", "all", "one"}, left : SUBSET ScenarioKeys]

-------------------------------------------------------------------------------
Init ==
    /\ Control!Init
    /\ Counters!Init
    /\ snapshot = [r \in Requests |-> None]
    /\ changed = [t \in Watchers |-> {}]
    /\ resetting = [o \in Resetters |-> NoReset]
    /\ arrival = [r \in Requests |-> None]
    /\ played = <<>>
    /\ floor = [k \in Keys |-> 0]
    /\ resetFloor = [o \in Resetters |-> floor]

(* Requests.                                                               *)

\* ServeHTTP captures the snapshot and matches the request against it.
Arrive(r, path) ==
    /\ Len(draws) < MaxDraws
    /\ \E k \in selectFaults(current, path) :
          /\ Counters!nextIndex(r, k)
          /\ arrival' = [arrival EXCEPT ![r] =
                 [quiet |-> \A t \in Watchers : pc[t] # "published",
                  draws |-> Len(draws),
                  floor |-> floor[k]]]
    /\ snapshot' = [snapshot EXCEPT ![r] = current]
    /\ UNCHANGED <<controlVars, played, changed, resetVars>>

\* Mutant of Lookup: the request reads Handler.current a second time.
LookupRereadsRuntime(r) ==
    /\ Counters!Load(r) \/ Counters!LoadOrStore(r)
    /\ snapshot' = [snapshot EXCEPT ![r] = current]
    /\ UNCHANGED <<controlVars, arrival, played, changed, resetVars>>

Lookup(r) ==
    /\ Counters!Load(r) \/ Counters!LoadOrStore(r)
    /\ UNCHANGED <<controlVars, requestVars, changed, resetVars>>

\* Add, and the step of the captured scenario the index stands for.
Play(r) ==
    /\ Counters!Add(r)
    /\ LET definition == IF key[r] \in ScenarioKeys
                         THEN Definition(snapshot[r], key[r][2]) ELSE None
           index == Last(draws').index
       IN  played' = Append(played,
              [definition |-> definition,
               step       |-> IF definition = None THEN None ELSE step(definition, index),
               timely     |-> key[r] \in ScenarioKeys
                                 /\ Definition(current, key[r][2]) = definition,
               arrival    |-> arrival[r]])
    /\ snapshot' = [snapshot EXCEPT ![r] = None]
    /\ arrival' = [arrival EXCEPT ![r] = None]
    /\ UNCHANGED <<controlVars, changed, resetVars>>

(* Reloads and toggles.                                                    *)

Quota == \A k \in Keys : restarts[k] < MaxRestarts

Call(t) ==
    /\ Quota
    /\ Control!Call(t)
    /\ UNCHANGED <<counterVars, requestVars, changed, resetVars>>

Compile(t) ==
    /\ Control!Update(t) \/ Control!SetRuleEnabled(t)
    /\ UNCHANGED <<counterVars, requestVars, changed, resetVars>>

Publish(t) ==
    /\ Control!CompareAndSwap(t)
    /\ changed' = IF t \in Watchers
                  THEN [changed EXCEPT ![t] = ChangedScenarios(loaded[t], current')]
                  ELSE changed
    /\ UNCHANGED <<counterVars, requestVars, resetVars>>

Retry(t) ==
    /\ Control!CompareAndSwapFails(t)
    /\ UNCHANGED <<counterVars, requestVars, changed, resetVars>>

\* One Delete of restartChangedScenarios; the map is ranged over in any order.
RestartChanged(t) ==
    /\ pc[t] = "published"
    /\ \E n \in changed[t] :
          /\ Counters!Restart({<<"scenario", n>>})
          /\ changed' = [changed EXCEPT ![t] = @ \ {n}]
    /\ UNCHANGED <<controlVars, requestVars, resetVars>>

FinishUpdate(t) ==
    /\ changed[t] = {}
    /\ Control!FinishUpdate(t)
    /\ UNCHANGED <<counterVars, requestVars, changed, resetVars>>

Return(t) ==
    /\ Control!Return(t)
    /\ UNCHANGED <<counterVars, requestVars, changed, resetVars>>

(* Resets.                                                                 *)

\* Reset clears the counters of the rules, then those of the scenarios.
ResetRules(o) ==
    /\ Quota
    /\ resetting[o] = NoReset
    /\ Counters!Restart(RuleKeys)
    /\ resetting' = [resetting EXCEPT ![o] = [kind |-> "all", left |-> ScenarioKeys]]
    /\ resetFloor' = [resetFloor EXCEPT ![o] = [k \in Keys |-> Len(counters[k])]]
    /\ UNCHANGED <<controlVars, requestVars, changed, floor>>

\* Mutant of ResetScenarios: the counters of the scenarios are not cleared.
ResetScenariosForgotten(o) ==
    /\ resetting[o].kind = "all"
    /\ resetting' = [resetting EXCEPT ![o] = NoReset]
    /\ floor' = [k \in Keys |-> Max({floor[k], resetFloor[o][k]})]
    /\ UNCHANGED <<controlVars, counterVars, requestVars, changed, resetFloor>>

ResetScenarios(o) ==
    /\ resetting[o].kind = "all"
    /\ Counters!Restart(ScenarioKeys)
    /\ resetting' = [resetting EXCEPT ![o] = NoReset]
    /\ floor' = [k \in Keys |-> Max({floor[k], resetFloor[o][k]})]
    /\ UNCHANGED <<controlVars, requestVars, changed, resetFloor>>

\* ResetScenario looks the name up in the snapshot, then deletes its counter.
FindScenario(o) ==
    /\ Quota
    /\ resetting[o] = NoReset
    /\ \E n \in ScenarioNames(current) :
          resetting' = [resetting EXCEPT ![o] =
                           [kind |-> "one", left |-> {<<"scenario", n>>}]]
    /\ UNCHANGED <<controlVars, counterVars, requestVars, changed, floor, resetFloor>>

DeleteScenario(o) ==
    /\ resetting[o].kind = "one"
    /\ Counters!Restart(resetting[o].left)
    /\ resetting' = [resetting EXCEPT ![o] = NoReset]
    /\ floor' = [k \in Keys |-> IF k \in resetting[o].left THEN Len(counters[k]) ELSE floor[k]]
    /\ UNCHANGED <<controlVars, requestVars, changed, resetFloor>>

Next ==
    \/ \E r \in Requests :
          \/ \E path \in Paths : Arrive(r, path)
          \/ Lookup(r)
          \/ Play(r)
    \/ \E t \in Watchers \cup Clients :
          \/ Call(t)
          \/ Compile(t)
          \/ Publish(t)
          \/ Retry(t)
          \/ Return(t)
    \/ \E t \in Watchers :
          \/ RestartChanged(t)
          \/ FinishUpdate(t)
    \/ \E o \in Resetters :
          \/ ResetRules(o)
          \/ ResetScenarios(o)
          \/ FindScenario(o)
          \/ DeleteScenario(o)

Spec == Init /\ [][Next]_vars

-------------------------------------------------------------------------------
(* Properties.                                                             *)

\* Types; and the scenario a request plays is one of the snapshot it matched
\* against, whatever was reloaded since (scenarios[matched.Name] is not nil).
TypeOK ==
    /\ Control!TypeOK
    /\ Counters!TypeOK
    /\ changed \in [Watchers -> SUBSET Scenarios]
    /\ resetting \in [Resetters -> Resets]
    /\ DOMAIN played = DOMAIN draws
    /\ \A r \in Requests :
          IF at[r] = "idle"
          THEN snapshot[r] = None /\ arrival[r] = None
          ELSE /\ snapshot[r] \in Control!Runtimes
               /\ key[r] \in ScenarioKeys => key[r][2] \in ScenarioNames(snapshot[r])

\* The draws of the scenario sequence that draw j continues.
SameSequence(j) ==
    {i \in DOMAIN draws : /\ draws[i].key = draws[j].key
                          /\ draws[i].counter = draws[j].counter}

ScenarioDraws == {j \in DOMAIN draws : draws[j].key \in ScenarioKeys}

\* "a scenario whose definition changes on reload starts over" (README.md:491):
\* once a reload has returned, a request that plays the definition in force is
\* the first of its sequence or follows one that played its first step.  Refuted: a
\* request that captured the old snapshot may draw after the counter was
\* deleted, and so make the counter that the new definition continues.
RedefinedScenariosStartOver ==
    \A j \in ScenarioDraws :
        played[j].arrival.quiet /\ played[j].timely =>
            \E i \in SameSequence(j) :
                draws[i].index = 0 /\ played[i].definition = played[j].definition

\* What does hold of reloads: a request that arrives when no reload is between
\* its publication and the end of its restarts does not continue a sequence
\* that a request drew from while an older definition was in force.
QuietSequencesAreNotMixed ==
    \A j \in ScenarioDraws : \A i \in SameSequence(j) :
        /\ i <= played[j].arrival.draws
        /\ played[i].timely
        /\ played[j].arrival.quiet
        => played[i].definition = played[j].definition

\* "POST /api/reset restarts all of them" (README.md:491), rules included
\* (README.md:453): a request that arrives after a reset has returned draws from
\* a counter made after that reset began, although the two maps are cleared one
\* after the other and requests and reloads go on meanwhile.  So does one that
\* arrives after the reset of its scenario alone (README.md:490), although a reload
\* may have replaced the snapshot in which that reset has found the name.
NoSequenceSurvivesReset ==
    \A r \in Requests : at[r] = "add" => held[r] > arrival[r].floor

\* A draw that goes on after another one of the same definition plays the step
\* after the other's; after the last step it plays what on_exhausted says
\* (README.md:479-481).  The index is a position in the captured definition
\* even if the sequence was begun by a longer one.
StepsFollowEachOther ==
    \A j \in ScenarioDraws :
        LET count == Len(played[j].definition.steps)
            mode == played[j].definition.onExhausted
        IN  /\ played[j].step \in 0 .. count - 1 \cup {None}
            /\ draws[j].index = 0 => played[j].step = 0
            /\ \A i \in SameSequence(j) :
                  /\ draws[j].index = draws[i].index + 1
                  /\ played[i].definition = played[j].definition
                  => \/ played[i].step \in 0 .. count - 2
                        /\ played[j].step = played[i].step + 1
                     \/ played[i].step = count - 1
                        /\ played[j].step = CASE mode = "repeat" -> 0
                                             [] mode = "last" -> count - 1
                                             [] mode = "passthrough" -> None
                     \/ played[i].step = None /\ played[j].step = None

==============================================================================
