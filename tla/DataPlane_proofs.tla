---------------------------- MODULE DataPlane_proofs ----------------------------
(***************************************************************************)
(* Proofs about DataPlane, for any files, requests, callers and bounds.    *)
(*                                                                         *)
(* The proofs about its two parts are taken over: every step of DataPlane  *)
(* is one of RuntimeControl and of DecisionCounters, or leaves them alone, *)
(* and so keeps their invariants.  What is added says what the two have to *)
(* do with each other.  A counter in the map is newer than every reset     *)
(* that has returned (FloorsAreOld), and what was drawn from it was drawn  *)
(* under the definition in force, unless a reload has still to restart the *)
(* scenario (DrawnInForce): so a request that arrives at a quiet time      *)
(* cannot come to a counter of another definition (ArrivedInForce).        *)
(***************************************************************************)
EXTENDS DataPlane, TLAPS

Writers == INSTANCE RuntimeControl_proofs
Drawing == INSTANCE DecisionCounters_proofs

\* What Validate lets a scenario be.
Playable(definition) ==
    /\ definition # None
    /\ definition.onExhausted \in {"repeat", "last", "passthrough"}
    /\ Len(definition.steps) \in Nat \ {0}

TypesOfResets ==
    /\ changed \in [Watchers -> SUBSET Scenarios]
    /\ resetting \in [Resetters -> Resets]
    /\ floor \in [Keys -> Nat]
    /\ resetFloor \in [Resetters -> [Keys -> Nat]]

\* What a request inside nextIndex has captured.
TypesOfRequests ==
    \A r \in Requests :
        IF at[r] = "idle"
        THEN snapshot[r] = None /\ arrival[r] = None
        ELSE /\ snapshot[r] \in Control!Runtimes
             /\ key[r] \in ScenarioKeys => key[r][2] \in ScenarioNames(snapshot[r])
             /\ arrival[r].draws \in Nat /\ arrival[r].draws <= Len(draws)
             /\ arrival[r].floor \in Nat /\ arrival[r].floor <= floor[key[r]]

TypesOfHistory ==
    /\ snapshot \in [Requests -> Control!Runtimes \cup {None}]
    /\ arrival = [r \in Requests |-> arrival[r]]
    /\ played \in Seq(Range(played)) /\ Len(played) = Len(draws)
    /\ \A j \in DOMAIN draws :
          /\ played[j].arrival.draws \in Nat /\ played[j].arrival.draws < j
          /\ draws[j].key \in ScenarioKeys =>
                /\ Playable(played[j].definition)
                /\ played[j].step = step(played[j].definition, draws[j].index)

\* The counter in the map was made after every reset that has returned began, and
\* after the rules' part of those under way.
FloorsAreOld ==
    /\ \A k \in Keys : floor[k] <= Len(counters[k]) /\ (k \in stored => floor[k] < Len(counters[k]))
    /\ \A o \in Resetters, k \in Keys :
          resetting[o].kind = "all" =>
              /\ resetFloor[o][k] <= Len(counters[k])
              /\ k \in RuleKeys \cap stored => resetFloor[o][k] < Len(counters[k])

\* Draw i was made from the counter that the map has now, while its definition was
\* in force.
DrawnFromStored(i) ==
    /\ draws[i].key \in ScenarioKeys \cap stored
    /\ draws[i].counter = Len(counters[draws[i].key])
    /\ played[i].timely

\* The definition is still in force, or the scenario is about to be restarted.
DrawnInForce ==
    \A i \in DOMAIN draws :
        DrawnFromStored(i) =>
            \/ played[i].definition = Definition(current, draws[i].key[2])
            \/ \E t \in Watchers : pc[t] = "published" /\ draws[i].key[2] \in changed[t]

\* The counter that request r holds or would load.
Reachable(r, c) ==
    \/ at[r] = "add" /\ c = held[r]
    \/ at[r] \in {"load", "store"} /\ key[r] \in stored /\ c = Len(counters[key[r]])

\* A request that arrived at a quiet time continues draws of its own definition only.
ArrivedInForce ==
    \A r \in Requests, i \in DOMAIN draws :
        /\ at[r] # "idle" /\ key[r] \in ScenarioKeys /\ arrival[r].quiet
        /\ i <= arrival[r].draws /\ draws[i].key = key[r] /\ played[i].timely
        /\ Reachable(r, draws[i].counter)
        => played[i].definition = Definition(snapshot[r], key[r][2])

IInv ==
    /\ Writers!IInv
    /\ Drawing!IInv
    /\ TypesOfResets
    /\ TypesOfRequests
    /\ TypesOfHistory
    /\ FloorsAreOld
    /\ NoSequenceSurvivesReset
    /\ DrawnInForce
    /\ ArrivedInForce
    /\ QuietSequencesAreNotMixed

-------------------------------------------------------------------------------
(* The two parts, and what is proved about them.                           *)

\* The parts' assumptions are what DataPlane assumes of its constants.
LEMMA PartsAreInstantiated ==
    /\ Writers!ConfigsAssumption /\ Writers!CallersAssumption /\ Writers!NoneAssumption
    /\ Drawing!BoundsAssumption /\ Drawing!KeysAssumption
  <1>1. Drawing!BoundsAssumption /\ Drawing!KeysAssumption
    BY PartsAssumption DEF Drawing!BoundsAssumption, Drawing!KeysAssumption,
                           Counters!BoundsAssumption, Counters!KeysAssumption
  <1>2. Writers!CallersAssumption
    BY PartsAssumption DEF Writers!CallersAssumption, Control!CallersAssumption
  <1>3. Writers!ConfigsAssumption /\ Writers!NoneAssumption
    BY PartsAssumption DEF Writers!ConfigsAssumption, Control!ConfigsAssumption,
                           Control!Overrides, Writers!Overrides,
                           Writers!NoneAssumption, Control!NoneAssumption
  <1>4. QED
    BY <1>1, <1>2, <1>3

\* A caller of the one instance of RuntimeControl compiles what one of the other does.
LEMMA SameRuntime ==
    ASSUME NEW t
    PROVE  Control!NextRuntime(t) = Writers!NextRuntime(t)
  <1>1. \A cfg, n : Control!ruleEnabled(cfg, n) = Writers!ruleEnabled(cfg, n)
    BY DEF Control!ruleEnabled, Writers!ruleEnabled
  <1>2. ASSUME NEW rt, NEW base
        PROVE  Control!keptOverrides(rt, base) = Writers!keptOverrides(rt, base)
    <2> DEFINE S == {n \in DOMAIN rt.overrides :
                        /\ n \in DOMAIN base.enabled
                        /\ base.enabled[n] = Control!ruleEnabled(rt.base, n)}
               T == {n \in DOMAIN rt.overrides :
                        /\ n \in DOMAIN base.enabled
                        /\ base.enabled[n] = Writers!ruleEnabled(rt.base, n)}
    <2>1. S = T
      BY <1>1
    <2>2. Control!keptOverrides(rt, base) = [n \in S |-> rt.overrides[n]]
      BY DEF Control!keptOverrides, Control!Restrict
    <2>3. Writers!keptOverrides(rt, base) = [n \in T |-> rt.overrides[n]]
      BY DEF Writers!keptOverrides, Writers!Restrict
    <2>4. QED
      BY <2>1, <2>2, <2>3
  <1>3. CASE op[t].kind = "update"
    BY <1>2, <1>3 DEF Control!NextRuntime, Writers!NextRuntime, Control!compileRuntime,
                      Writers!compileRuntime
  <1>4. CASE op[t].kind # "update"
    BY <1>4 DEF Control!NextRuntime, Writers!NextRuntime, Control!compileRuntime,
                Writers!compileRuntime, Control!ToggledOverrides, Writers!ToggledOverrides,
                Control!Restrict, Writers!Restrict
  <1>5. QED
    BY <1>3, <1>4

\* A step of a writer keeps what is proved of the writers.
LEMMA WritersStep ==
    ASSUME Writers!IInv, NEW t \in Watchers \cup Clients,
           \/ Control!Call(t) \/ Control!Update(t) \/ Control!SetRuleEnabled(t)
           \/ Control!CompareAndSwap(t) \/ Control!CompareAndSwapFails(t)
           \/ Control!FinishUpdate(t) \/ Control!Return(t)
    PROVE  Writers!IInv'
  <1>1. Control!Call(t) => Writers!Call(t)
    BY DEF Control!Call, Writers!Call, Control!CallsOf, Writers!CallsOf,
           Control!Updates, Writers!Updates, Control!Toggles, Writers!Toggles
  <1>2. Control!Update(t) => Writers!Update(t)
    BY DEF Control!Update, Writers!Update, Control!LoadAndCompile, Writers!LoadAndCompile,
           Control!FailWith, Writers!FailWith
  <1>3. Control!SetRuleEnabled(t) => Writers!SetRuleEnabled(t)
    BY DEF Control!SetRuleEnabled, Writers!SetRuleEnabled, Control!LoadAndCompile,
           Writers!LoadAndCompile, Control!FailWith, Writers!FailWith
  <1>4. Control!CompareAndSwap(t) => Writers!CompareAndSwap(t)
    BY SameRuntime DEF Control!CompareAndSwap, Writers!CompareAndSwap, Control!Callers,
                       Writers!Callers
  <1>5. Control!CompareAndSwapFails(t) => Writers!CompareAndSwapFails(t)
    BY DEF Control!CompareAndSwapFails, Writers!CompareAndSwapFails
  <1>6. Control!FinishUpdate(t) => Writers!FinishUpdate(t)
    BY DEF Control!FinishUpdate, Writers!FinishUpdate
  <1>7. Control!Return(t) => Writers!Return(t)
    BY DEF Control!Return, Writers!Return, Control!NoCall, Writers!NoCall
  <1>8. t \in Writers!Callers
    BY DEF Writers!Callers
  <1>9. Writers!Next
    BY <1>1, <1>2, <1>3, <1>4, <1>5, <1>6, <1>7, <1>8 DEF Writers!Next, Writers!Step
  <1>10. QED
    BY <1>9, Writers!NextPreserves, PartsAreInstantiated

\* Who leaves the snapshot alone keeps it, too.
LEMMA WritersStutter ==
    ASSUME Writers!IInv, UNCHANGED controlVars
    PROVE  Writers!IInv'
  <1>1. UNCHANGED Writers!controlVars
    BY DEF controlVars, Writers!controlVars
  <1>2. QED
    BY <1>1, Writers!NextPreserves, PartsAreInstantiated

\* A step of nextIndex, or of a restart, keeps what is proved of the counters.
LEMMA DrawingStep ==
    ASSUME Drawing!IInv,
           \/ \E r \in Requests, k \in Keys : Counters!nextIndex(r, k)
           \/ \E r \in Requests : Counters!Load(r) \/ Counters!LoadOrStore(r) \/ Counters!Add(r)
           \/ \E S \in SUBSET Keys : Counters!Restart(S)
    PROVE  Drawing!IInv'
  <1>1. ASSUME NEW r \in Requests, NEW k \in Keys, Counters!nextIndex(r, k)
        PROVE  Drawing!IInv'
    <2>1. Drawing!nextIndex(r, k)
      BY <1>1 DEF Counters!nextIndex, Drawing!nextIndex
    <2>2. QED
      BY <2>1, Drawing!CallPreserves, PartsAreInstantiated
  <1>2. ASSUME NEW r \in Requests, Counters!Load(r)
        PROVE  Drawing!IInv'
    <2>1. Drawing!Load(r)
      BY <1>2 DEF Counters!Load, Drawing!Load
    <2>2. QED
      BY <2>1, Drawing!LoadPreserves, PartsAreInstantiated
  <1>3. ASSUME NEW r \in Requests, Counters!LoadOrStore(r)
        PROVE  Drawing!IInv'
    <2>1. Drawing!LoadOrStore(r)
      BY <1>3 DEF Counters!LoadOrStore, Drawing!LoadOrStore
    <2>2. QED
      BY <2>1, Drawing!LoadOrStorePreserves, PartsAreInstantiated
  <1>4. ASSUME NEW r \in Requests, Counters!Add(r)
        PROVE  Drawing!IInv'
    <2>1. Drawing!Add(r)
      BY <1>4 DEF Counters!Add, Drawing!Add
    <2>2. QED
      BY <2>1, Drawing!AddPreserves, PartsAreInstantiated
  <1>5. ASSUME NEW S \in SUBSET Keys, Counters!Restart(S)
        PROVE  Drawing!IInv'
    <2>1. Drawing!Restart(S)
      BY <1>5 DEF Counters!Restart, Drawing!Restart
    <2>2. QED
      BY <2>1, Drawing!RestartPreserves, PartsAreInstantiated
  <1>6. QED
    BY <1>1, <1>2, <1>3, <1>4, <1>5

\* Who leaves the counters alone keeps it, too.
LEMMA DrawingStutter ==
    ASSUME Drawing!IInv, UNCHANGED counterVars
    PROVE  Drawing!IInv'
  <1>1. UNCHANGED Drawing!counterVars
    BY DEF counterVars, Drawing!counterVars
  <1>2. QED
    BY <1>1, Drawing!NextPreserves, PartsAreInstantiated

\* The types of the two instances are the same.
LEMMA PartsAreTyped ==
    /\ Writers!IInv => Control!TypeOK
    /\ Drawing!IInv => Counters!TypeOK
  <1>1. Writers!IInv => Writers!TypeOK
    BY DEF Writers!IInv
  <1>2. Writers!TypeOK => Control!TypeOK
    BY DEF Writers!TypeOK, Control!TypeOK, Writers!Callers, Control!Callers,
           Writers!Runtimes, Control!Runtimes, Writers!Overrides, Control!Overrides,
           Writers!Steps, Control!Steps, Writers!Updates, Control!Updates,
           Writers!Toggles, Control!Toggles, Writers!NoCall, Control!NoCall
  <1>3. Drawing!IInv => Drawing!TypeOK
    BY DEF Drawing!IInv
  <1>4. Drawing!TypeOK => Counters!TypeOK
    BY DEF Drawing!TypeOK, Counters!TypeOK, Drawing!Draws, Counters!Draws
  <1>5. QED
    BY <1>1, <1>2, <1>3, <1>4

-------------------------------------------------------------------------------
(* What the counters and the draws are.                                    *)

\* The key of a scenario has its name, and is no rule's.
LEMMA Names ==
    ASSUME NEW k \in ScenarioKeys
    PROVE  k[2] \in Scenarios /\ k = <<"scenario", k[2]>> /\ k \in Keys /\ k \notin RuleKeys
  BY DEF ScenarioKeys, Keys, RuleKeys

\* The draws are typed, and made from counters there are.
LEMMA DrawsAndCounters ==
    ASSUME Drawing!IInv
    PROVE  /\ stored \subseteq Keys
           /\ \A k \in Keys : counters[k] \in Seq(Nat) /\ Len(counters[k]) \in Nat
           /\ draws \in Seq(Counters!Draws) /\ Len(draws) \in Nat /\ DOMAIN draws = 1 .. Len(draws)
           /\ \A i \in DOMAIN draws :
                 /\ i \in Nat /\ i <= Len(draws) /\ draws[i].key \in Keys /\ draws[i].index \in Nat
                 /\ draws[i].counter \in Nat /\ draws[i].counter <= Len(counters[draws[i].key])
           /\ \A r \in Requests : /\ at[r] \in {"idle", "load", "store", "add"}
                                  /\ at[r] # "idle" => key[r] \in Keys
                                  /\ at[r] = "add" => /\ held[r] \in Nat
                                                      /\ held[r] <= Len(counters[key[r]])
  <1>1. Counters!TypeOK
    BY PartsAreTyped
  <1>2. \A k \in Keys : /\ counters[k] \in Seq(Nat) /\ Len(counters[k]) \in Nat
                        /\ DOMAIN counters[k] = 1 .. Len(counters[k])
    BY <1>1 DEF Counters!TypeOK
  <1>3. /\ draws \in Seq(Counters!Draws) /\ Len(draws) \in Nat /\ DOMAIN draws = 1 .. Len(draws)
        /\ \A i \in DOMAIN draws : i \in Nat /\ i <= Len(draws) /\ draws[i] \in Counters!Draws
    BY <1>1 DEF Counters!TypeOK
  <1>4. \A i \in DOMAIN draws :
           /\ draws[i].key \in Keys /\ draws[i].index \in Nat
           /\ draws[i].counter \in Nat /\ draws[i].counter <= Len(counters[draws[i].key])
    <2> SUFFICES ASSUME NEW i \in DOMAIN draws
                 PROVE  /\ draws[i].key \in Keys /\ draws[i].index \in Nat
                        /\ draws[i].counter \in Nat
                        /\ draws[i].counter <= Len(counters[draws[i].key])
      OBVIOUS
    <2>1. draws[i].key \in Keys /\ draws[i].index \in Nat /\ draws[i].counter \in Nat
      BY <1>3 DEF Counters!Draws
    <2>2. draws[i].counter \in DOMAIN counters[draws[i].key]
      BY DEF Drawing!IInv, Drawing!EpochsOfDraws
    <2>3. QED
      BY <1>2, <2>1, <2>2
  <1>5. \A r \in Requests : /\ at[r] \in {"idle", "load", "store", "add"}
                            /\ at[r] # "idle" => key[r] \in Keys
                            /\ at[r] = "add" => /\ held[r] \in Nat
                                                /\ held[r] <= Len(counters[key[r]])
    BY <1>1, <1>2 DEF Counters!TypeOK
  <1>6. QED
    BY <1>1, <1>2, <1>3, <1>4, <1>5 DEF Counters!TypeOK

-------------------------------------------------------------------------------
(* Steps of the writers and of the resets.                                 *)

\* What requests rely on stays, as long as none of them steps.
LEMMA RequestsFrame ==
    ASSUME IInv, UNCHANGED <<at, key, held, draws, counters, snapshot, arrival, played>>,
           stored' \subseteq stored, floor' \in [Keys -> Nat],
           \A k \in Keys : floor[k] <= floor'[k]
    PROVE  /\ TypesOfRequests' /\ TypesOfHistory' /\ NoSequenceSurvivesReset'
           /\ ArrivedInForce' /\ QuietSequencesAreNotMixed'
  <1>1. TypesOfHistory'
    BY DEF IInv, TypesOfHistory
  <1>2. NoSequenceSurvivesReset'
    BY DEF IInv, NoSequenceSurvivesReset
  <1>3. ArrivedInForce'
    BY DEF IInv, ArrivedInForce, Reachable
  <1>4. QuietSequencesAreNotMixed'
    BY DEF IInv, QuietSequencesAreNotMixed, ScenarioDraws, SameSequence
  <1>5. TypesOfRequests'
    <2> SUFFICES ASSUME NEW r \in Requests, at[r] # "idle"
                 PROVE  arrival[r].floor <= floor'[key[r]]
      BY DEF IInv, TypesOfRequests
    <2>1. key[r] \in Keys
      BY DrawsAndCounters DEF IInv
    <2>2. /\ arrival[r].floor \in Nat /\ arrival[r].floor <= floor[key[r]]
          /\ floor[key[r]] \in Nat /\ floor'[key[r]] \in Nat /\ floor[key[r]] <= floor'[key[r]]
      BY <2>1 DEF IInv, TypesOfRequests, TypesOfResets
    <2>3. QED
      BY <2>2
  <1>6. QED
    BY <1>1, <1>2, <1>3, <1>4, <1>5

\* Draws from the stored counters stay in force: the snapshot stays, and a restart
\* that was due is done or still due.
LEMMA DrawnFrame ==
    ASSUME IInv, UNCHANGED <<draws, counters, played, current>>, stored' \subseteq stored,
           \A t \in Watchers, n \in Scenarios :
              pc[t] = "published" /\ n \in changed[t] =>
                 \/ pc'[t] = "published" /\ n \in changed'[t]
                 \/ <<"scenario", n>> \notin stored'
    PROVE  DrawnInForce'
  <1> SUFFICES ASSUME NEW i \in DOMAIN draws, DrawnFromStored(i)'
               PROVE  \/ played[i].definition = Definition(current, draws[i].key[2])
                      \/ \E t \in Watchers : pc'[t] = "published" /\ draws[i].key[2] \in changed'[t]
    BY DEF DrawnInForce, Definition, ScenarioNames, ScenarioOf
  <1>1. DrawnFromStored(i) /\ draws[i].key \in ScenarioKeys /\ draws[i].key \in stored'
    BY DEF DrawnFromStored
  <1>2. CASE played[i].definition = Definition(current, draws[i].key[2])
    BY <1>2
  <1>3. CASE played[i].definition # Definition(current, draws[i].key[2])
    <2>1. PICK t \in Watchers : pc[t] = "published" /\ draws[i].key[2] \in changed[t]
      BY <1>1, <1>3 DEF IInv, DrawnInForce
    <2>2. draws[i].key[2] \in Scenarios /\ draws[i].key = <<"scenario", draws[i].key[2]>>
      BY <1>1, Names
    <2>3. QED
      BY <1>1, <2>1, <2>2
  <1>4. QED
    BY <1>2, <1>3

\* Counters stay newer than resets, as long as none is made and no reset steps.
LEMMA FloorsFrame ==
    ASSUME IInv, UNCHANGED <<counters, floor, resetFloor>>, stored' \subseteq stored,
           \A o \in Resetters : resetting'[o].kind = "all" => resetting[o].kind = "all"
    PROVE  FloorsAreOld'
  BY DEF IInv, FloorsAreOld

\* A writer is called, compiles, retries or returns: the snapshot stays.
LEMMA WriterKeepsIInv ==
    ASSUME IInv, NEW t \in Watchers \cup Clients,
           \/ Call(t) \/ Compile(t) \/ Retry(t) \/ Return(t)
           \/ t \in Watchers /\ FinishUpdate(t)
    PROVE  IInv'
  <1>1. /\ UNCHANGED <<counterVars, requestVars, changed, resetVars>>
        /\ \/ Control!Call(t) \/ Control!Update(t) \/ Control!SetRuleEnabled(t)
           \/ Control!CompareAndSwapFails(t) \/ Control!Return(t)
           \/ Control!FinishUpdate(t) /\ changed[t] = {}
    BY DEF Call, Compile, Retry, Return, FinishUpdate
  <1>2. Writers!IInv'
    BY <1>1, WritersStep DEF IInv
  <1>3. Drawing!IInv'
    BY <1>1, DrawingStutter DEF IInv
  <1>4. UNCHANGED <<stored, counters, at, key, held, draws, snapshot, arrival, played, changed,
                    resetting, floor, resetFloor>>
    BY <1>1 DEF counterVars, requestVars, resetVars
  <1>5. TypesOfResets' /\ FloorsAreOld'
    BY <1>4, FloorsFrame DEF IInv, TypesOfResets
  <1>6. /\ TypesOfRequests' /\ TypesOfHistory' /\ NoSequenceSurvivesReset'
        /\ ArrivedInForce' /\ QuietSequencesAreNotMixed'
    <2>1. floor' \in [Keys -> Nat] /\ \A k \in Keys : floor[k] <= floor'[k]
      BY <1>4 DEF IInv, TypesOfResets
    <2>2. QED
      BY <1>4, <2>1, RequestsFrame
  <1>7. DrawnInForce'
    <2>1. current' = current /\ pc \in [Watchers \cup Clients -> Control!Steps]
      BY <1>1, PartsAreTyped DEF IInv, Control!TypeOK, Control!Callers, Control!Call,
         Control!Update, Control!SetRuleEnabled, Control!LoadAndCompile, Control!FailWith,
         Control!CompareAndSwapFails, Control!Return, Control!FinishUpdate
    <2>2. \A u \in Watchers : u # t => pc'[u] = pc[u]
      BY <1>1, <2>1 DEF Control!Call,
         Control!Update, Control!SetRuleEnabled, Control!LoadAndCompile, Control!FailWith,
         Control!CompareAndSwapFails, Control!Return, Control!FinishUpdate
    <2>3. pc[t] = "published" => changed[t] = {}
      BY <1>1 DEF Control!Call, Control!Update, Control!SetRuleEnabled,
         Control!CompareAndSwapFails, Control!Return
    <2>4. QED
      BY <1>4, <2>1, <2>2, <2>3, DrawnFrame
  <1>8. QED
    BY <1>2, <1>3, <1>5, <1>6, <1>7 DEF IInv

\* What a file can redefine: the scenarios with another definition were there.
LEMMA Redefined ==
    ASSUME NEW rt \in Control!Runtimes, NEW next, NEW n,
           Definition(rt, n) # None, Definition(rt, n) # Definition(next, n)
    PROVE  n \in ChangedScenarios(rt, next)
  BY DEF Definition, ChangedScenarios

\* A scenario that is in a snapshot has a definition that can be played.
LEMMA Defined ==
    ASSUME NEW rt \in Control!Runtimes, NEW n \in ScenarioNames(rt)
    PROVE  Playable(Definition(rt, n)) /\ n \in Scenarios
  <1>1. rt.base \in Configs
    BY DEF Control!Runtimes
  <1>2. \E s \in Range(rt.base.scenarios) : s.name = n
    BY DEF ScenarioNames
  <1>3. ScenarioOf(rt, n) \in Range(rt.base.scenarios) /\ ScenarioOf(rt, n).name = n
    BY <1>2 DEF ScenarioOf
  <1> DEFINE s == ScenarioOf(rt, n)
             d == [match |-> s.match, onExhausted |-> s.onExhausted, steps |-> s.steps]
  <1>4. /\ s.name \in Scenarios /\ d # None
        /\ s.onExhausted \in {"repeat", "last", "passthrough"} /\ Len(s.steps) \in Nat \ {0}
    BY <1>1, <1>3, FilesAssumption
  <1>5. Definition(rt, n) = d
    BY DEF Definition
  <1>6. QED
    BY <1>3, <1>4, <1>5 DEF Playable

\* A snapshot is published: what it redefines is to be restarted.
LEMMA PublishKeepsIInv ==
    ASSUME IInv, NEW t \in Watchers \cup Clients, Publish(t)
    PROVE  IInv'
  <1>1. /\ Control!CompareAndSwap(t) /\ UNCHANGED <<counterVars, requestVars, resetVars>>
        /\ changed' = IF t \in Watchers
                      THEN [changed EXCEPT ![t] = ChangedScenarios(loaded[t], current')]
                      ELSE changed
    BY DEF Publish
  <1>2. Writers!IInv'
    BY <1>1, WritersStep DEF IInv
  <1>3. Drawing!IInv'
    BY <1>1, DrawingStutter DEF IInv
  <1>4. UNCHANGED <<stored, counters, at, key, held, draws, snapshot, arrival, played,
                    resetting, floor, resetFloor>>
    BY <1>1 DEF counterVars, requestVars, resetVars
  <1>5. /\ pc[t] = "swap" /\ t \notin replaced /\ loaded[t] = current
        /\ pc \in [Watchers \cup Clients -> Control!Steps]
        /\ pc' = [pc EXCEPT ![t] = IF op[t].kind = "update" THEN "published" ELSE "ok"]
        /\ current' = Control!NextRuntime(t) /\ current \in Control!Runtimes
    <2>1. pc[t] = "swap" /\ t \notin replaced => loaded[t] = current
      BY DEF IInv, Writers!IInv, Writers!SwapsWhatItRead, Writers!Callers
    <2>2. pc \in [Watchers \cup Clients -> Control!Steps] /\ current \in Control!Runtimes
      BY PartsAreTyped DEF IInv, Control!TypeOK, Control!Callers
    <2>3. QED
      BY <1>1, <2>1, <2>2 DEF Control!CompareAndSwap
  <1>6. /\ t \in Watchers => op[t].kind = "update"
        /\ t \notin Watchers => op[t].kind = "toggle"
    <2>1. op[t] # Writers!NoCall /\ op[t] \in Writers!CallsOf(t)
      BY <1>5 DEF IInv, Writers!IInv, Writers!CallOfStep, Writers!Callers
    <2>2. QED
      BY <2>1 DEF Writers!CallsOf, Writers!Updates, Writers!Toggles
  <1>7. \A n : n \in ChangedScenarios(current, current') => n \in Scenarios
    BY <1>5, Defined DEF ChangedScenarios
  <1>8. changed \in [Watchers -> SUBSET Scenarios] /\ changed' \in [Watchers -> SUBSET Scenarios]
    BY <1>1, <1>5, <1>7 DEF IInv, TypesOfResets
  <1>9. TypesOfResets' /\ FloorsAreOld'
    BY <1>4, <1>8, FloorsFrame DEF IInv, TypesOfResets
  <1>10. /\ TypesOfRequests' /\ TypesOfHistory' /\ NoSequenceSurvivesReset'
         /\ ArrivedInForce' /\ QuietSequencesAreNotMixed'
    <2>1. floor' \in [Keys -> Nat] /\ \A k \in Keys : floor[k] <= floor'[k]
      BY <1>4 DEF IInv, TypesOfResets
    <2>2. QED
      BY <1>4, <2>1, RequestsFrame
  <1>11. DrawnInForce'
    <2> SUFFICES ASSUME NEW i \in DOMAIN draws, DrawnFromStored(i)'
                 PROVE  \/ played[i].definition = Definition(current', draws[i].key[2])
                        \/ \E u \in Watchers : pc'[u] = "published" /\ draws[i].key[2] \in changed'[u]
      BY <1>4 DEF DrawnInForce, Definition, ScenarioNames, ScenarioOf
    <2> DEFINE n == draws[i].key[2]
    <2>1. DrawnFromStored(i) /\ draws[i].key \in ScenarioKeys
      BY <1>4 DEF DrawnFromStored
    <2>2. played[i].definition # None
      BY <2>1 DEF IInv, TypesOfHistory, Playable
    <2>3. CASE t \notin Watchers
      <3>1. current'.base = current.base
        BY <1>5, <1>6, <2>3 DEF Control!NextRuntime, Control!compileRuntime
      <3>2. Definition(current', n) = Definition(current, n)
        BY <3>1 DEF Definition, ScenarioNames, ScenarioOf
      <3>3. \A u \in Watchers : pc'[u] = pc[u] /\ changed'[u] = changed[u]
        BY <1>1, <1>5, <2>3
      <3>4. QED
        BY <2>1, <3>2, <3>3 DEF IInv, DrawnInForce
    <2>4. CASE t \in Watchers
      <3>1. /\ pc'[t] = "published" /\ changed'[t] = ChangedScenarios(current, current')
            /\ \A u \in Watchers : u # t => pc'[u] = pc[u] /\ changed'[u] = changed[u]
        BY <1>1, <1>5, <1>6, <1>8, <2>4
      <3>2. CASE played[i].definition = Definition(current, n)
        BY <1>5, <2>2, <2>4, <3>1, <3>2, Redefined
      <3>3. CASE played[i].definition # Definition(current, n)
        <4>1. PICK u \in Watchers : pc[u] = "published" /\ n \in changed[u]
          BY <2>1, <3>3 DEF IInv, DrawnInForce
        <4>2. u # t
          BY <1>5, <4>1
        <4>3. QED
          BY <3>1, <4>1, <4>2
      <3>4. QED
        BY <3>2, <3>3
    <2>5. QED
      BY <2>3, <2>4
  <1>12. QED
    BY <1>2, <1>3, <1>9, <1>10, <1>11 DEF IInv

\* The sequences of a set of keys start over: what is stored shrinks.
LEMMA Restarted ==
    ASSUME NEW S \in SUBSET Keys, Counters!Restart(S)
    PROVE  UNCHANGED <<counters, at, key, held, draws>> /\ stored' = stored \ S
  BY DEF Counters!Restart

\* A reload restarts a scenario it has changed.
LEMMA RestartChangedKeepsIInv ==
    ASSUME IInv, NEW t \in Watchers, RestartChanged(t)
    PROVE  IInv'
  <1>1. PICK n \in changed[t] :
           Counters!Restart({<<"scenario", n>>}) /\ changed' = [changed EXCEPT ![t] = @ \ {n}]
    BY DEF RestartChanged
  <1>2. pc[t] = "published" /\ UNCHANGED <<controlVars, requestVars, resetVars>>
    BY DEF RestartChanged
  <1>3. changed \in [Watchers -> SUBSET Scenarios] /\ n \in Scenarios
    BY <1>1 DEF IInv, TypesOfResets
  <1>4. {<<"scenario", n>>} \in SUBSET Keys
    BY <1>3 DEF Keys, ScenarioKeys
  <1>5. /\ UNCHANGED <<counters, at, key, held, draws, snapshot, arrival, played, resetting, floor,
                       resetFloor, current, pc>>
        /\ stored' = stored \ {<<"scenario", n>>}
    BY <1>1, <1>2, <1>4, Restarted DEF controlVars, requestVars, resetVars
  <1>6. Writers!IInv'
    BY <1>2, WritersStutter DEF IInv
  <1>7. Drawing!IInv'
    BY <1>1, <1>4, DrawingStep DEF IInv
  <1>8. TypesOfResets'
    BY <1>1, <1>3, <1>5 DEF IInv, TypesOfResets
  <1>9. FloorsAreOld'
    BY <1>5, FloorsFrame
  <1>10. /\ TypesOfRequests' /\ TypesOfHistory' /\ NoSequenceSurvivesReset'
         /\ ArrivedInForce' /\ QuietSequencesAreNotMixed'
    <2>1. floor' \in [Keys -> Nat] /\ \A k \in Keys : floor[k] <= floor'[k]
      BY <1>5 DEF IInv, TypesOfResets
    <2>2. QED
      BY <1>5, <2>1, RequestsFrame
  <1>11. DrawnInForce'
    <2>1. ASSUME NEW u \in Watchers, NEW m \in Scenarios, pc[u] = "published", m \in changed[u]
          PROVE  \/ pc'[u] = "published" /\ m \in changed'[u]
                 \/ <<"scenario", m>> \notin stored'
      BY <1>1, <1>3, <1>5, <2>1
    <2>2. QED
      BY <1>5, <2>1, DrawnFrame
  <1>12. QED
    BY <1>6, <1>7, <1>8, <1>9, <1>10, <1>11 DEF IInv

\* The larger of two.
LEMMA MaxOfTwo ==
    ASSUME NEW a \in Nat, NEW b \in Nat
    PROVE  Max({a, b}) \in Nat /\ a <= Max({a, b}) /\ b <= Max({a, b}) /\ Max({a, b}) \in {a, b}
  <1>1. \E x \in {a, b} : \A y \in {a, b} : x >= y
    <2>1. CASE a >= b
      BY <2>1
    <2>2. CASE b >= a
      BY <2>2
    <2>3. QED
      BY <2>1, <2>2
  <1>2. Max({a, b}) \in {a, b} /\ \A y \in {a, b} : Max({a, b}) >= y
    BY <1>1 DEF Max
  <1>3. QED
    BY <1>2

\* What a reset has to keep; what it does to the sequences of S is a restart.
LEMMA ResetKeepsIInv ==
    ASSUME IInv, NEW S \in SUBSET Keys,
           Counters!Restart(S) \/ (UNCHANGED counterVars /\ S = {}),
           UNCHANGED <<controlVars, requestVars, changed>>,
           TypesOfResets', FloorsAreOld', \A k \in Keys : floor[k] <= floor'[k]
    PROVE  IInv'
  <1>1. UNCHANGED <<counters, at, key, held, draws>> /\ stored' \subseteq stored
    BY Restarted DEF counterVars
  <1>2. UNCHANGED <<snapshot, arrival, played, changed, current, pc>>
    BY DEF controlVars, requestVars
  <1>3. Writers!IInv'
    BY WritersStutter DEF IInv
  <1>4. Drawing!IInv'
    BY DrawingStep, DrawingStutter DEF IInv
  <1>5. floor' \in [Keys -> Nat]
    BY DEF TypesOfResets
  <1>6. /\ TypesOfRequests' /\ TypesOfHistory' /\ NoSequenceSurvivesReset'
        /\ ArrivedInForce' /\ QuietSequencesAreNotMixed'
    BY <1>1, <1>2, <1>5, RequestsFrame
  <1>7. DrawnInForce'
    BY <1>1, <1>2, DrawnFrame
  <1>8. QED
    BY <1>3, <1>4, <1>6, <1>7 DEF IInv

\* POST /api/reset begins: the rules' sequences start over.
LEMMA ResetRulesKeepsIInv ==
    ASSUME IInv, NEW o \in Resetters, ResetRules(o)
    PROVE  IInv'
  <1>1. /\ Counters!Restart(RuleKeys) /\ UNCHANGED <<controlVars, requestVars, changed, floor>>
        /\ resetting' = [resetting EXCEPT ![o] = [kind |-> "all", left |-> ScenarioKeys]]
        /\ resetFloor' = [resetFloor EXCEPT ![o] = [k \in Keys |-> Len(counters[k])]]
    BY DEF ResetRules
  <1>2. RuleKeys \in SUBSET Keys /\ counters' = counters /\ stored' = stored \ RuleKeys
    BY <1>1, Restarted DEF Keys
  <1>3. [k \in Keys |-> Len(counters[k])] \in [Keys -> Nat] /\ \A k \in Keys : Len(counters[k]) \in Nat
    BY DrawsAndCounters DEF IInv
  <1>4. [kind |-> "all", left |-> ScenarioKeys] \in Resets
    BY DEF Resets
  <1>5. TypesOfResets'
    BY <1>1, <1>3, <1>4 DEF IInv, TypesOfResets
  <1>6. FloorsAreOld'
    <2>1. \A k \in Keys : /\ floor'[k] <= Len(counters'[k])
                          /\ k \in stored' => floor'[k] < Len(counters'[k])
      BY <1>1, <1>2 DEF IInv, FloorsAreOld
    <2>2. ASSUME NEW p \in Resetters, NEW k \in Keys, resetting'[p].kind = "all"
          PROVE  /\ resetFloor'[p][k] <= Len(counters'[k])
                 /\ k \in RuleKeys \cap stored' => resetFloor'[p][k] < Len(counters'[k])
      <3>1. CASE p = o
        <4>1. resetFloor'[p][k] = Len(counters[k])
          BY <1>1, <3>1 DEF IInv, TypesOfResets
        <4>2. QED
          BY <1>2, <1>3, <4>1
      <3>2. CASE p # o
        <4>1. resetFloor'[p] = resetFloor[p] /\ resetting'[p] = resetting[p]
          BY <1>1, <3>2 DEF IInv, TypesOfResets
        <4>2. QED
          BY <1>2, <2>2, <4>1 DEF IInv, FloorsAreOld
      <3>3. QED
        BY <3>1, <3>2
    <2>3. QED
      BY <2>1, <2>2 DEF FloorsAreOld
  <1>7. \A k \in Keys : floor[k] <= floor'[k]
    BY <1>1 DEF IInv, TypesOfResets
  <1>8. QED
    BY <1>1, <1>2, <1>5, <1>6, <1>7, ResetKeepsIInv

\* POST /api/reset returns: the scenarios' sequences start over, too.
LEMMA ResetScenariosKeepsIInv ==
    ASSUME IInv, NEW o \in Resetters, ResetScenarios(o)
    PROVE  IInv'
  <1>1. /\ resetting[o].kind = "all"
        /\ Counters!Restart(ScenarioKeys) /\ UNCHANGED <<controlVars, requestVars, changed, resetFloor>>
        /\ resetting' = [resetting EXCEPT ![o] = NoReset]
        /\ floor' = [k \in Keys |-> Max({floor[k], resetFloor[o][k]})]
    BY DEF ResetScenarios
  <1>2. ScenarioKeys \in SUBSET Keys /\ counters' = counters /\ stored' = stored \ ScenarioKeys
    BY <1>1, Restarted DEF Keys
  <1>3. \A k \in Keys : Len(counters[k]) \in Nat
    BY DrawsAndCounters DEF IInv
  <1>4. \A k \in Keys : /\ floor[k] \in Nat /\ resetFloor[o][k] \in Nat /\ floor'[k] \in Nat
                        /\ floor[k] <= floor'[k] /\ floor'[k] \in {floor[k], resetFloor[o][k]}
    <2> SUFFICES ASSUME NEW k \in Keys
                 PROVE  /\ floor[k] \in Nat /\ resetFloor[o][k] \in Nat /\ floor'[k] \in Nat
                        /\ floor[k] <= floor'[k] /\ floor'[k] \in {floor[k], resetFloor[o][k]}
      OBVIOUS
    <2>1. floor[k] \in Nat /\ resetFloor[o][k] \in Nat
      BY DEF IInv, TypesOfResets
    <2>2. floor'[k] = Max({floor[k], resetFloor[o][k]})
      BY <1>1
    <2>3. QED
      BY <2>1, <2>2, MaxOfTwo
  <1>5. NoReset \in Resets /\ NoReset.kind # "all"
    BY DEF Resets, NoReset
  <1>6. TypesOfResets'
    <2>1. floor' \in [Keys -> Nat]
      BY <1>1, <1>4
    <2>2. QED
      BY <1>1, <1>5, <2>1 DEF IInv, TypesOfResets
  <1>7. FloorsAreOld'
    <2>1. ASSUME NEW k \in Keys
          PROVE  /\ floor'[k] <= Len(counters'[k])
                 /\ k \in stored' => floor'[k] < Len(counters'[k])
      <3>1. k \in stored' => k \in RuleKeys \cap stored
        BY <1>2 DEF Keys
      <3>2. /\ floor[k] <= Len(counters[k]) /\ resetFloor[o][k] <= Len(counters[k])
            /\ k \in stored => floor[k] < Len(counters[k])
            /\ k \in RuleKeys \cap stored => resetFloor[o][k] < Len(counters[k])
        BY <1>1 DEF IInv, FloorsAreOld
      <3>3. QED
        BY <1>2, <1>4, <3>1, <3>2
    <2>2. ASSUME NEW p \in Resetters, NEW k \in Keys, resetting'[p].kind = "all"
          PROVE  /\ resetFloor'[p][k] <= Len(counters'[k])
                 /\ k \in RuleKeys \cap stored' => resetFloor'[p][k] < Len(counters'[k])
      <3>1. p # o /\ resetting'[p] = resetting[p]
        BY <1>1, <1>5, <2>2 DEF IInv, TypesOfResets
      <3>2. QED
        BY <1>1, <1>2, <2>2, <3>1 DEF IInv, FloorsAreOld
    <2>3. QED
      BY <2>1, <2>2 DEF FloorsAreOld
  <1>8. QED
    BY <1>1, <1>2, <1>4, <1>6, <1>7, ResetKeepsIInv

\* The reset of one scenario finds it, and deletes its counter.
LEMMA ResetScenarioKeepsIInv ==
    ASSUME IInv, NEW o \in Resetters, FindScenario(o) \/ DeleteScenario(o)
    PROVE  IInv'
  <1>1. PICK S \in SUBSET Keys, v \in Resets :
           /\ Counters!Restart(S) \/ (UNCHANGED counterVars /\ S = {})
           /\ resetting' = [resetting EXCEPT ![o] = v] /\ v.kind # "all"
           /\ \A k \in Keys : floor'[k] = IF k \in S THEN Len(counters[k]) ELSE floor[k]
           /\ floor' = [k \in Keys |-> floor'[k]]
    <2>1. CASE FindScenario(o)
      <3>1. PICK n \in ScenarioNames(current) :
               resetting' = [resetting EXCEPT ![o] = [kind |-> "one", left |-> {<<"scenario", n>>}]]
        BY <2>1 DEF FindScenario
      <3> DEFINE found == [kind |-> "one", left |-> {<<"scenario", n>>}]
      <3>2. n \in Scenarios
        BY Defined, PartsAreTyped DEF IInv, Control!TypeOK
      <3>3. found \in Resets /\ found.kind # "all" /\ resetting' = [resetting EXCEPT ![o] = found]
        BY <3>1, <3>2 DEF Resets, ScenarioKeys
      <3>4. UNCHANGED counterVars /\ floor' = floor
        BY <2>1 DEF FindScenario
      <3>5. floor' = [k \in Keys |-> floor'[k]]
        BY <3>4 DEF IInv, TypesOfResets
      <3>6. /\ {} \in SUBSET Keys
            /\ \A k \in Keys : floor'[k] = IF k \in {} THEN Len(counters[k]) ELSE floor[k]
        BY <3>4
      <3> HIDE DEF found
      <3>7. QED
        BY <3>3, <3>4, <3>5, <3>6
    <2>2. CASE DeleteScenario(o)
      <3>1. resetting[o] \in Resets
        BY DEF IInv, TypesOfResets
      <3>2. resetting[o].left \in SUBSET Keys
        BY <3>1 DEF Resets, Keys
      <3>3. NoReset \in Resets /\ NoReset.kind # "all"
        BY DEF Resets, NoReset
      <3>4. /\ Counters!Restart(resetting[o].left) /\ resetting' = [resetting EXCEPT ![o] = NoReset]
            /\ floor' = [k \in Keys |-> IF k \in resetting[o].left THEN Len(counters[k]) ELSE floor[k]]
        BY <2>2 DEF DeleteScenario
      <3>5. /\ \A k \in Keys :
                  floor'[k] = IF k \in resetting[o].left THEN Len(counters[k]) ELSE floor[k]
            /\ floor' = [k \in Keys |-> floor'[k]]
        BY <3>4
      <3>6. QED
        BY <3>2, <3>3, <3>4, <3>5
    <2>3. QED
      BY <2>1, <2>2
  <1>2. UNCHANGED <<controlVars, requestVars, changed, resetFloor>>
    BY DEF FindScenario, DeleteScenario
  <1>3. counters' = counters /\ stored' = stored \ S
    BY <1>1, Restarted DEF counterVars
  <1>4. ASSUME NEW k \in Keys
        PROVE  /\ floor'[k] \in Nat /\ floor[k] <= floor'[k] /\ floor'[k] <= Len(counters'[k])
               /\ k \in stored' => floor'[k] < Len(counters'[k])
    <2>1. Len(counters[k]) \in Nat /\ floor[k] \in Nat
      BY DrawsAndCounters DEF IInv, TypesOfResets
    <2>2. floor[k] <= Len(counters[k]) /\ (k \in stored => floor[k] < Len(counters[k]))
      BY DEF IInv, FloorsAreOld
    <2>3. CASE k \in S
      BY <1>1, <1>3, <2>1, <2>2, <2>3
    <2>4. CASE k \notin S
      BY <1>1, <1>3, <2>1, <2>2, <2>4
    <2>5. QED
      BY <2>3, <2>4
  <1>5. TypesOfResets'
    <2>1. floor' \in [Keys -> Nat]
      BY <1>1, <1>4
    <2>2. QED
      BY <1>1, <1>2, <2>1 DEF IInv, TypesOfResets
  <1>6. FloorsAreOld'
    <2>1. ASSUME NEW p \in Resetters, NEW k \in Keys, resetting'[p].kind = "all"
          PROVE  /\ resetFloor'[p][k] <= Len(counters'[k])
                 /\ k \in RuleKeys \cap stored' => resetFloor'[p][k] < Len(counters'[k])
      <3>1. p # o /\ resetting'[p] = resetting[p]
        BY <1>1, <2>1 DEF IInv, TypesOfResets
      <3>2. QED
        BY <1>2, <1>3, <2>1, <3>1 DEF IInv, FloorsAreOld
    <2>2. QED
      BY <1>4, <2>1 DEF FloorsAreOld
  <1>7. QED
    BY <1>1, <1>2, <1>4, <1>5, <1>6, ResetKeepsIInv

-------------------------------------------------------------------------------
(* Steps of the requests.                                                  *)

\* selectFaults finds a scenario of the snapshot or a rule of the program.
LEMMA Selected ==
    ASSUME NEW rt \in Control!Runtimes, NEW path, NEW k \in selectFaults(rt, path)
    PROVE  k \in Keys /\ (k \in ScenarioKeys => k[2] \in ScenarioNames(rt))
  <1>1. rt.base \in Configs
    BY DEF Control!Runtimes
  <1>2. CASE \E i \in DOMAIN rt.base.scenarios : k = <<"scenario", rt.base.scenarios[i].name>>
    <2>1. PICK s \in Range(rt.base.scenarios) : k = <<"scenario", s.name>>
      BY <1>2 DEF Range
    <2>2. s.name \in Scenarios /\ s.name \in ScenarioNames(rt)
      BY <1>1, FilesAssumption DEF ScenarioNames
    <2>3. QED
      BY <2>1, <2>2 DEF Keys, ScenarioKeys
  <1>3. CASE \E i \in DOMAIN rt.base.order : k = <<"rule", rt.base.order[i]>>
    <2>1. PICK n \in Rules : k = <<"rule", n>>
      BY <1>1, <1>3, FilesAssumption
    <2>2. QED
      BY <2>1 DEF Keys, RuleKeys, ScenarioKeys
  <1>4. QED
    BY <1>2, <1>3 DEF selectFaults, First

\* A request arrives at a quiet time, and finds the counters that are in the map
\* in force.
LEMMA ArriveKeepsIInv ==
    ASSUME IInv, NEW r \in Requests, NEW path \in Paths, Arrive(r, path)
    PROVE  IInv'
  <1>1. PICK k \in selectFaults(current, path) :
           /\ Counters!nextIndex(r, k)
           /\ arrival' = [arrival EXCEPT ![r] =
                 [quiet |-> \A t \in Watchers : pc[t] # "published",
                  draws |-> Len(draws), floor |-> floor[k]]]
    BY DEF Arrive
  <1>2. /\ snapshot' = [snapshot EXCEPT ![r] = current]
        /\ UNCHANGED <<controlVars, played, changed, resetVars>>
    BY DEF Arrive
  <1>3. current \in Control!Runtimes
    BY PartsAreTyped DEF IInv, Control!TypeOK
  <1>4. k \in Keys /\ (k \in ScenarioKeys => k[2] \in ScenarioNames(current))
    BY <1>3, Selected
  <1>5. /\ at[r] = "idle" /\ at' = [at EXCEPT ![r] = "load"] /\ key' = [key EXCEPT ![r] = k]
        /\ UNCHANGED <<stored, counters, held, draws>>
    BY <1>1 DEF Counters!nextIndex
  <1>6. /\ at \in [Requests -> {"idle", "load", "store", "add"}]
        /\ key \in [Requests -> Keys \cup {None}]
        /\ snapshot \in [Requests -> Control!Runtimes \cup {None}]
        /\ arrival = [q \in Requests |-> arrival[q]]
    BY PartsAreTyped DEF IInv, Counters!TypeOK, TypesOfHistory
  <1>7. /\ at'[r] = "load" /\ key'[r] = k /\ snapshot'[r] = current
        /\ arrival'[r].quiet = (\A t \in Watchers : pc[t] # "published")
        /\ arrival'[r].draws = Len(draws) /\ arrival'[r].floor = floor[k]
    BY <1>1, <1>2, <1>5, <1>6
  <1>8. \A q \in Requests : q # r =>
           /\ at'[q] = at[q] /\ key'[q] = key[q]
           /\ snapshot'[q] = snapshot[q] /\ arrival'[q] = arrival[q]
    BY <1>1, <1>2, <1>5, <1>6
  <1>9. UNCHANGED <<played, changed, resetting, floor, resetFloor, current, pc>>
    BY <1>2 DEF controlVars, resetVars
  <1>10. Len(draws) \in Nat /\ floor[k] \in Nat
    BY <1>4, DrawsAndCounters DEF IInv, TypesOfResets
  <1>11. Writers!IInv' /\ Drawing!IInv'
    BY <1>1, <1>2, <1>4, WritersStutter, DrawingStep DEF IInv
  <1>12. TypesOfResets' /\ FloorsAreOld'
    BY <1>5, <1>9, FloorsFrame DEF IInv, TypesOfResets
  <1>13. DrawnInForce'
    BY <1>5, <1>9, DrawnFrame
  <1>14. QuietSequencesAreNotMixed'
    BY <1>5, <1>9 DEF IInv, QuietSequencesAreNotMixed, ScenarioDraws, SameSequence
  <1>15. TypesOfHistory'
    <2>1. snapshot' \in [Requests -> Control!Runtimes \cup {None}]
      BY <1>2, <1>3, <1>6
    <2>2. arrival' = [q \in Requests |-> arrival'[q]]
      BY <1>1, <1>6
    <2>3. QED
      BY <1>5, <1>9, <2>1, <2>2 DEF IInv, TypesOfHistory
  <1>16. TypesOfRequests'
    <2> SUFFICES ASSUME NEW q \in Requests
                 PROVE  IF at'[q] = "idle"
                        THEN snapshot'[q] = None /\ arrival'[q] = None
                        ELSE /\ snapshot'[q] \in Control!Runtimes
                             /\ key'[q] \in ScenarioKeys => key'[q][2] \in ScenarioNames(snapshot'[q])
                             /\ arrival'[q].draws \in Nat /\ arrival'[q].draws <= Len(draws)
                             /\ arrival'[q].floor \in Nat /\ arrival'[q].floor <= floor[key'[q]]
      BY <1>5, <1>9 DEF TypesOfRequests, ScenarioNames
    <2>1. CASE q = r
      BY <1>3, <1>4, <1>7, <1>10, <2>1
    <2>2. CASE q # r
      BY <1>8, <2>2 DEF IInv, TypesOfRequests
    <2>3. QED
      BY <2>1, <2>2
  <1>17. NoSequenceSurvivesReset'
    BY <1>5, <1>7, <1>8 DEF IInv, NoSequenceSurvivesReset
  <1>18. ArrivedInForce'
    <2> SUFFICES ASSUME NEW q \in Requests, NEW i \in DOMAIN draws,
                        at'[q] # "idle", key'[q] \in ScenarioKeys, arrival'[q].quiet,
                        i <= arrival'[q].draws, draws[i].key = key'[q], played[i].timely,
                        Reachable(q, draws[i].counter)'
                 PROVE  played[i].definition = Definition(snapshot'[q], key'[q][2])
      BY <1>5, <1>9 DEF ArrivedInForce, Definition, ScenarioNames, ScenarioOf, Reachable
    <2>1. CASE q = r
      <3>1. k \in stored /\ draws[i].counter = Len(counters[k])
        BY <1>5, <1>7, <2>1 DEF Reachable
      <3>2. DrawnFromStored(i)
        BY <1>7, <2>1, <3>1 DEF DrawnFromStored
      <3>3. played[i].definition = Definition(current, k[2])
        BY <1>7, <2>1, <3>2 DEF IInv, DrawnInForce
      <3>4. QED
        BY <1>7, <2>1, <3>3
    <2>2. CASE q # r
      <3>1. Reachable(q, draws[i].counter)
        BY <1>5, <1>8, <2>2 DEF Reachable
      <3>2. QED
        BY <1>8, <2>2, <3>1 DEF IInv, ArrivedInForce
    <2>3. QED
      BY <2>1, <2>2
  <1>19. QED
    BY <1>11, <1>12, <1>13, <1>14, <1>15, <1>16, <1>17, <1>18 DEF IInv

\* What a request does in nextIndex before it draws.
LEMMA LookupEffect ==
    ASSUME IInv, NEW r \in Requests, Lookup(r)
    PROVE  /\ at[r] \in {"load", "store"} /\ key[r] \in Keys
           /\ UNCHANGED <<controlVars, requestVars, changed, resetVars, key, draws>>
           /\ at'[r] \in {"store", "add"}
           /\ \A q \in Requests : q # r => at'[q] = at[q] /\ held'[q] = held[q]
           /\ \/ /\ UNCHANGED <<stored, counters>>
                 /\ at'[r] = "add" =>
                       key[r] \in stored /\ held'[r] = Len(counters[key[r]])
              \/ /\ key[r] \notin stored /\ stored' = stored \cup {key[r]}
                 /\ \A k \in Keys : k # key[r] => counters'[k] = counters[k]
                 /\ Len(counters'[key[r]]) = Len(counters[key[r]]) + 1
                 /\ held'[r] = Len(counters[key[r]]) + 1
  <1>1. /\ Counters!Load(r) \/ Counters!LoadOrStore(r)
        /\ UNCHANGED <<controlVars, requestVars, changed, resetVars>>
    BY DEF Lookup
  <1>2. /\ at \in [Requests -> {"idle", "load", "store", "add"}] /\ held \in [Requests -> Nat]
        /\ counters \in [Keys -> Seq(Nat)] /\ \A q \in Requests : at[q] # "idle" => key[q] \in Keys
    BY PartsAreTyped DEF IInv, Counters!TypeOK
  <1>3. at[r] \in {"load", "store"} /\ UNCHANGED <<key, draws>>
    BY <1>1 DEF Counters!Load, Counters!LoadOrStore
  <1>4. key[r] \in Keys
    BY <1>2, <1>3
  <1>5. CASE Counters!Load(r)
    BY <1>1, <1>2, <1>3, <1>4, <1>5 DEF Counters!Load
  <1>6. CASE Counters!LoadOrStore(r) /\ key[r] \in stored
    BY <1>1, <1>2, <1>3, <1>4, <1>6 DEF Counters!LoadOrStore
  <1>7. CASE Counters!LoadOrStore(r) /\ key[r] \notin stored
    <2>1. /\ stored' = stored \cup {key[r]}
          /\ counters' = [counters EXCEPT ![key[r]] = Append(@, 0)]
          /\ at' = [at EXCEPT ![r] = "add"] /\ held' = [held EXCEPT ![r] = Len(counters'[key[r]])]
      BY <1>7 DEF Counters!LoadOrStore
    <2>2. counters[key[r]] \in Seq(Nat)
      BY <1>2, <1>4
    <2>3. counters'[key[r]] = Append(counters[key[r]], 0)
      BY <1>2, <1>4, <2>1
    <2>4. Len(counters'[key[r]]) = Len(counters[key[r]]) + 1
      BY <2>2, <2>3
    <2>5. \A k \in Keys : k # key[r] => counters'[k] = counters[k]
      BY <1>2, <2>1
    <2>6. QED
      BY <1>1, <1>2, <1>3, <1>4, <1>7, <2>1, <2>4, <2>5
  <1>8. QED
    BY <1>1, <1>5, <1>6, <1>7

\* A request comes by the counter in the map, or makes one nobody has drawn from.
LEMMA LookupKeepsIInv ==
    ASSUME IInv, NEW r \in Requests, Lookup(r)
    PROVE  IInv'
  <1> DEFINE found == /\ UNCHANGED <<stored, counters>>
                      /\ at'[r] = "add" =>
                            key[r] \in stored /\ held'[r] = Len(counters[key[r]])
             made == /\ key[r] \notin stored /\ stored' = stored \cup {key[r]}
                     /\ \A k \in Keys : k # key[r] => counters'[k] = counters[k]
                     /\ Len(counters'[key[r]]) = Len(counters[key[r]]) + 1
                     /\ held'[r] = Len(counters[key[r]]) + 1
  <1>1. /\ at[r] \in {"load", "store"} /\ key[r] \in Keys
        /\ UNCHANGED <<controlVars, requestVars, changed, resetVars, key, draws>>
        /\ at'[r] \in {"store", "add"}
        /\ \A q \in Requests : q # r => at'[q] = at[q] /\ held'[q] = held[q]
        /\ found \/ made
    BY LookupEffect
  <1> HIDE DEF found, made
  <1>2. UNCHANGED <<snapshot, arrival, played, changed, resetting, floor, resetFloor, current, pc>>
    BY <1>1 DEF controlVars, requestVars, resetVars
  <1>3. Writers!IInv' /\ Drawing!IInv'
    BY <1>1, WritersStutter, DrawingStep DEF IInv, Lookup
  <1>4. TypesOfResets' /\ TypesOfHistory'
    BY <1>1, <1>2 DEF IInv, TypesOfResets, TypesOfHistory
  <1>5. QuietSequencesAreNotMixed'
    BY <1>1, <1>2 DEF IInv, QuietSequencesAreNotMixed, ScenarioDraws, SameSequence
  <1>6. TypesOfRequests'
    BY <1>1, <1>2 DEF IInv, TypesOfRequests, ScenarioNames
  <1>7. \A k \in Keys : floor[k] \in Nat /\ Len(counters[k]) \in Nat
    BY DrawsAndCounters DEF IInv, TypesOfResets
  <1>8. /\ arrival[r].floor \in Nat /\ arrival[r].floor <= floor[key[r]]
        /\ floor[key[r]] <= Len(counters[key[r]])
        /\ key[r] \in stored => floor[key[r]] < Len(counters[key[r]])
    BY <1>1 DEF IInv, TypesOfRequests, FloorsAreOld
  <1>9. NoSequenceSurvivesReset'
    <2>1. at'[r] = "add" => held'[r] > arrival[r].floor
      <3>1. CASE found
        BY <1>1, <1>7, <1>8, <3>1 DEF found
      <3>2. CASE made
        BY <1>1, <1>7, <1>8, <3>2 DEF made
      <3>3. QED
        BY <1>1, <3>1, <3>2
    <2>2. QED
      BY <1>1, <1>2, <2>1 DEF IInv, NoSequenceSurvivesReset
  <1>10. CASE found
    <2>1. FloorsAreOld' /\ DrawnInForce'
      BY <1>1, <1>2, <1>10, FloorsFrame, DrawnFrame DEF found
    <2>2. \A c : \A q \in Requests : Reachable(q, c)' => Reachable(q, c)
      BY <1>1, <1>10 DEF found, Reachable
    <2>3. ArrivedInForce'
      <3>1. \A q \in Requests : at'[q] # "idle" => at[q] # "idle"
        BY <1>1
      <3>2. QED
        BY <1>1, <1>2, <2>2, <3>1 DEF IInv, ArrivedInForce, Definition, ScenarioNames, ScenarioOf
    <2>4. QED
      BY <1>3, <1>4, <1>5, <1>6, <1>9, <2>1, <2>3 DEF IInv
  <1>11. CASE made
    <2>1. \A i \in DOMAIN draws :
             draws[i].key \in Keys /\ (draws[i].key = key[r] => draws[i].counter # Len(counters'[key[r]]))
      <3> SUFFICES ASSUME NEW i \in DOMAIN draws
                   PROVE  /\ draws[i].key \in Keys
                          /\ draws[i].key = key[r] => draws[i].counter # Len(counters'[key[r]])
        OBVIOUS
      <3>1. draws[i].key \in Keys /\ draws[i].counter \in Nat
            /\ draws[i].counter <= Len(counters[draws[i].key])
        BY DrawsAndCounters DEF IInv
      <3>2. QED
        BY <1>1, <1>7, <1>11, <3>1 DEF made
    <2>2. FloorsAreOld'
      <3>1. \A k \in Keys : /\ floor[k] <= Len(counters'[k])
                            /\ k \in stored' => floor[k] < Len(counters'[k])
        BY <1>7, <1>8, <1>11 DEF IInv, FloorsAreOld, made
      <3>2. ASSUME NEW p \in Resetters, NEW k \in Keys, resetting[p].kind = "all"
            PROVE  /\ resetFloor[p][k] <= Len(counters'[k])
                   /\ k \in RuleKeys \cap stored' => resetFloor[p][k] < Len(counters'[k])
        <4>1. /\ resetFloor[p][k] \in Nat /\ resetFloor[p][k] <= Len(counters[k])
              /\ k \in RuleKeys \cap stored => resetFloor[p][k] < Len(counters[k])
          BY <3>2 DEF IInv, FloorsAreOld, TypesOfResets
        <4>2. QED
          BY <1>7, <1>11, <4>1 DEF made
      <3>3. QED
        BY <1>2, <3>1, <3>2 DEF FloorsAreOld
    <2>3. \A i \in DOMAIN draws : DrawnFromStored(i)' => DrawnFromStored(i)
      BY <1>1, <1>2, <1>11, <2>1 DEF made, DrawnFromStored
    <2>4. DrawnInForce'
      BY <1>1, <1>2, <2>3 DEF IInv, DrawnInForce, Definition, ScenarioNames, ScenarioOf
    <2>5. \A q \in Requests, i \in DOMAIN draws :
             draws[i].key = key[q] /\ Reachable(q, draws[i].counter)' => Reachable(q, draws[i].counter)
      <3> SUFFICES ASSUME NEW q \in Requests, NEW i \in DOMAIN draws, draws[i].key = key[q],
                          Reachable(q, draws[i].counter)'
                   PROVE  Reachable(q, draws[i].counter)
        OBVIOUS
      <3>1. q # r
        BY <1>1, <1>11, <2>1 DEF made, Reachable
      <3>2. QED
        BY <1>1, <1>11, <2>1, <3>1 DEF made, Reachable
    <2>6. ArrivedInForce'
      <3>1. \A q \in Requests : at'[q] # "idle" => at[q] # "idle"
        BY <1>1
      <3>2. QED
        BY <1>1, <1>2, <2>5, <3>1 DEF IInv, ArrivedInForce, Definition, ScenarioNames, ScenarioOf
    <2>7. QED
      BY <1>3, <1>4, <1>5, <1>6, <1>9, <2>2, <2>4, <2>6 DEF IInv
  <1>12. QED
    BY <1>1, <1>10, <1>11

\* A record is appended to the history, whatever it is.
LEMMA AppendPlayed ==
    ASSUME NEW s, s \in Seq(Range(s)), NEW e
    PROVE  /\ Append(s, e) \in Seq(Range(Append(s, e)))
           /\ Len(Append(s, e)) = Len(s) + 1
           /\ Append(s, e)[Len(s) + 1] = e
           /\ \A i \in 1 .. Len(s) : Append(s, e)[i] = s[i]
  <1> DEFINE S == Range(s) \cup {e}
             t == Append(s, e)
  <1>1. s \in Seq(S) /\ e \in S
    OBVIOUS
  <1> HIDE DEF S
  <1>2. /\ t \in Seq(S) /\ Len(t) = Len(s) + 1 /\ t[Len(s) + 1] = e
        /\ \A i \in 1 .. Len(s) : t[i] = s[i]
    BY <1>1
  <1> HIDE DEF t
  <1>3. \A i \in 1 .. Len(t) : t[i] \in Range(t)
    BY <1>2 DEF Range
  <1>4. t \in Seq(Range(t))
    BY <1>2, <1>3
  <1>5. QED
    BY <1>2, <1>4 DEF t

\* What a draw adds to the history.
LEMMA PlayEffect ==
    ASSUME IInv, NEW r \in Requests, Play(r)
    PROVE  LET n == Len(draws) + 1
               d == draws'[n]
               p == played'[n]
           IN  /\ at[r] = "add" /\ key[r] \in Keys
               /\ UNCHANGED <<stored, controlVars, changed, resetVars>>
               /\ at'[r] = "idle" /\ snapshot'[r] = None /\ arrival'[r] = None
               /\ \A q \in Requests : q # r =>
                     /\ at'[q] = at[q] /\ key'[q] = key[q] /\ held'[q] = held[q]
                     /\ snapshot'[q] = snapshot[q] /\ arrival'[q] = arrival[q]
               /\ snapshot' \in [Requests -> Control!Runtimes \cup {None}]
               /\ arrival' = [q \in Requests |-> arrival'[q]]
               /\ \A k \in Keys : Len(counters'[k]) = Len(counters[k])
               /\ n \in Nat /\ DOMAIN draws' = DOMAIN draws \cup {n} /\ Len(draws') = n
               /\ \A i \in DOMAIN draws : draws'[i] = draws[i] /\ played'[i] = played[i] /\ i < n
               /\ d.key = key[r] /\ d.counter = held[r] /\ d.index \in Nat
               /\ played' \in Seq(Range(played')) /\ Len(played') = n
               /\ p.arrival = arrival[r]
               /\ p.timely => Definition(current, key[r][2]) = p.definition
               /\ key[r] \in ScenarioKeys =>
                     /\ p.definition = Definition(snapshot[r], key[r][2])
                     /\ Playable(p.definition)
                     /\ p.step = step(p.definition, d.index)
  <1> DEFINE n == Len(draws) + 1
             k == key[r]
             e == [key |-> k, counter |-> held[r], index |-> counters[k][held[r]],
                   since |-> since[r], until |-> restarts[k]]
             definition == IF k \in ScenarioKeys THEN Definition(snapshot[r], k[2]) ELSE None
             p == [definition |-> definition,
                   step       |-> IF definition = None THEN None
                                  ELSE step(definition, Last(draws').index),
                   timely     |-> k \in ScenarioKeys /\ Definition(current, k[2]) = definition,
                   arrival    |-> arrival[r]]
  <1>1. /\ Counters!Add(r) /\ played' = Append(played, p)
        /\ snapshot' = [snapshot EXCEPT ![r] = None] /\ arrival' = [arrival EXCEPT ![r] = None]
        /\ UNCHANGED <<controlVars, changed, resetVars>>
    BY DEF Play
  <1>2. Drawing!Add(r)
    BY <1>1 DEF Counters!Add, Drawing!Add
  <1>3. /\ k \in Keys /\ e \in Drawing!Draws /\ draws' = Append(draws, e)
        /\ \A m \in Keys : Len(counters'[m]) = Len(counters[m])
    BY <1>2, Drawing!AddEffect, PartsAreInstantiated DEF IInv
  <1>4. /\ at[r] = "add" /\ at' = [at EXCEPT ![r] = "idle"] /\ key' = [key EXCEPT ![r] = None]
        /\ held' = [held EXCEPT ![r] = 0] /\ UNCHANGED stored
    BY <1>1 DEF Counters!Add
  <1>5. /\ at \in [Requests -> {"idle", "load", "store", "add"}]
        /\ key \in [Requests -> Keys \cup {None}] /\ held \in [Requests -> Nat]
        /\ snapshot \in [Requests -> Control!Runtimes \cup {None}]
        /\ arrival = [q \in Requests |-> arrival[q]]
    BY PartsAreTyped DEF IInv, Counters!TypeOK, TypesOfHistory
  <1>6. /\ at'[r] = "idle" /\ snapshot'[r] = None /\ arrival'[r] = None
        /\ \A q \in Requests : q # r =>
              /\ at'[q] = at[q] /\ key'[q] = key[q] /\ held'[q] = held[q]
              /\ snapshot'[q] = snapshot[q] /\ arrival'[q] = arrival[q]
        /\ snapshot' \in [Requests -> Control!Runtimes \cup {None}]
        /\ arrival' = [q \in Requests |-> arrival'[q]]
    BY <1>1, <1>4, <1>5
  <1>7. draws \in Seq(Drawing!Draws) /\ e.index \in Nat
    BY <1>3 DEF IInv, Drawing!IInv, Drawing!TypeOK, Drawing!Draws
  <1> HIDE DEF e
  <1>8. /\ n \in Nat /\ DOMAIN draws' = DOMAIN draws \cup {n} /\ Len(draws') = n
        /\ draws'[n] = e /\ DOMAIN draws = 1 .. Len(draws)
        /\ \A i \in DOMAIN draws : draws'[i] = draws[i] /\ i < n
    BY <1>3, <1>7
  <1>9. played \in Seq(Range(played)) /\ Len(played) = Len(draws)
    BY DEF IInv, TypesOfHistory
  <1>10. Last(draws') = draws'[n]
    BY <1>8 DEF Last
  <1> HIDE DEF p
  <1>11. /\ played' \in Seq(Range(played')) /\ Len(played') = n /\ played'[n] = p
         /\ \A i \in DOMAIN draws : played'[i] = played[i]
    BY <1>1, <1>8, <1>9, AppendPlayed
  <1>12. /\ p.arrival = arrival[r]
         /\ p.timely => Definition(current, k[2]) = p.definition
    BY DEF p
  <1>13. k \in ScenarioKeys =>
            /\ p.definition = Definition(snapshot[r], k[2]) /\ Playable(p.definition)
            /\ p.step = step(p.definition, e.index)
    <2> SUFFICES ASSUME k \in ScenarioKeys
                 PROVE  /\ p.definition = Definition(snapshot[r], k[2]) /\ Playable(p.definition)
                        /\ p.step = step(p.definition, e.index)
      OBVIOUS
    <2>1. snapshot[r] \in Control!Runtimes /\ k[2] \in ScenarioNames(snapshot[r])
      BY <1>4 DEF IInv, TypesOfRequests
    <2>2. Playable(Definition(snapshot[r], k[2]))
      BY <2>1, Defined
    <2>3. p.definition = Definition(snapshot[r], k[2])
      BY DEF p
    <2>4. p.step = step(p.definition, e.index)
      BY <1>8, <1>10, <2>2, <2>3 DEF p, Playable
    <2>5. QED
      BY <2>2, <2>3, <2>4
  <1>14. e.key = k /\ e.counter = held[r]
    BY DEF e
  <1>15. /\ draws'[n].key = k /\ draws'[n].counter = held[r] /\ draws'[n].index \in Nat
         /\ played'[n].arrival = arrival[r]
         /\ played'[n].timely => Definition(current, k[2]) = played'[n].definition
    <2>1. draws'[n] = e /\ played'[n] = p
      BY <1>8, <1>11
    <2>2. QED
      BY <1>7, <1>12, <1>14, <2>1, Zenon
  <1>16. k \in ScenarioKeys =>
            /\ played'[n].definition = Definition(snapshot[r], k[2])
            /\ Playable(played'[n].definition)
            /\ played'[n].step = step(played'[n].definition, draws'[n].index)
    BY <1>8, <1>11, <1>13
  <1> HIDE DEF n
  <1>17. QED
    BY <1>1, <1>3, <1>4, <1>6, <1>8, <1>11, <1>15, <1>16, Zenon DEF n

\* A request draws from the counter it holds and plays what it captured.
LEMMA PlayKeepsIInv ==
    ASSUME IInv, NEW r \in Requests, Play(r)
    PROVE  IInv'
  <1> DEFINE n == Len(draws) + 1
             k == key[r]
  <1>1. /\ at[r] = "add" /\ k \in Keys
        /\ UNCHANGED <<stored, controlVars, changed, resetVars>>
        /\ at'[r] = "idle" /\ snapshot'[r] = None /\ arrival'[r] = None
        /\ \A q \in Requests : q # r =>
              /\ at'[q] = at[q] /\ key'[q] = key[q] /\ held'[q] = held[q]
              /\ snapshot'[q] = snapshot[q] /\ arrival'[q] = arrival[q]
        /\ snapshot' \in [Requests -> Control!Runtimes \cup {None}]
        /\ arrival' = [q \in Requests |-> arrival'[q]]
        /\ \A m \in Keys : Len(counters'[m]) = Len(counters[m])
    BY PlayEffect
  <1>2. /\ n \in Nat /\ DOMAIN draws' = DOMAIN draws \cup {n} /\ Len(draws') = n
        /\ \A i \in DOMAIN draws : draws'[i] = draws[i] /\ played'[i] = played[i] /\ i < n
        /\ played' \in Seq(Range(played')) /\ Len(played') = n
    BY PlayEffect
  <1>3. /\ draws'[n].key = k /\ draws'[n].counter = held[r] /\ draws'[n].index \in Nat
        /\ played'[n].arrival = arrival[r]
        /\ played'[n].timely => Definition(current, k[2]) = played'[n].definition
        /\ k \in ScenarioKeys =>
              /\ played'[n].definition = Definition(snapshot[r], k[2])
              /\ Playable(played'[n].definition)
              /\ played'[n].step = step(played'[n].definition, draws'[n].index)
    BY PlayEffect
  <1>4. /\ Len(draws) \in Nat /\ DOMAIN draws = 1 .. Len(draws)
        /\ \A i \in DOMAIN draws : i \in Nat /\ i <= Len(draws) /\ draws[i].key \in Keys
    BY DrawsAndCounters DEF IInv
  <1> HIDE DEF n
  <1>5. UNCHANGED <<changed, resetting, floor, resetFloor, current, pc>>
    BY <1>1 DEF controlVars, resetVars
  <1>6. Writers!IInv' /\ Drawing!IInv'
    BY <1>1, WritersStutter, DrawingStep DEF IInv, Play
  <1>7. TypesOfResets' /\ FloorsAreOld'
    BY <1>1, <1>5 DEF IInv, TypesOfResets, FloorsAreOld
  <1>8. /\ arrival[r].draws \in Nat /\ arrival[r].draws <= Len(draws)
    BY <1>1 DEF IInv, TypesOfRequests
  <1>9. TypesOfRequests'
    <2> SUFFICES ASSUME NEW q \in Requests, q # r, at[q] # "idle"
                 PROVE  arrival[q].draws <= Len(draws')
      BY <1>1, <1>5 DEF IInv, TypesOfRequests, ScenarioNames
    <2>1. arrival[q].draws \in Nat /\ arrival[q].draws <= Len(draws)
      BY DEF IInv, TypesOfRequests
    <2>2. QED
      BY <1>2, <1>4, <2>1 DEF n
  <1>10. TypesOfHistory'
    <2> SUFFICES ASSUME NEW j \in DOMAIN draws'
                 PROVE  /\ played'[j].arrival.draws \in Nat /\ played'[j].arrival.draws < j
                        /\ draws'[j].key \in ScenarioKeys =>
                              /\ Playable(played'[j].definition)
                              /\ played'[j].step = step(played'[j].definition, draws'[j].index)
      BY <1>1, <1>2 DEF TypesOfHistory
    <2>1. CASE j \in DOMAIN draws
      BY <1>2, <2>1 DEF IInv, TypesOfHistory
    <2>2. CASE j = n
      <3>1. arrival[r].draws < n
        BY <1>4, <1>8 DEF n
      <3>2. QED
        BY <1>3, <1>8, <2>2, <3>1
    <2>3. QED
      BY <1>2, <2>1, <2>2
  <1>11. NoSequenceSurvivesReset'
    BY <1>1 DEF IInv, NoSequenceSurvivesReset
  <1>12. DrawnInForce'
    <2> SUFFICES ASSUME NEW i \in DOMAIN draws', DrawnFromStored(i)'
                 PROVE  \/ played'[i].definition = Definition(current, draws'[i].key[2])
                        \/ \E t \in Watchers : pc[t] = "published" /\ draws'[i].key[2] \in changed[t]
      BY <1>5 DEF DrawnInForce, Definition, ScenarioNames, ScenarioOf
    <2>1. CASE i = n
      BY <1>3, <2>1 DEF DrawnFromStored
    <2>2. CASE i \in DOMAIN draws
      <3>1. DrawnFromStored(i)
        BY <1>1, <1>2, <1>4, <2>2 DEF DrawnFromStored
      <3>2. QED
        BY <1>2, <2>2, <3>1 DEF IInv, DrawnInForce
    <2>3. QED
      BY <1>2, <2>1, <2>2
  <1>13. ArrivedInForce'
    <2> SUFFICES ASSUME NEW q \in Requests, NEW i \in DOMAIN draws',
                        at'[q] # "idle", key'[q] \in ScenarioKeys, arrival'[q].quiet,
                        i <= arrival'[q].draws, draws'[i].key = key'[q], played'[i].timely,
                        Reachable(q, draws[i].counter)'
                 PROVE  played'[i].definition = Definition(snapshot'[q], key'[q][2])
      BY DEF ArrivedInForce, Definition, ScenarioNames, ScenarioOf, Reachable
    <2>1. q # r
      BY <1>1
    <2>2. arrival[q].draws \in Nat /\ arrival[q].draws <= Len(draws) /\ key[q] \in Keys
      BY <1>1, <2>1, Names DEF IInv, TypesOfRequests
    <2>3. i \in DOMAIN draws
      BY <1>1, <1>2, <1>4, <2>1, <2>2 DEF n
    <2>4. Reachable(q, draws[i].counter)
      BY <1>1, <1>2, <2>1, <2>2, <2>3 DEF Reachable
    <2>5. QED
      BY <1>1, <1>2, <2>1, <2>3, <2>4 DEF IInv, ArrivedInForce
  <1>14. QuietSequencesAreNotMixed'
    <2> SUFFICES ASSUME NEW j \in DOMAIN draws', NEW i \in DOMAIN draws',
                        draws'[j].key \in ScenarioKeys, draws'[i].key = draws'[j].key,
                        draws'[i].counter = draws'[j].counter, i <= played'[j].arrival.draws,
                        played'[i].timely, played'[j].arrival.quiet
                 PROVE  played'[i].definition = played'[j].definition
      BY DEF QuietSequencesAreNotMixed, ScenarioDraws, SameSequence
    <2>1. CASE j \in DOMAIN draws
      <3>1. played[j].arrival.draws \in Nat /\ played[j].arrival.draws < j
        BY <2>1 DEF IInv, TypesOfHistory
      <3>2. i \in DOMAIN draws
        BY <1>2, <1>4, <2>1, <3>1 DEF n
      <3>3. QED
        BY <1>2, <2>1, <3>2 DEF IInv, QuietSequencesAreNotMixed, ScenarioDraws, SameSequence
    <2>2. CASE j = n
      <3>1. i \in DOMAIN draws
        BY <1>2, <1>3, <1>4, <1>8, <2>2 DEF n
      <3>2. Reachable(r, draws[i].counter)
        BY <1>1, <1>2, <1>3, <2>2, <3>1 DEF Reachable
      <3>3. played[i].definition = Definition(snapshot[r], k[2])
        BY <1>1, <1>2, <1>3, <2>2, <3>1, <3>2 DEF IInv, ArrivedInForce
      <3>4. QED
        BY <1>2, <1>3, <2>2, <3>1, <3>3
    <2>3. QED
      BY <1>2, <2>1, <2>2
  <1>15. QED
    BY <1>6, <1>7, <1>9, <1>10, <1>11, <1>12, <1>13, <1>14 DEF IInv

-------------------------------------------------------------------------------
(* The invariant.                                                          *)

\* Nothing has been drawn, reset or reloaded at first.
LEMMA InitIInv == Init => IInv
  <1> SUFFICES ASSUME Init PROVE IInv
    OBVIOUS
  <1>1. Writers!IInv
    <2>1. Writers!Init
      BY DEF Init, Control!Init, Writers!Init, Control!compileRuntime, Writers!compileRuntime,
             Control!NoOverrides, Writers!NoOverrides, Control!Callers, Writers!Callers,
             Control!NoCall, Writers!NoCall
    <2>2. QED
      BY <2>1, Writers!InitIInv, PartsAreInstantiated
  <1>2. Drawing!IInv
    <2>1. Drawing!Init
      BY DEF Init, Counters!Init, Drawing!Init
    <2>2. QED
      BY <2>1, Drawing!InitIInv, PartsAreInstantiated
  <1>3. /\ stored = {} /\ counters = [k \in Keys |-> <<>>] /\ at = [r \in Requests |-> "idle"]
        /\ draws = <<>>
    BY DEF Init, Counters!Init
  <1>4. /\ snapshot = [r \in Requests |-> None] /\ arrival = [r \in Requests |-> None]
        /\ changed = [t \in Watchers |-> {}] /\ played = <<>>
        /\ resetting = [o \in Resetters |-> NoReset]
        /\ floor = [k \in Keys |-> 0] /\ resetFloor = [o \in Resetters |-> floor]
    BY DEF Init
  <1>5. TypesOfResets
    BY <1>4 DEF TypesOfResets, Resets, NoReset
  <1>6. TypesOfRequests /\ TypesOfHistory
    BY <1>3, <1>4 DEF TypesOfRequests, TypesOfHistory
  <1>7. FloorsAreOld
    BY <1>3, <1>4 DEF FloorsAreOld, NoReset
  <1>8. NoSequenceSurvivesReset /\ DrawnInForce /\ ArrivedInForce
    BY <1>3 DEF NoSequenceSurvivesReset, DrawnInForce, ArrivedInForce
  <1>9. QuietSequencesAreNotMixed
    BY <1>3 DEF QuietSequencesAreNotMixed, ScenarioDraws
  <1>10. QED
    BY <1>1, <1>2, <1>5, <1>6, <1>7, <1>8, <1>9 DEF IInv

\* Every step of a request, a writer and a reset keeps the invariant.
LEMMA NextKeepsIInv == IInv /\ [Next]_vars => IInv'
  <1> SUFFICES ASSUME IInv, [Next]_vars PROVE IInv'
    OBVIOUS
  <1>1. ASSUME NEW r \in Requests,
               (\E path \in Paths : Arrive(r, path)) \/ Lookup(r) \/ Play(r)
        PROVE  IInv'
    BY <1>1, ArriveKeepsIInv, LookupKeepsIInv, PlayKeepsIInv
  <1>2. ASSUME NEW t \in Watchers \cup Clients,
               Call(t) \/ Compile(t) \/ Publish(t) \/ Retry(t) \/ Return(t)
        PROVE  IInv'
    BY <1>2, WriterKeepsIInv, PublishKeepsIInv
  <1>3. ASSUME NEW t \in Watchers, RestartChanged(t) \/ FinishUpdate(t)
        PROVE  IInv'
    BY <1>3, RestartChangedKeepsIInv, WriterKeepsIInv
  <1>4. ASSUME NEW o \in Resetters,
               ResetRules(o) \/ ResetScenarios(o) \/ FindScenario(o) \/ DeleteScenario(o)
        PROVE  IInv'
    BY <1>4, ResetRulesKeepsIInv, ResetScenariosKeepsIInv, ResetScenarioKeepsIInv
  <1>5. CASE UNCHANGED vars
    <2>1. /\ UNCHANGED <<controlVars, counterVars, requestVars, changed, resetVars>>
          /\ UNCHANGED <<controlVars, requestVars, changed>> /\ UNCHANGED counterVars
      BY <1>5 DEF vars
    <2>2. UNCHANGED <<stored, counters, at, key, held, draws, snapshot, arrival, played, changed,
                      resetting, floor, resetFloor, current, pc>>
      BY <2>1 DEF controlVars, counterVars, requestVars, resetVars
    <2>3. TypesOfResets' /\ FloorsAreOld' /\ \A k \in Keys : floor[k] <= floor'[k]
      BY <2>2, FloorsFrame DEF IInv, TypesOfResets
    <2>4. QED
      <3>1. {} \in SUBSET Keys
        OBVIOUS
      <3>2. QED
        BY <2>1, <2>3, <3>1, ResetKeepsIInv
  <1>6. QED
    BY <1>1, <1>2, <1>3, <1>4, <1>5 DEF Next

\* The inductive invariant holds of every file, and of any number of requests,
\* callers and resets.
THEOREM InductiveInvariant == Spec => []IInv
  BY InitIInv, NextKeepsIInv, PTL DEF Spec

\* Every variable has its type, and a request finds its scenario in the snapshot it
\* captured.
THEOREM TypeCorrect == Spec => []TypeOK
  <1>1. IInv => TypeOK
    <2> SUFFICES ASSUME IInv PROVE TypeOK
      OBVIOUS
    <2>1. Control!TypeOK /\ Counters!TypeOK
      BY PartsAreTyped DEF IInv
    <2>2. DOMAIN played = DOMAIN draws
      <3>1. played \in Seq(Range(played)) /\ Len(played) = Len(draws)
        BY DEF IInv, TypesOfHistory
      <3>2. DOMAIN draws = 1 .. Len(draws)
        BY DrawsAndCounters DEF IInv
      <3>3. QED
        BY <3>1, <3>2
    <2>3. QED
      BY <2>1, <2>2 DEF IInv, TypeOK, TypesOfResets, TypesOfRequests
  <1>2. QED
    BY <1>1, InductiveInvariant, PTL

\* A request that arrives after a reset draws from a counter made since.
THEOREM ResetsEndSequences == Spec => []NoSequenceSurvivesReset
  <1>1. IInv => NoSequenceSurvivesReset
    BY DEF IInv
  <1>2. QED
    BY <1>1, InductiveInvariant, PTL

\* A request that arrives at a quiet time continues no sequence of an older
\* definition.
THEOREM QuietRequestsContinueTheirOwn == Spec => []QuietSequencesAreNotMixed
  <1>1. IInv => QuietSequencesAreNotMixed
    BY DEF IInv
  <1>2. QED
    BY <1>1, InductiveInvariant, PTL

-------------------------------------------------------------------------------
(* The steps that are played.                                              *)

\* Multiples of a divisor are at least as far apart as it is large.
LEMMA Multiples ==
    ASSUME NEW c \in Nat \ {0}, NEW m \in Int
    PROVE  /\ c * m \in Int
           /\ m >= 1 => c * m >= c
           /\ m <= -1 => c * m <= -c
           /\ m = 0 => c * m = 0
  OBVIOUS

\* Multiplication distributes over a difference.
LEMMA Distributes ==
    ASSUME NEW c \in Nat, NEW a \in Int, NEW b \in Int
    PROVE  c * (a - b) = c * a - c * b
  OBVIOUS

\* A number is its quotient times the divisor, and its rest.
LEMMA QuotientAndRest ==
    ASSUME NEW x \in Nat, NEW c \in Nat \ {0}
    PROVE  x = c * (x \div c) + (x % c) /\ x \div c \in Int /\ x % c \in 0 .. c - 1
  OBVIOUS

\* There is one quotient, and one rest.
LEMMA RestIsUnique ==
    ASSUME NEW c \in Nat \ {0}, NEW p \in Int, NEW q \in Int,
           NEW r \in 0 .. c - 1, NEW s \in 0 .. c - 1, c * p + r = c * q + s
    PROVE  r = s
  <1> DEFINE d == p - q
             m == c * d
  <1>1. m = s - r /\ d \in Int /\ s - r < c /\ s - r > -c
    BY Distributes
  <1>2. /\ m \in Int
        /\ d >= 1 => m >= c
        /\ d <= -1 => m <= -c
        /\ d = 0 => m = 0
    BY <1>1, Multiples
  <1> HIDE DEF d, m
  <1>3. d = 0
    BY <1>1, <1>2
  <1>4. QED
    BY <1>1, <1>2, <1>3

\* The rest goes up by one, and from the largest to none.
LEMMA NextRest ==
    ASSUME NEW x \in Nat, NEW c \in Nat \ {0}
    PROVE  (x + 1) % c = IF x % c = c - 1 THEN 0 ELSE (x % c) + 1
  <1> DEFINE p == x \div c
             r == x % c
             q == (x + 1) \div c
             s == (x + 1) % c
  <1>1. x = c * p + r /\ p \in Int /\ r \in 0 .. c - 1
    BY QuotientAndRest
  <1>2. x + 1 = c * q + s /\ q \in Int /\ s \in 0 .. c - 1
    BY QuotientAndRest
  <1>3. c * p \in Int /\ c * (p + 1) = c * p + c
    BY <1>1
  <1> HIDE DEF p, q, r, s
  <1>4. CASE r = c - 1
    <2>1. c * (p + 1) + 0 = c * q + s
      BY <1>1, <1>2, <1>3, <1>4
    <2>2. s = 0
      BY <1>1, <1>2, <2>1, RestIsUnique
    <2>3. QED
      BY <1>4, <2>2 DEF r, s
  <1>5. CASE r # c - 1
    <2>1. c * p + (r + 1) = c * q + s /\ r + 1 \in 0 .. c - 1
      BY <1>1, <1>2, <1>3, <1>5
    <2>2. s = r + 1
      BY <1>1, <1>2, <2>1, RestIsUnique
    <2>3. QED
      BY <1>5, <2>2 DEF r, s
  <1>6. QED
    BY <1>4, <1>5

\* What is smaller than the divisor is its own rest, and the divisor has none.
LEMMA SmallRest ==
    ASSUME NEW c \in Nat \ {0}
    PROVE  (\A x \in 0 .. c - 1 : x % c = x) /\ c % c = 0
  <1>1. ASSUME NEW x \in 0 .. c - 1 PROVE x % c = x
    <2>1. x = c * (x \div c) + (x % c) /\ x \div c \in Int /\ x % c \in 0 .. c - 1
      BY QuotientAndRest
    <2>2. c * 0 + x = c * (x \div c) + (x % c)
      BY <2>1
    <2>3. QED
      BY <2>1, <2>2, RestIsUnique
  <1>2. (c - 1) % c = c - 1
    BY <1>1
  <1>3. ((c - 1) + 1) % c = 0
    BY <1>2, NextRest
  <1>4. QED
    BY <1>1, <1>3

\* The steps at two positions that follow each other.
StepAfter(definition, before, after) ==
    LET count == Len(definition.steps)
    IN  \/ before \in 0 .. count - 2 /\ after = before + 1
        \/ /\ before = count - 1
           /\ after = CASE definition.onExhausted = "repeat" -> 0
                        [] definition.onExhausted = "last" -> count - 1
                        [] definition.onExhausted = "passthrough" -> None
        \/ before = None /\ after = None

\* What step returns for an index and for the next one.
LEMMA StepsOfDefinition ==
    ASSUME NEW definition, Playable(definition), NEW x \in Nat
    PROVE  /\ step(definition, x) \in 0 .. Len(definition.steps) - 1 \cup {None}
           /\ step(definition, 0) = 0
           /\ StepAfter(definition, step(definition, x), step(definition, x + 1))
  <1> DEFINE c == Len(definition.steps)
             mode == definition.onExhausted
  <1>1. c \in Nat \ {0} /\ mode \in {"repeat", "last", "passthrough"}
    BY DEF Playable
  <1>2. \A y \in Nat : step(definition, y) =
           IF y < c THEN y
           ELSE IF mode = "repeat" THEN y % c
           ELSE IF mode = "last" THEN c - 1 ELSE None
    BY <1>1 DEF step
  <1> HIDE DEF c, mode
  <1>3. x % c \in 0 .. c - 1
    BY <1>1, QuotientAndRest
  <1>4. step(definition, 0) = 0
    BY <1>1, <1>2
  <1>5. step(definition, x) \in 0 .. c - 1 \cup {None}
    BY <1>1, <1>2, <1>3
  <1>6. CASE x + 1 < c
    <2>1. step(definition, x) = x /\ step(definition, x + 1) = x + 1
      BY <1>1, <1>2, <1>6
    <2>2. x \in 0 .. c - 2
      BY <1>1, <1>6
    <2>3. QED
      BY <1>4, <1>5, <2>1, <2>2 DEF StepAfter, c, mode
  <1>7. CASE x = c - 1
    <2>1. step(definition, x) = c - 1
      BY <1>1, <1>2, <1>7
    <2>2. step(definition, x + 1) = IF mode = "repeat" THEN 0
                                    ELSE IF mode = "last" THEN c - 1 ELSE None
      <3>1. x + 1 = c /\ c % c = 0
        BY <1>1, <1>7, SmallRest
      <3>2. QED
        BY <1>1, <1>2, <3>1
    <2>3. QED
      BY <1>1, <1>4, <1>5, <2>1, <2>2 DEF StepAfter, c, mode
  <1>8. CASE x >= c
    <2>1. CASE mode = "repeat"
      <3>1. step(definition, x) = x % c /\ step(definition, x + 1) = (x + 1) % c
        BY <1>1, <1>2, <1>8, <2>1
      <3>2. (x + 1) % c = IF x % c = c - 1 THEN 0 ELSE (x % c) + 1
        BY <1>1, NextRest
      <3>3. x % c = c - 1 \/ x % c \in 0 .. c - 2
        BY <1>1, <1>3
      <3>4. QED
        BY <1>1, <1>4, <1>5, <2>1, <3>1, <3>2, <3>3 DEF StepAfter, c, mode
    <2>2. CASE mode = "last"
      <3>1. step(definition, x) = c - 1 /\ step(definition, x + 1) = c - 1
        BY <1>1, <1>2, <1>8, <2>2
      <3>2. QED
        BY <1>1, <1>4, <1>5, <2>2, <3>1 DEF StepAfter, c, mode
    <2>3. CASE mode = "passthrough"
      <3>1. step(definition, x) = None /\ step(definition, x + 1) = None
        BY <1>1, <1>2, <1>8, <2>3
      <3>2. QED
        BY <1>4, <1>5, <3>1 DEF StepAfter, c, mode
    <2>4. QED
      BY <1>1, <2>1, <2>2, <2>3
  <1>9. QED
    BY <1>1, <1>6, <1>7, <1>8 DEF c

\* A request that draws after another one plays the step after the other's, and then
\* what on_exhausted says, for sequences of any length.
THEOREM StepsAlwaysFollow == Spec => []StepsFollowEachOther
  <1>1. IInv => StepsFollowEachOther
    <2> SUFFICES ASSUME IInv, NEW j \in ScenarioDraws
                 PROVE  LET d == played[j].definition
                        IN  /\ played[j].step \in 0 .. Len(d.steps) - 1 \cup {None}
                            /\ draws[j].index = 0 => played[j].step = 0
                            /\ \A i \in SameSequence(j) :
                                  draws[j].index = draws[i].index + 1 /\ played[i].definition = d
                                  => StepAfter(d, played[i].step, played[j].step)
      BY DEF StepsFollowEachOther, StepAfter
    <2> DEFINE d == played[j].definition
    <2>1. \A i \in DOMAIN draws : draws[i].index \in Nat
      BY DrawsAndCounters DEF IInv
    <2>2. \A i \in SameSequence(j) \cup {j} :
             /\ i \in DOMAIN draws /\ draws[i].key \in ScenarioKeys
             /\ Playable(played[i].definition)
             /\ played[i].step = step(played[i].definition, draws[i].index)
      BY DEF IInv, TypesOfHistory, SameSequence, ScenarioDraws
    <2>3. /\ Playable(d) /\ draws[j].index \in Nat /\ played[j].step = step(d, draws[j].index)
      BY <2>1, <2>2
    <2>4. played[j].step \in 0 .. Len(d.steps) - 1 \cup {None}
      BY <2>3, StepsOfDefinition
    <2>5. draws[j].index = 0 => played[j].step = 0
      BY <2>3, StepsOfDefinition
    <2>6. ASSUME NEW i \in SameSequence(j), draws[j].index = draws[i].index + 1,
                 played[i].definition = d
          PROVE  StepAfter(d, played[i].step, played[j].step)
      <3>1. draws[i].index \in Nat /\ played[i].step = step(d, draws[i].index)
        BY <2>1, <2>2, <2>6
      <3>2. StepAfter(d, step(d, draws[i].index), step(d, draws[i].index + 1))
        BY <2>3, <3>1, StepsOfDefinition
      <3>3. QED
        BY <2>3, <2>6, <3>1, <3>2
    <2>7. QED
      BY <2>4, <2>5, <2>6
  <1>2. QED
    BY <1>1, InductiveInvariant, PTL

===============================================================================
