------------------------ MODULE RuntimeControl_proofs ------------------------
(***************************************************************************)
(* Proofs about RuntimeControl, for any rules, configurations and callers. *)
(*                                                                         *)
(* The inductive invariant says what a caller between its load and its     *)
(* CompareAndSwap may rely on: the snapshot it publishes is computed from  *)
(* the one it replaces, and of a configuration that compiles.              *)
(***************************************************************************)
EXTENDS RuntimeControl, TLAPS

\* What a caller at a given step is doing.
CallOfStep ==
    \A t \in Callers :
        /\ pc[t] = "idle" <=> op[t] = NoCall
        /\ op[t] # NoCall => op[t] \in CallsOf(t)
        /\ pc[t] = "swap" => loaded[t] \in Runtimes
        /\ pc[t] = "published" => op[t].kind = "update"
        /\ pc[t] = "swap" /\ op[t].kind = "update" => op[t].base.compiles
        /\ pc[t] = "swap" /\ op[t].kind = "toggle" =>
              op[t].rule \in DOMAIN loaded[t].base.enabled

IInv ==
    /\ TypeOK
    /\ CallOfStep
    /\ OverridesContradictFile
    /\ ActiveConfigCompiles
    /\ SwapsWhatItRead

-------------------------------------------------------------------------------
(* Kinds of calls.                                                         *)

\* A call is none, an update or a toggle, and its fields have their types.
LEMMA CallKinds ==
    ASSUME NEW o \in {NoCall} \cup Updates \cup Toggles
    PROVE  /\ o = NoCall <=> o.kind = "none"
           /\ o \in Updates <=> o.kind = "update"
           /\ o \in Toggles <=> o.kind = "toggle"
           /\ o.kind = "update" => o.base \in Configs
           /\ o.kind = "toggle" => o.rule \in Rules /\ o.enabled \in BOOLEAN
  BY DEF NoCall, Updates, Toggles

\* A partial map of switches is a function from a set of rules to BOOLEAN.
LEMMA OverridesAreFunctions ==
    ASSUME NEW f
    PROVE  f \in Overrides <=>
              /\ f = [n \in DOMAIN f |-> f[n]]
              /\ DOMAIN f \subseteq Rules
              /\ \A n \in DOMAIN f : f[n] \in BOOLEAN
  <1>1. ASSUME f \in Overrides
        PROVE  /\ f = [n \in DOMAIN f |-> f[n]]
               /\ DOMAIN f \subseteq Rules
               /\ \A n \in DOMAIN f : f[n] \in BOOLEAN
    <2>1. PICK names \in SUBSET Rules : f \in [names -> BOOLEAN]
      BY <1>1 DEF Overrides
    <2>2. QED
      BY <2>1
  <1>2. ASSUME f = [n \in DOMAIN f |-> f[n]],
               DOMAIN f \subseteq Rules,
               \A n \in DOMAIN f : f[n] \in BOOLEAN
        PROVE  f \in Overrides
    <2>1. f \in [DOMAIN f -> BOOLEAN]
      BY <1>2
    <2>2. QED
      BY <1>2, <2>1 DEF Overrides
  <1>3. QED
    BY <1>1, <1>2

-------------------------------------------------------------------------------
(* The overrides of the snapshots the two loops compile.                   *)

Contradicts(overrides, base) ==
    \A n \in DOMAIN overrides :
        n \in DOMAIN base.enabled /\ overrides[n] # base.enabled[n]

\* keptOverrides keeps only overrides that contradict the new file, if those
\* it is given contradict the old one.
LEMMA KeptOverrides ==
    ASSUME NEW rt \in Runtimes, NEW base \in Configs,
           Contradicts(rt.overrides, rt.base)
    PROVE  /\ keptOverrides(rt, base) \in Overrides
           /\ Contradicts(keptOverrides(rt, base), base)
  <1>1. rt.overrides \in Overrides /\ rt.base \in Configs
    BY DEF Runtimes
  <1>2. /\ rt.base.enabled \in Overrides
        /\ base.enabled \in Overrides
    BY <1>1, ConfigsAssumption
  <1>3. keptOverrides(rt, base) \in Overrides
    BY <1>1, OverridesAreFunctions DEF keptOverrides, Restrict
  <1>4. Contradicts(keptOverrides(rt, base), base)
    <2>1. SUFFICES ASSUME NEW n \in DOMAIN keptOverrides(rt, base)
                   PROVE  /\ n \in DOMAIN base.enabled
                          /\ keptOverrides(rt, base)[n] # base.enabled[n]
      BY DEF Contradicts
    <2>2. /\ n \in DOMAIN rt.overrides
          /\ n \in DOMAIN base.enabled
          /\ base.enabled[n] = ruleEnabled(rt.base, n)
          /\ keptOverrides(rt, base)[n] = rt.overrides[n]
      BY <2>1 DEF keptOverrides, Restrict
    <2>3. n \in DOMAIN rt.base.enabled /\ rt.overrides[n] # rt.base.enabled[n]
      BY <2>2 DEF Contradicts
    <2>4. rt.base.enabled[n] \in BOOLEAN
      BY <1>2, <2>3, OverridesAreFunctions
    <2>5. base.enabled[n] = rt.base.enabled[n]
      BY <2>2, <2>3, <2>4, Zenon DEF ruleEnabled
    <2>6. QED
      BY <2>2, <2>3, <2>5
  <1>5. QED
    BY <1>3, <1>4

\* SetRuleEnabled stores an override only when it contradicts the file.
LEMMA ToggledOverridesContradict ==
    ASSUME NEW rt \in Runtimes, NEW n \in Rules, NEW enabled \in BOOLEAN,
           n \in DOMAIN rt.base.enabled,
           Contradicts(rt.overrides, rt.base)
    PROVE  /\ ToggledOverrides(rt, n, enabled) \in Overrides
           /\ Contradicts(ToggledOverrides(rt, n, enabled), rt.base)
  <1>1. rt.overrides \in Overrides /\ rt.base \in Configs
    BY DEF Runtimes
  <1>2. /\ DOMAIN rt.overrides \subseteq Rules
        /\ \A m \in DOMAIN rt.overrides : rt.overrides[m] \in BOOLEAN
    BY <1>1, OverridesAreFunctions
  <1>3. CASE enabled = rt.base.enabled[n]
    <2>1. ToggledOverrides(rt, n, enabled)
             = [m \in DOMAIN rt.overrides \ {n} |-> rt.overrides[m]]
      BY <1>3 DEF ToggledOverrides, Restrict
    <2>2. QED
      BY <1>2, <2>1, OverridesAreFunctions DEF Contradicts
  <1>4. CASE enabled # rt.base.enabled[n]
    <2>1. ToggledOverrides(rt, n, enabled)
             = [m \in DOMAIN rt.overrides \cup {n} |->
                   IF m = n THEN enabled ELSE rt.overrides[m]]
      BY <1>4 DEF ToggledOverrides
    <2>2. QED
      BY <1>2, <1>4, <2>1, OverridesAreFunctions DEF Contradicts
  <1>5. QED
    BY <1>3, <1>4

\* What a caller publishes is a snapshot whose overrides contradict its file.
LEMMA NextRuntimeIsConsistent ==
    ASSUME IInv, NEW t \in Callers, pc[t] = "swap", t \notin replaced
    PROVE  /\ NextRuntime(t) \in Runtimes
           /\ Contradicts(NextRuntime(t).overrides, NextRuntime(t).base)
           /\ NextRuntime(t).base.compiles
           /\ loaded[t] = current
  <1>1. loaded[t] = current /\ current \in Runtimes /\ current.base.compiles
    BY DEF IInv, TypeOK, SwapsWhatItRead, ActiveConfigCompiles
  <1>2. Contradicts(current.overrides, current.base)
    BY DEF IInv, OverridesContradictFile, Contradicts
  <1>3. op[t] \in {NoCall} \cup Updates \cup Toggles /\ op[t] # NoCall
    BY DEF IInv, TypeOK, CallOfStep
  <1>4. CASE op[t].kind = "update"
    <2>1. op[t].base \in Configs /\ op[t].base.compiles
      BY <1>3, <1>4, CallKinds DEF IInv, CallOfStep
    <2>2. NextRuntime(t)
             = [base |-> op[t].base, overrides |-> keptOverrides(current, op[t].base)]
      BY <1>1, <1>4 DEF NextRuntime, compileRuntime
    <2>3. QED
      BY <1>1, <1>2, <2>1, <2>2, KeptOverrides DEF Runtimes
  <1>5. CASE op[t].kind # "update"
    <2>1. op[t].kind = "toggle" /\ op[t].rule \in Rules /\ op[t].enabled \in BOOLEAN
      BY <1>3, <1>5, CallKinds
    <2>2. op[t].rule \in DOMAIN current.base.enabled
      BY <1>1, <2>1 DEF IInv, CallOfStep
    <2>3. NextRuntime(t)
             = [base |-> current.base,
                overrides |-> ToggledOverrides(current, op[t].rule, op[t].enabled)]
      BY <1>1, <1>5 DEF NextRuntime, compileRuntime
    <2>4. QED
      BY <1>1, <1>2, <2>1, <2>2, <2>3, ToggledOverridesContradict DEF Runtimes
  <1>6. QED
    BY <1>1, <1>4, <1>5

-------------------------------------------------------------------------------
(* The inductive invariant.                                                *)

\* The configuration NewHandler compiled establishes the invariant.
LEMMA InitIInv == Init => IInv
  <1> SUFFICES ASSUME Init PROVE IInv
    OBVIOUS
  <1>1. PICK c \in Configs : c.compiles /\ current = compileRuntime(c, NoOverrides)
    BY DEF Init
  <1>2. NoOverrides \in Overrides /\ DOMAIN NoOverrides = {}
    BY OverridesAreFunctions DEF NoOverrides
  <1>3. /\ current \in Runtimes
        /\ current.base.compiles
        /\ DOMAIN current.overrides = {}
    BY <1>1, <1>2 DEF compileRuntime, Runtimes
  <1>4. QED
    BY <1>3 DEF Init, IInv, TypeOK, CallOfStep, OverridesContradictFile,
                ActiveConfigCompiles, SwapsWhatItRead, Steps, NoCall

\* A call that begins relies on nothing yet.
LEMMA CallPreserves ==
    ASSUME IInv, NEW t \in Callers, Call(t)
    PROVE  IInv'
  <1>1. PICK o \in CallsOf(t) : op' = [op EXCEPT ![t] = o]
    BY DEF Call
  <1>2. /\ o \in {NoCall} \cup Updates \cup Toggles
        /\ o # NoCall
    BY <1>1, CallKinds DEF CallsOf, NoCall, Updates, Toggles
  <1>3. /\ pc \in [Callers -> Steps] /\ pc[t] = "idle" /\ pc' = [pc EXCEPT ![t] = "load"]
        /\ op \in [Callers -> {NoCall} \cup Updates \cup Toggles]
        /\ UNCHANGED <<current, loaded, replaced>>
    BY DEF Call, IInv, TypeOK
  <1>4. TypeOK'
    BY <1>1, <1>2, <1>3 DEF IInv, TypeOK, Steps
  <1>5. CallOfStep'
    BY <1>1, <1>2, <1>3 DEF IInv, CallOfStep, CallsOf
  <1>6. /\ OverridesContradictFile'
        /\ ActiveConfigCompiles'
        /\ SwapsWhatItRead'
    BY <1>1, <1>3 DEF IInv, OverridesContradictFile, ActiveConfigCompiles, SwapsWhatItRead
  <1>7. QED
    BY <1>4, <1>5, <1>6 DEF IInv

\* The loop of a call reads the pointer: what it then relies on holds.
LEMMA LoadPreserves ==
    ASSUME IInv, NEW t \in Callers, pc[t] = "load", LoadAndCompile(t),
           op[t].kind = "update" => op[t].base.compiles,
           op[t].kind = "toggle" => op[t].rule \in DOMAIN current.base.enabled
    PROVE  IInv'
  <1>1. /\ pc \in [Callers -> Steps]
        /\ loaded \in [Callers -> Runtimes \cup {None}]
        /\ current \in Runtimes
        /\ replaced \subseteq Callers
        /\ pc' = [pc EXCEPT ![t] = "swap"]
        /\ loaded' = [loaded EXCEPT ![t] = current]
        /\ replaced' = replaced \ {t}
        /\ UNCHANGED <<current, op>>
    BY DEF LoadAndCompile, IInv, TypeOK
  <1>2. TypeOK'
    BY <1>1 DEF IInv, TypeOK, Steps
  <1>3. CallOfStep'
    BY <1>1 DEF IInv, CallOfStep, CallsOf
  <1>4. OverridesContradictFile' /\ ActiveConfigCompiles'
    BY <1>1 DEF IInv, OverridesContradictFile, ActiveConfigCompiles
  <1>5. SwapsWhatItRead'
    BY <1>1 DEF IInv, SwapsWhatItRead
  <1>6. QED
    BY <1>2, <1>3, <1>4, <1>5 DEF IInv

\* The loop of a call gives up.
LEMMA FailPreserves ==
    ASSUME IInv, NEW t \in Callers, pc[t] = "load",
           NEW reply \in {"rejected", "not_found"}, FailWith(t, reply),
           reply = "rejected" => op[t].kind = "update"
    PROVE  IInv'
  <1>1. /\ pc \in [Callers -> Steps]
        /\ pc' = [pc EXCEPT ![t] = reply]
        /\ UNCHANGED <<current, op, loaded, replaced>>
    BY DEF FailWith, IInv, TypeOK
  <1>2. QED
    BY <1>1 DEF IInv, TypeOK, Steps, CallOfStep, CallsOf, OverridesContradictFile,
                ActiveConfigCompiles, SwapsWhatItRead

\* A snapshot is published: every other caller in its loop is told to retry.
LEMMA SwapPreserves ==
    ASSUME IInv, NEW t \in Callers, CompareAndSwap(t)
    PROVE  IInv'
  <1>1. /\ pc \in [Callers -> Steps]
        /\ pc[t] = "swap" /\ t \notin replaced
        /\ current' = NextRuntime(t)
        /\ replaced' = {u \in Callers : pc[u] = "swap"} \ {t}
        /\ pc' = [pc EXCEPT ![t] = IF op[t].kind = "update" THEN "published" ELSE "ok"]
        /\ UNCHANGED <<op, loaded>>
    BY DEF CompareAndSwap, IInv, TypeOK
  <1>2. /\ current' \in Runtimes
        /\ Contradicts(current'.overrides, current'.base)
        /\ current'.base.compiles
    BY <1>1, NextRuntimeIsConsistent
  <1>3. TypeOK'
    BY <1>1, <1>2 DEF IInv, TypeOK, Steps
  <1>4. CallOfStep'
    BY <1>1 DEF IInv, CallOfStep, CallsOf
  <1>5. OverridesContradictFile'
    BY <1>2 DEF OverridesContradictFile, Contradicts
  <1>6. ActiveConfigCompiles'
    BY <1>1, <1>2 DEF IInv, ActiveConfigCompiles
  <1>7. SwapsWhatItRead'
    BY <1>1 DEF SwapsWhatItRead
  <1>8. QED
    BY <1>3, <1>4, <1>5, <1>6, <1>7 DEF IInv

\* A failed swap forgets what was loaded.
LEMMA RetryPreserves ==
    ASSUME IInv, NEW t \in Callers, CompareAndSwapFails(t)
    PROVE  IInv'
  BY DEF CompareAndSwapFails, IInv, TypeOK, Steps, CallOfStep, CallsOf,
         OverridesContradictFile, ActiveConfigCompiles, SwapsWhatItRead

\* The end of Update changes no snapshot.
LEMMA FinishPreserves ==
    ASSUME IInv, NEW t \in Callers, FinishUpdate(t)
    PROVE  IInv'
  BY DEF FinishUpdate, IInv, TypeOK, Steps, CallOfStep, CallsOf,
         OverridesContradictFile, ActiveConfigCompiles, SwapsWhatItRead

\* A call that returns leaves nothing behind.
LEMMA ReturnPreserves ==
    ASSUME IInv, NEW t \in Callers, Return(t)
    PROVE  IInv'
  BY DEF Return, IInv, TypeOK, Steps, CallOfStep, CallsOf,
         OverridesContradictFile, ActiveConfigCompiles, SwapsWhatItRead

\* Every step of every caller preserves the invariant.
LEMMA NextPreserves == IInv /\ [Next]_controlVars => IInv'
  <1> SUFFICES ASSUME IInv, [Next]_controlVars PROVE IInv'
    OBVIOUS
  <1>1. ASSUME NEW t \in Callers, Call(t) PROVE IInv'
    BY <1>1, CallPreserves
  <1>2. ASSUME NEW t \in Callers, Update(t) PROVE IInv'
    <2>1. CASE op[t].base.compiles
      BY <1>2, <2>1, LoadPreserves DEF Update
    <2>2. CASE ~op[t].base.compiles
      BY <1>2, <2>2, FailPreserves DEF Update
    <2>3. QED
      BY <2>1, <2>2
  <1>3. ASSUME NEW t \in Callers, SetRuleEnabled(t) PROVE IInv'
    <2>1. CASE op[t].rule \notin DOMAIN current.base.enabled
      BY <1>3, <2>1, FailPreserves DEF SetRuleEnabled
    <2>2. CASE op[t].rule \in DOMAIN current.base.enabled
      <3>1. LoadAndCompile(t)
        BY <1>3, <2>2 DEF SetRuleEnabled, IInv, ActiveConfigCompiles
      <3>2. QED
        BY <1>3, <2>2, <3>1, LoadPreserves DEF SetRuleEnabled
    <2>3. QED
      BY <2>1, <2>2
  <1>4. ASSUME NEW t \in Callers, CompareAndSwap(t) PROVE IInv'
    BY <1>4, SwapPreserves
  <1>5. ASSUME NEW t \in Callers, CompareAndSwapFails(t) PROVE IInv'
    BY <1>5, RetryPreserves
  <1>6. ASSUME NEW t \in Callers, FinishUpdate(t) PROVE IInv'
    BY <1>6, FinishPreserves
  <1>7. ASSUME NEW t \in Callers, Return(t) PROVE IInv'
    BY <1>7, ReturnPreserves
  <1>8. CASE UNCHANGED controlVars
    BY <1>8 DEF controlVars, IInv, TypeOK, CallOfStep, OverridesContradictFile,
                ActiveConfigCompiles, SwapsWhatItRead
  <1>9. QED
    BY <1>1, <1>2, <1>3, <1>4, <1>5, <1>6, <1>7, <1>8 DEF Next, Step

\* The inductive invariant holds of the two writers, however many callers
\* run them and whatever the files say.
THEOREM Invariance == Spec => []IInv
  BY InitIInv, NextPreserves, PTL DEF Spec

\* Every variable has its type in every reachable state.
THEOREM TypeCorrect == Spec => []TypeOK
  BY Invariance, PTL DEF IInv

\* Overrides are neither redundant nor dangling, under any interleaving of
\* reloads and toggles (runtime_control.go:171 and :199).
THEOREM OverridesAlwaysContradictFile == Spec => []OverridesContradictFile
  BY Invariance, PTL DEF IInv

\* The last valid configuration stays active, and no toggle fails to compile.
THEOREM ActiveConfigAlwaysCompiles == Spec => []ActiveConfigCompiles
  BY Invariance, PTL DEF IInv

\* No update is lost: what is published was computed from what it replaces.
THEOREM NoLostUpdate == Spec => []SwapsWhatItRead
  BY Invariance, PTL DEF IInv

-------------------------------------------------------------------------------
(* The switches in force.                                                  *)

\* The switches of a snapshot.
LEMMA EffectiveOfRule ==
    ASSUME NEW rt, NEW n \in DOMAIN rt.base.enabled
    PROVE  Effective(rt)[n] = IF n \in DOMAIN rt.overrides
                              THEN rt.overrides[n] ELSE rt.base.enabled[n]
  BY DEF Effective

\* A reload keeps the switches of the rules whose value the file leaves alone
\* and takes the others from the file.
LEMMA ReloadedSwitches ==
    ASSUME NEW rt \in Runtimes, NEW base \in Configs,
           Contradicts(rt.overrides, rt.base)
    PROVE  Effective(compileRuntime(base, keptOverrides(rt, base)))
              = [n \in DOMAIN base.enabled |->
                    IF n \in DOMAIN rt.base.enabled /\ base.enabled[n] = rt.base.enabled[n]
                    THEN Effective(rt)[n]
                    ELSE base.enabled[n]]
  <1> DEFINE kept == keptOverrides(rt, base)
  <1>1. /\ rt.base.enabled \in Overrides
        /\ base.enabled \in Overrides
    BY ConfigsAssumption DEF Runtimes
  <1>2. SUFFICES ASSUME NEW n \in DOMAIN base.enabled
                 PROVE  (IF n \in DOMAIN kept THEN kept[n] ELSE base.enabled[n])
                         = IF n \in DOMAIN rt.base.enabled /\ base.enabled[n] = rt.base.enabled[n]
                           THEN Effective(rt)[n]
                           ELSE base.enabled[n]
    BY DEF Effective, compileRuntime
  <1>3. n \in DOMAIN kept <=> /\ n \in DOMAIN rt.overrides
                              /\ base.enabled[n] = ruleEnabled(rt.base, n)
    BY DEF keptOverrides, Restrict
  <1>4. n \in DOMAIN kept => kept[n] = rt.overrides[n]
    BY DEF keptOverrides, Restrict
  <1>5. n \in DOMAIN rt.overrides => n \in DOMAIN rt.base.enabled
    BY DEF Contradicts
  <1>6. n \in DOMAIN rt.base.enabled => ruleEnabled(rt.base, n) = rt.base.enabled[n]
    <2>1. n \in DOMAIN rt.base.enabled => rt.base.enabled[n] \in BOOLEAN
      BY <1>1, OverridesAreFunctions
    <2>2. QED
      BY <2>1, Zenon DEF ruleEnabled
  <1>7. CASE n \in DOMAIN rt.base.enabled /\ base.enabled[n] = rt.base.enabled[n]
    BY <1>3, <1>4, <1>6, <1>7, EffectiveOfRule
  <1>8. CASE ~(n \in DOMAIN rt.base.enabled /\ base.enabled[n] = rt.base.enabled[n])
    BY <1>3, <1>5, <1>6, <1>8
  <1>9. QED
    BY <1>7, <1>8

\* A toggle switches its rule and no other.
LEMMA ToggledSwitches ==
    ASSUME NEW rt \in Runtimes, NEW n \in Rules, NEW enabled \in BOOLEAN,
           n \in DOMAIN rt.base.enabled
    PROVE  Effective(compileRuntime(rt.base, ToggledOverrides(rt, n, enabled)))
              = [Effective(rt) EXCEPT ![n] = enabled]
  <1> DEFINE toggled == ToggledOverrides(rt, n, enabled)
  <1>1. SUFFICES ASSUME NEW m \in DOMAIN rt.base.enabled
                 PROVE  (IF m \in DOMAIN toggled THEN toggled[m] ELSE rt.base.enabled[m])
                         = IF m = n THEN enabled
                           ELSE IF m \in DOMAIN rt.overrides
                                THEN rt.overrides[m] ELSE rt.base.enabled[m]
    BY DEF Effective, compileRuntime
  <1>2. CASE enabled = rt.base.enabled[n]
    <2>1. toggled = [k \in DOMAIN rt.overrides \ {n} |-> rt.overrides[k]]
      BY <1>2 DEF ToggledOverrides, Restrict
    <2>2. QED
      BY <1>2, <2>1
  <1>3. CASE enabled # rt.base.enabled[n]
    <2>1. toggled = [k \in DOMAIN rt.overrides \cup {n} |->
                        IF k = n THEN enabled ELSE rt.overrides[k]]
      BY <1>3 DEF ToggledOverrides
    <2>2. QED
      BY <2>1
  <1>4. QED
    BY <1>2, <1>3

-------------------------------------------------------------------------------
(* The code implements the promise.                                        *)

\* The first configuration is the first file, with every switch as it says.
LEMMA InitImplements == Init => Toggling!Init
  <1> SUFFICES ASSUME Init PROVE Toggling!Init
    OBVIOUS
  <1>1. PICK c \in Configs : c.compiles /\ current = [base |-> c, overrides |-> NoOverrides]
    BY DEF Init, compileRuntime
  <1>2. c.enabled = [n \in DOMAIN c.enabled |-> c.enabled[n]]
    BY ConfigsAssumption, OverridesAreFunctions
  <1>3. Effective(current) = c.enabled
    BY <1>1, <1>2 DEF Effective, NoOverrides
  <1>4. Phase = [t \in Callers |-> "idle"]
    BY DEF Init, Phase
  <1>5. op = [t \in Callers |-> Toggling!NoCall]
    BY DEF Init, NoCall, Toggling!NoCall
  <1>6. QED
    BY <1>1, <1>3, <1>4, <1>5 DEF Toggling!Init, Toggling!Callers, Callers

\* How one caller's step shows in the phase it is in.
LEMMA PhaseStep ==
    ASSUME pc \in [Callers -> Steps], NEW t \in Callers, NEW s \in Steps,
           pc' = [pc EXCEPT ![t] = s]
    PROVE  Phase' = [Phase EXCEPT ![t] = CASE s \in {"load", "swap"} -> "pending"
                                           [] s = "published" -> "ok"
                                           [] OTHER -> s]
  BY DEF Phase

\* Every step of the loops is a step of the abstract calls, or none.
LEMMA StepImplements ==
    IInv /\ [Next]_controlVars => [Toggling!Next]_(Toggling!vars)
  <1> SUFFICES ASSUME IInv, [Next]_controlVars
               PROVE  Toggling!Next \/ UNCHANGED Toggling!vars
    OBVIOUS
  <1> USE DEF Toggling!Callers, Callers
  <1>0. /\ pc \in [Callers -> Steps]
        /\ op \in [Callers -> {NoCall} \cup Updates \cup Toggles]
        /\ current \in Runtimes
    BY DEF IInv, TypeOK
  <1>1. ASSUME NEW t \in Callers, Call(t) PROVE Toggling!Invoke(t)
    <2>1. Phase[t] = "idle" /\ Phase' = [Phase EXCEPT ![t] = "pending"]
      BY <1>0, <1>1, PhaseStep DEF Call, Phase, Steps
    <2>2. \E o \in Toggling!CallsOf(t) : op' = [op EXCEPT ![t] = o]
      BY <1>1 DEF Call, CallsOf, Updates, Toggles, Toggling!CallsOf,
                  Toggling!Updates, Toggling!Toggles
    <2>3. QED
      BY <1>1, <2>1, <2>2 DEF Call, Toggling!Invoke
  <1>2. ASSUME NEW t \in Callers, pc[t] = "load", LoadAndCompile(t)
        PROVE  UNCHANGED Toggling!vars
    <2>1. Phase' = Phase
      BY <1>0, <1>2 DEF LoadAndCompile, Phase
    <2>2. QED
      BY <1>2, <2>1 DEF LoadAndCompile, Toggling!vars
  <1>3. ASSUME NEW t \in Callers, Update(t)
        PROVE  Toggling!RejectReload(t) \/ UNCHANGED Toggling!vars
    <2>1. CASE op[t].base.compiles
      BY <1>2, <1>3, <2>1 DEF Update
    <2>2. CASE ~op[t].base.compiles
      <3>1. Phase[t] = "pending" /\ Phase' = [Phase EXCEPT ![t] = "rejected"]
        BY <1>0, <1>3, <2>2, PhaseStep DEF Update, FailWith, Phase, Steps
      <3>2. QED
        BY <1>3, <2>2, <3>1 DEF Update, FailWith, Toggling!RejectReload, Toggling!Reply
    <2>3. QED
      BY <2>1, <2>2
  <1>4. ASSUME NEW t \in Callers, SetRuleEnabled(t)
        PROVE  Toggling!RuleNotFound(t) \/ UNCHANGED Toggling!vars
    <2>1. CASE op[t].rule \in DOMAIN current.base.enabled
      <3>1. LoadAndCompile(t)
        BY <1>4, <2>1 DEF SetRuleEnabled, IInv, ActiveConfigCompiles
      <3>2. QED
        BY <1>2, <1>4, <3>1 DEF SetRuleEnabled
    <2>2. CASE op[t].rule \notin DOMAIN current.base.enabled
      <3>1. Phase[t] = "pending" /\ Phase' = [Phase EXCEPT ![t] = "not_found"]
        BY <1>0, <1>4, <2>2, PhaseStep DEF SetRuleEnabled, FailWith, Phase, Steps
      <3>2. QED
        BY <1>4, <2>2, <3>1 DEF SetRuleEnabled, FailWith, Toggling!RuleNotFound, Toggling!Reply
    <2>3. QED
      BY <2>1, <2>2
  <1>5. ASSUME NEW t \in Callers, CompareAndSwap(t)
        PROVE  Toggling!ApplyReload(t) \/ Toggling!ApplyToggle(t)
    <2>1. /\ loaded[t] = current /\ current' = NextRuntime(t)
          /\ Contradicts(current.overrides, current.base)
      BY <1>5 DEF CompareAndSwap, IInv, SwapsWhatItRead, OverridesContradictFile, Contradicts
    <2>2. Phase[t] = "pending" /\ Phase' = [Phase EXCEPT ![t] = "ok"]
      BY <1>0, <1>5, PhaseStep DEF CompareAndSwap, Phase, Steps
    <2>3. op' = op
      BY <1>5 DEF CompareAndSwap
    <2>4. op[t] # NoCall
      BY <1>5 DEF CompareAndSwap, IInv, CallOfStep
    <2>5. CASE op[t].kind = "update"
      <3>1. op[t].base \in Configs /\ op[t].base.compiles
        BY <1>0, <1>5, <2>5, CallKinds DEF CompareAndSwap, IInv, CallOfStep
      <3>2. current' = compileRuntime(op[t].base, keptOverrides(current, op[t].base))
        BY <2>1, <2>5 DEF NextRuntime
      <3>3. current'.base = op[t].base
        BY <3>2 DEF compileRuntime
      <3>4. Effective(current)' =
               [n \in DOMAIN op[t].base.enabled |->
                   IF n \in DOMAIN current.base.enabled
                      /\ op[t].base.enabled[n] = current.base.enabled[n]
                   THEN Effective(current)[n]
                   ELSE op[t].base.enabled[n]]
        BY <1>0, <2>1, <3>1, <3>2, ReloadedSwitches
      <3>5. QED
        BY <2>2, <2>3, <2>5, <3>1, <3>3, <3>4 DEF Toggling!ApplyReload, Toggling!Reply
    <2>6. CASE op[t].kind # "update"
      <3>1. op[t].kind = "toggle" /\ op[t].rule \in Rules /\ op[t].enabled \in BOOLEAN
        BY <1>0, <2>4, <2>6, CallKinds
      <3>2. op[t].rule \in DOMAIN current.base.enabled
        BY <1>5, <2>1, <3>1 DEF CompareAndSwap, IInv, CallOfStep
      <3>3. current' = compileRuntime(current.base,
                           ToggledOverrides(current, op[t].rule, op[t].enabled))
        BY <2>1, <2>6 DEF NextRuntime
      <3>4. current'.base = current.base
        BY <3>3 DEF compileRuntime
      <3>5. Effective(current)' = [Effective(current) EXCEPT ![op[t].rule] = op[t].enabled]
        BY <1>0, <3>1, <3>2, <3>3, ToggledSwitches
      <3>6. QED
        BY <2>2, <2>3, <3>1, <3>2, <3>4, <3>5 DEF Toggling!ApplyToggle, Toggling!Reply
    <2>7. QED
      BY <2>5, <2>6
  <1>6. ASSUME NEW t \in Callers, CompareAndSwapFails(t)
        PROVE  UNCHANGED Toggling!vars
    <2>1. Phase' = Phase
      BY <1>0, <1>6 DEF CompareAndSwapFails, Phase
    <2>2. QED
      BY <1>6, <2>1 DEF CompareAndSwapFails, Toggling!vars
  <1>7. ASSUME NEW t \in Callers, FinishUpdate(t)
        PROVE  UNCHANGED Toggling!vars
    <2>1. Phase' = Phase
      BY <1>0, <1>7 DEF FinishUpdate, Phase
    <2>2. QED
      BY <1>7, <2>1 DEF FinishUpdate, Toggling!vars
  <1>8. ASSUME NEW t \in Callers, Return(t) PROVE Toggling!Return(t)
    <2>1. Phase[t] \in {"ok", "rejected", "not_found"} /\ Phase' = [Phase EXCEPT ![t] = "idle"]
      BY <1>0, <1>8, PhaseStep DEF Return, Phase, Steps
    <2>2. QED
      BY <1>8, <2>1 DEF Return, NoCall, Toggling!NoCall, Toggling!Return
  <1>9. CASE UNCHANGED controlVars
    BY <1>9 DEF controlVars, Toggling!vars, Phase
  <1>10. QED
    BY <1>1, <1>3, <1>4, <1>5, <1>6, <1>7, <1>8, <1>9 DEF Next, Step, Toggling!Next

\* Update and SetRuleEnabled are linearizable: whatever the callers do, the
\* handler behaves as if each call took effect in one step of RuleToggles.
THEOREM Linearizable == Spec => ImplementsRuleToggles
  BY InitImplements, StepImplements, Invariance, PTL
     DEF Spec, ImplementsRuleToggles, Toggling!Spec

-------------------------------------------------------------------------------
(* The README's sentence about toggles, as an action property.             *)

\* The switch of rule n may go from before to after in this step only because
\* the file changed it or because it was toggled.
LEMMA StepKeepsSwitches ==
    ASSUME IInv, [Next]_controlVars,
           NEW n \in DOMAIN Effective(current) \cap DOMAIN Effective(current)',
           Effective(current)'[n] # Effective(current)[n]
    PROVE  \/ /\ current'.base.enabled[n] # current.base.enabled[n]
              /\ Effective(current)'[n] = current'.base.enabled[n]
           \/ /\ current'.base = current.base
              /\ \E t \in Clients :
                    /\ pc[t] = "swap" /\ pc'[t] = "ok"
                    /\ op[t].rule = n /\ op[t].enabled = Effective(current)'[n]
  <1>1. current' # current
    OBVIOUS
  <1>2. PICK t \in Callers : CompareAndSwap(t)
    <2>1. ASSUME NEW t \in Callers, Call(t) \/ Update(t) \/ SetRuleEnabled(t)
                    \/ CompareAndSwapFails(t) \/ FinishUpdate(t) \/ Return(t)
          PROVE  current' = current
      BY <2>1 DEF Call, Update, SetRuleEnabled, LoadAndCompile, FailWith,
                  CompareAndSwapFails, FinishUpdate, Return
    <2>2. CASE UNCHANGED controlVars
      BY <1>1, <2>2 DEF controlVars
    <2>3. QED
      BY <1>1, <2>1, <2>2 DEF Next, Step
  <1>3. /\ loaded[t] = current /\ current' = NextRuntime(t)
        /\ current \in Runtimes
        /\ Contradicts(current.overrides, current.base)
        /\ op[t] \in {NoCall} \cup Updates \cup Toggles /\ op[t] # NoCall
    BY <1>2 DEF CompareAndSwap, IInv, TypeOK, CallOfStep, SwapsWhatItRead,
                OverridesContradictFile, Contradicts
  <1>4. CASE op[t].kind = "update"
    <2>1. op[t].base \in Configs
      BY <1>3, <1>4, CallKinds
    <2>2. current' = compileRuntime(op[t].base, keptOverrides(current, op[t].base))
      BY <1>3, <1>4 DEF NextRuntime
    <2>3. current'.base = op[t].base
      BY <2>2 DEF compileRuntime
    <2>4. Effective(current)' =
             [m \in DOMAIN op[t].base.enabled |->
                 IF m \in DOMAIN current.base.enabled
                    /\ op[t].base.enabled[m] = current.base.enabled[m]
                 THEN Effective(current)[m]
                 ELSE op[t].base.enabled[m]]
      BY <1>3, <2>1, <2>2, ReloadedSwitches
    <2>5. n \in DOMAIN op[t].base.enabled /\ n \in DOMAIN current.base.enabled
      BY <2>4 DEF Effective
    <2>6. QED
      BY <2>3, <2>4, <2>5
  <1>5. CASE op[t].kind # "update"
    <2>1. op[t].kind = "toggle" /\ op[t].rule \in Rules /\ op[t].enabled \in BOOLEAN
      BY <1>3, <1>5, CallKinds
    <2>2. op[t].rule \in DOMAIN current.base.enabled
      BY <1>2, <1>3, <2>1 DEF CompareAndSwap, IInv, CallOfStep
    <2>3. current' = compileRuntime(current.base,
                         ToggledOverrides(current, op[t].rule, op[t].enabled))
      BY <1>3, <1>5 DEF NextRuntime
    <2>4. current'.base = current.base
      BY <2>3 DEF compileRuntime
    <2>5. Effective(current)' = [Effective(current) EXCEPT ![op[t].rule] = op[t].enabled]
      BY <1>3, <2>1, <2>2, <2>3, ToggledSwitches
    <2>6. n = op[t].rule /\ Effective(current)'[n] = op[t].enabled
      BY <2>5
    <2>7. t \in Clients
      BY <1>3, <2>1, CallKinds DEF IInv, CallOfStep, CallsOf, Callers, Updates
    <2>8. pc[t] = "swap" /\ pc'[t] = "ok"
      BY <1>2, <1>5 DEF CompareAndSwap, IInv, TypeOK
    <2>9. QED
      BY <2>4, <2>6, <2>7, <2>8
  <1>6. QED
    BY <1>4, <1>5

\* A rule toggled through the API keeps its state across reloads until the
\* file changes its enabled value or removes it.
THEOREM TogglesSurviveReloads == Spec => SwitchesAreKept
  <1> DEFINE A ==
        \A n \in DOMAIN Effective(current) \cap DOMAIN Effective(current)' :
           Effective(current)'[n] # Effective(current)[n] =>
               \/ /\ current'.base.enabled[n] # current.base.enabled[n]
                  /\ Effective(current)'[n] = current'.base.enabled[n]
               \/ /\ current'.base = current.base
                  /\ \E t \in Clients :
                        /\ pc[t] = "swap" /\ pc'[t] = "ok"
                        /\ op[t].rule = n /\ op[t].enabled = Effective(current)'[n]
  <1>1. IInv /\ [Next]_controlVars => A
    BY StepKeepsSwitches
  <1>2. QED
    BY <1>1, Invariance, PTL DEF Spec, SwitchesAreKept

==============================================================================
