---------------------------- MODULE RuntimeControl ----------------------------
(***************************************************************************)
(* The runtime pointer of the data-plane handler and its two writers       *)
(* (internal/proxy/runtime.go, runtime_control.go).                        *)
(*                                                                         *)
(* Handler.current points to an immutable snapshot: the file configuration *)
(* (base) and the switches set through the control API (overrides).  The   *)
(* config watcher calls Update, API requests call SetRuleEnabled; both     *)
(* read the pointer, compile a new snapshot from what they read and        *)
(* publish it with CompareAndSwap, starting over when another writer was   *)
(* faster.  Requests read the pointer without a lock (DataPlane.tla).      *)
(*                                                                         *)
(* CompareAndSwap compares pointers, not contents, and every compilation   *)
(* makes a new pointer.  "replaced" holds the callers whose loaded pointer *)
(* is no longer the current one.                                           *)
(*                                                                         *)
(* A configuration is a record whose field "enabled" maps the names of its *)
(* rules (unique, validate.go:122) to their enabled value in the file, and *)
(* whose field "compiles" tells whether Validate and the compilation of    *)
(* its expressions accept it: neither looks at an enabled value.           *)
(***************************************************************************)
EXTENDS Functions

CONSTANTS
    Rules,        \* names of rules
    Configs,      \* configurations a file may hold
    Watchers,     \* goroutines running the config watcher (one in the program)
    Clients,      \* goroutines serving PUT /api/rules/{name}
    None

Callers == Watchers \cup Clients

Overrides == UNION {[names -> BOOLEAN] : names \in SUBSET Rules}

ASSUME ConfigsAssumption ==
    \A c \in Configs : c.compiles \in BOOLEAN /\ c.enabled \in Overrides

ASSUME CallersAssumption == Watchers \cap Clients = {}

ASSUME NoneAssumption == None \notin [base : Configs, overrides : Overrides]

VARIABLES
    current,      \* the snapshot Handler.current points to
    pc,           \* caller -> the step of Update or SetRuleEnabled it is at
    op,           \* caller -> the arguments of its call
    loaded,       \* caller -> the snapshot its loop has read
    replaced      \* callers whose loaded pointer was swapped out since

controlVars == <<current, pc, op, loaded, replaced>>

NoCall == [kind |-> "none"]
Updates == [kind : {"update"}, base : Configs]
Toggles == [kind : {"toggle"}, rule : Rules, enabled : BOOLEAN]
CallsOf(t) == IF t \in Watchers THEN Updates ELSE Toggles

Runtimes == [base : Configs, overrides : Overrides]

-------------------------------------------------------------------------------
(* Snapshots.                                                              *)

NoOverrides == [n \in {} |-> FALSE]

\* A compiled snapshot is determined by what it is compiled from.
compileRuntime(base, overrides) == [base |-> base, overrides |-> overrides]

\* The switches in force: effective.Rules[i].Enabled.
Effective(rt) ==
    [n \in DOMAIN rt.base.enabled |->
        IF n \in DOMAIN rt.overrides THEN rt.overrides[n] ELSE rt.base.enabled[n]]

\* ruleEnabled's first result is false for a rule the file does not have.
ruleEnabled(cfg, n) == n \in DOMAIN cfg.enabled /\ cfg.enabled[n]

\* Mutant of keptOverrides: a reload drops every override.
noKeptOverrides(rt, base) == NoOverrides

\* The overrides a reload keeps: the file still has the rule, and says of it
\* what it said before.
keptOverrides(rt, base) ==
    Restrict(rt.overrides,
             {n \in DOMAIN rt.overrides :
                 /\ n \in DOMAIN base.enabled
                 /\ base.enabled[n] = ruleEnabled(rt.base, n)})

\* Mutant of ToggledOverrides: an override equal to the file is kept.
ToggledOverridesAlwaysStored(rt, n, enabled) ==
    [m \in DOMAIN rt.overrides \cup {n} |->
        IF m = n THEN enabled ELSE rt.overrides[m]]

\* The overrides after a toggle: none for a rule set to what the file says.
ToggledOverrides(rt, n, enabled) ==
    IF enabled = rt.base.enabled[n]
    THEN Restrict(rt.overrides, DOMAIN rt.overrides \ {n})
    ELSE [m \in DOMAIN rt.overrides \cup {n} |->
             IF m = n THEN enabled ELSE rt.overrides[m]]

\* What caller t compiles from the snapshot it has loaded.
NextRuntime(t) ==
    IF op[t].kind = "update"
    THEN compileRuntime(op[t].base, keptOverrides(loaded[t], op[t].base))
    ELSE compileRuntime(loaded[t].base,
                        ToggledOverrides(loaded[t], op[t].rule, op[t].enabled))

-------------------------------------------------------------------------------
(* NewHandler compiles the configuration the process starts with, without  *)
(* any override.                                                           *)
Init ==
    /\ \E c \in Configs : c.compiles /\ current = compileRuntime(c, NoOverrides)
    /\ pc = [t \in Callers |-> "idle"]
    /\ op = [t \in Callers |-> NoCall]
    /\ loaded = [t \in Callers |-> None]
    /\ replaced = {}

Call(t) ==
    /\ pc[t] = "idle"
    /\ \E o \in CallsOf(t) : op' = [op EXCEPT ![t] = o]
    /\ pc' = [pc EXCEPT ![t] = "load"]
    /\ UNCHANGED <<current, loaded, replaced>>

\* The loop read the pointer and compiles from it.
LoadAndCompile(t) ==
    /\ pc' = [pc EXCEPT ![t] = "swap"]
    /\ loaded' = [loaded EXCEPT ![t] = current]
    /\ replaced' = replaced \ {t}
    /\ UNCHANGED <<current, op>>

\* The loop read the pointer and gives up with an error.
FailWith(t, reply) ==
    /\ pc' = [pc EXCEPT ![t] = reply]
    /\ UNCHANGED <<current, op, loaded, replaced>>

\* Mutant of Update: the error of compileRuntime is ignored.
UpdateIgnoresError(t) ==
    /\ pc[t] = "load"
    /\ op[t].kind = "update"
    /\ LoadAndCompile(t)

Update(t) ==
    /\ pc[t] = "load"
    /\ op[t].kind = "update"
    /\ IF op[t].base.compiles
       THEN LoadAndCompile(t)
       ELSE FailWith(t, "rejected")

SetRuleEnabled(t) ==
    /\ pc[t] = "load"
    /\ op[t].kind = "toggle"
    /\ IF op[t].rule \notin DOMAIN current.base.enabled
       THEN FailWith(t, "not_found")
       ELSE IF current.base.compiles
            THEN LoadAndCompile(t)
            ELSE FailWith(t, "rejected")

\* Mutant of CompareAndSwap: a Store, which never fails.
StoreUnconditionally(t) ==
    /\ pc[t] = "swap"
    /\ current' = NextRuntime(t)
    /\ replaced' = {u \in Callers : pc[u] = "swap"} \ {t}
    /\ pc' = [pc EXCEPT ![t] = IF op[t].kind = "update" THEN "published" ELSE "ok"]
    /\ UNCHANGED <<op, loaded>>

CompareAndSwap(t) ==
    /\ pc[t] = "swap"
    /\ t \notin replaced
    /\ current' = NextRuntime(t)
    /\ replaced' = {u \in Callers : pc[u] = "swap"} \ {t}
    /\ pc' = [pc EXCEPT ![t] = IF op[t].kind = "update" THEN "published" ELSE "ok"]
    /\ UNCHANGED <<op, loaded>>

\* Mutant of CompareAndSwapFails: only the pointer is read again, and the
\* snapshot compiled before is published.
RetryWithoutCompiling(t) ==
    /\ pc[t] = "swap"
    /\ t \in replaced
    /\ replaced' = replaced \ {t}
    /\ UNCHANGED <<current, pc, op, loaded>>

\* Mutant of CompareAndSwapFails: the pointer is not read again.
RetryWithoutLoading(t) ==
    /\ pc[t] = "swap"
    /\ t \in replaced
    /\ UNCHANGED controlVars

CompareAndSwapFails(t) ==
    /\ pc[t] = "swap"
    /\ t \in replaced
    /\ pc' = [pc EXCEPT ![t] = "load"]
    /\ loaded' = [loaded EXCEPT ![t] = None]
    /\ replaced' = replaced \ {t}
    /\ UNCHANGED <<current, op>>

\* restartChangedScenarios has run (DataPlane.tla says what it does).
FinishUpdate(t) ==
    /\ pc[t] = "published"
    /\ pc' = [pc EXCEPT ![t] = "ok"]
    /\ UNCHANGED <<current, op, loaded, replaced>>

Return(t) ==
    /\ pc[t] \in {"ok", "rejected", "not_found"}
    /\ pc' = [pc EXCEPT ![t] = "idle"]
    /\ op' = [op EXCEPT ![t] = NoCall]
    /\ loaded' = [loaded EXCEPT ![t] = None]
    /\ UNCHANGED <<current, replaced>>

\* What a caller does once it has been called, whatever the others do.
Step(t) ==
    \/ Update(t)
    \/ SetRuleEnabled(t)
    \/ CompareAndSwap(t)
    \/ CompareAndSwapFails(t)
    \/ FinishUpdate(t)
    \/ Return(t)

Next == \E t \in Callers : Call(t) \/ Step(t)

Spec == Init /\ [][Next]_controlVars

\* The Go scheduler runs every runnable goroutine.
FairSpec == Spec /\ \A t \in Callers : WF_controlVars(Step(t))

-------------------------------------------------------------------------------
(* Properties.                                                             *)

Steps == {"idle", "load", "swap", "published", "ok", "rejected", "not_found"}

\* Types, and what belongs to each step of a call.
TypeOK ==
    /\ current \in Runtimes
    /\ pc \in [Callers -> Steps]
    /\ op \in [Callers -> {NoCall} \cup Updates \cup Toggles]
    /\ loaded \in [Callers -> Runtimes \cup {None}]
    /\ replaced \subseteq Callers

\* An override is never redundant and never dangling: it names a rule of the
\* active file and says the opposite of it (SetRuleEnabled deletes an override
\* equal to the file, keptOverrides drops one the file has overruled).  A
\* violation needs a toggle and a reload, each working from a snapshot the
\* other replaced.
OverridesContradictFile ==
    \A n \in DOMAIN current.overrides :
        /\ n \in DOMAIN current.base.enabled
        /\ current.overrides[n] # current.base.enabled[n]

\* "An invalid edit is logged and the last valid configuration stays active"
\* (README.md:200): no interleaving publishes a configuration that does not
\* compile, and so a toggle of an existing rule never fails to compile.
ActiveConfigCompiles ==
    /\ current.base.compiles
    /\ \A t \in Callers : pc[t] = "rejected" => op[t].kind = "update"

\* No lost update: a caller whose CompareAndSwap would succeed computed its
\* snapshot from the one it replaces.
SwapsWhatItRead ==
    \A t \in Callers : pc[t] = "swap" /\ t \notin replaced => loaded[t] = current

\* "A rule toggled through the API keeps its state across reloads until the
\* file changes that rule's enabled value or removes the rule" (README.md:544),
\* and only a toggle of that very rule switches it otherwise.
SwitchesAreKept ==
    [][\A n \in DOMAIN Effective(current) \cap DOMAIN Effective(current)' :
           Effective(current)'[n] # Effective(current)[n] =>
               \/ /\ current'.base.enabled[n] # current.base.enabled[n]
                  /\ Effective(current)'[n] = current'.base.enabled[n]
               \/ /\ current'.base = current.base
                  /\ \E t \in Clients :
                        /\ pc[t] = "swap" /\ pc'[t] = "ok"
                        /\ op[t].rule = n /\ op[t].enabled = Effective(current)'[n]
      ]_controlVars

\* Update and SetRuleEnabled are linearizable, with the promise of the README
\* as their sequential specification: the call takes effect when its
\* CompareAndSwap succeeds, or when it reads the snapshot that makes it fail.
Phase ==
    [t \in Callers |->
        CASE pc[t] \in {"load", "swap"} -> "pending"
          [] pc[t] = "published" -> "ok"
          [] OTHER -> pc[t]]

Toggling == INSTANCE RuleToggles WITH
    file <- current.base.enabled,
    effective <- Effective(current),
    phase <- Phase

ImplementsRuleToggles == Toggling!Spec

\* The two loops are lock-free: a call can be overtaken again and again, but
\* whenever calls are under way one of them comes to its reply.
SomeCallFinishes ==
    (\E t \in Callers : pc[t] \in {"load", "swap"})
        ~> (\E t \in Callers : pc[t] \in {"ok", "rejected", "not_found"})

==============================================================================
