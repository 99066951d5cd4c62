----------------------------- MODULE RuleToggles -----------------------------
(***************************************************************************)
(* What the operator of the proxy is promised about rule switches:         *)
(*                                                                         *)
(*   "A rule toggled through the API keeps its state across reloads until  *)
(*    the file changes that rule's enabled value or removes the rule."     *)
(*                                                         (README.md:544) *)
(*                                                                         *)
(* There are no overrides, snapshots or retries here.  The state is the    *)
(* switch of every rule in the file last applied and the switch in force;  *)
(* a call is invoked, takes effect in one step, and returns.  The module   *)
(* RuntimeControl, which models the code, implements this one: every call  *)
(* on the proxy is linearizable.                                           *)
(***************************************************************************)

CONSTANTS
    Rules,        \* names of rules
    Configs,      \* configurations: [compiles, enabled, ...]
    Watchers,     \* goroutines that apply a reloaded file
    Clients       \* goroutines that serve PUT /api/rules/{name}

VARIABLES
    file,         \* rule name -> enabled in the file last applied
    effective,    \* rule name -> enabled in force
    phase,        \* caller -> "idle", "pending" or its reply
    op            \* caller -> the call it makes

vars == <<file, effective, phase, op>>

Callers == Watchers \cup Clients
NoCall == [kind |-> "none"]
Updates == [kind : {"update"}, base : Configs]
Toggles == [kind : {"toggle"}, rule : Rules, enabled : BOOLEAN]
CallsOf(t) == IF t \in Watchers THEN Updates ELSE Toggles

Init ==
    /\ \E c \in Configs : c.compiles /\ file = c.enabled
    /\ effective = file
    /\ phase = [t \in Callers |-> "idle"]
    /\ op = [t \in Callers |-> NoCall]

Invoke(t) ==
    /\ phase[t] = "idle"
    /\ phase' = [phase EXCEPT ![t] = "pending"]
    /\ \E o \in CallsOf(t) : op' = [op EXCEPT ![t] = o]
    /\ UNCHANGED <<file, effective>>

Reply(t, r) ==
    /\ phase[t] = "pending"
    /\ phase' = [phase EXCEPT ![t] = r]
    /\ UNCHANGED op

\* A reload replaces every switch but those the file leaves as they were.
ApplyReload(t) ==
    /\ op[t].kind = "update"
    /\ op[t].base.compiles
    /\ Reply(t, "ok")
    /\ file' = op[t].base.enabled
    /\ effective' = [n \in DOMAIN file' |->
                        IF n \in DOMAIN file /\ file'[n] = file[n]
                        THEN effective[n]
                        ELSE file'[n]]

RejectReload(t) ==
    /\ op[t].kind = "update"
    /\ ~op[t].base.compiles
    /\ Reply(t, "rejected")
    /\ UNCHANGED <<file, effective>>

ApplyToggle(t) ==
    /\ op[t].kind = "toggle"
    /\ op[t].rule \in DOMAIN file
    /\ Reply(t, "ok")
    /\ effective' = [effective EXCEPT ![op[t].rule] = op[t].enabled]
    /\ UNCHANGED file

RuleNotFound(t) ==
    /\ op[t].kind = "toggle"
    /\ op[t].rule \notin DOMAIN file
    /\ Reply(t, "not_found")
    /\ UNCHANGED <<file, effective>>

Return(t) ==
    /\ phase[t] \in {"ok", "rejected", "not_found"}
    /\ phase' = [phase EXCEPT ![t] = "idle"]
    /\ op' = [op EXCEPT ![t] = NoCall]
    /\ UNCHANGED <<file, effective>>

Next ==
    \E t \in Callers :
        \/ Invoke(t)
        \/ ApplyReload(t)
        \/ RejectReload(t)
        \/ ApplyToggle(t)
        \/ RuleNotFound(t)
        \/ Return(t)

Spec == Init /\ [][Next]_vars

==============================================================================
