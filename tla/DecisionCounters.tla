--------------------------- MODULE DecisionCounters ---------------------------
(***************************************************************************)
(* The decision sequences of rules and scenarios: the sync.Map of atomic   *)
(* counters behind Handler.ruleCounters and Handler.scenarioCounters, read *)
(* and advanced by nextIndex (internal/proxy/scenario.go:112) while other  *)
(* goroutines Delete or Clear it.                                          *)
(*                                                                         *)
(* nextIndex is three accesses to shared memory: Load finds the counter of *)
(* a name, LoadOrStore makes one when there is none, Add advances it.  A   *)
(* counter removed from the map between two of them lives on in the        *)
(* requests that hold its pointer.  A key is a name in one of the two      *)
(* maps; sync.Map is assumed linearizable, Clear included.                 *)
(*                                                                         *)
(* counters[k] lists every counter ever made for k; LoadOrStore makes one  *)
(* only when the map has none, so the one in the map is the last.          *)
(***************************************************************************)
EXTENDS Integers, Sequences

CONSTANTS
    Keys,         \* <<"rule", name>> and <<"scenario", name>>
    Requests,     \* goroutines calling nextIndex
    None,
    MaxDraws,     \* bound: nextIndex is called while fewer draws were made
    MaxRestarts   \* bound: restarts of a key (in this module's Next only)

ASSUME BoundsAssumption == MaxDraws \in Nat /\ MaxRestarts \in Nat

ASSUME KeysAssumption == None \notin Keys

VARIABLES
    stored,       \* the keys the map has a counter for
    counters,     \* key -> the values of the counters made for it, in order
    at,           \* request -> the step of nextIndex it is at
    key,          \* request -> the key it was called with
    held,         \* request -> the counter whose pointer it holds
    (* History, read by the properties only. *)
    restarts,     \* key -> how often its sequence was restarted
    born,         \* key -> restarts[key] when each of its counters was made
    since,        \* request -> restarts[key] when it called nextIndex
    draws         \* the indexes handed out, in the order of Add

counterVars ==
    <<stored, counters, at, key, held, restarts, born, since, draws>>

Draws == [key : Keys, counter : Nat, index : Nat, since : Nat, until : Nat]

Init ==
    /\ stored = {}
    /\ counters = [k \in Keys |-> <<>>]
    /\ at = [r \in Requests |-> "idle"]
    /\ key = [r \in Requests |-> None]
    /\ held = [r \in Requests |-> 0]
    /\ restarts = [k \in Keys |-> 0]
    /\ born = [k \in Keys |-> <<>>]
    /\ since = [r \in Requests |-> 0]
    /\ draws = <<>>

nextIndex(r, k) ==
    /\ at[r] = "idle"
    /\ at' = [at EXCEPT ![r] = "load"]
    /\ key' = [key EXCEPT ![r] = k]
    /\ since' = [since EXCEPT ![r] = restarts[k]]
    /\ UNCHANGED <<stored, counters, held, restarts, born, draws>>

Load(r) ==
    /\ at[r] = "load"
    /\ IF key[r] \in stored
       THEN /\ at' = [at EXCEPT ![r] = "add"]
            /\ held' = [held EXCEPT ![r] = Len(counters[key[r]])]
       ELSE /\ at' = [at EXCEPT ![r] = "store"]
            /\ UNCHANGED held
    /\ UNCHANGED <<stored, counters, key, restarts, born, since, draws>>

\* Mutant of LoadOrStore: Store, over the counter of a faster request.
StoreOver(r) ==
    /\ at[r] = "store"
    /\ at' = [at EXCEPT ![r] = "add"]
    /\ stored' = stored \cup {key[r]}
    /\ counters' = [counters EXCEPT ![key[r]] = Append(@, 0)]
    /\ born' = [born EXCEPT ![key[r]] = Append(@, restarts[key[r]])]
    /\ held' = [held EXCEPT ![r] = Len(counters'[key[r]])]
    /\ UNCHANGED <<key, restarts, since, draws>>

LoadOrStore(r) ==
    /\ at[r] = "store"
    /\ at' = [at EXCEPT ![r] = "add"]
    /\ IF key[r] \in stored
       THEN UNCHANGED <<stored, counters, born>>
       ELSE /\ stored' = stored \cup {key[r]}
            /\ counters' = [counters EXCEPT ![key[r]] = Append(@, 0)]
            /\ born' = [born EXCEPT ![key[r]] = Append(@, restarts[key[r]])]
    /\ held' = [held EXCEPT ![r] = Len(counters'[key[r]])]
    /\ UNCHANGED <<key, restarts, since, draws>>

\* Mutant of Add: the counter's new value is the index.
AddWithoutMinusOne(r) ==
    /\ at[r] = "add"
    /\ at' = [at EXCEPT ![r] = "idle"]
    /\ counters' = [counters EXCEPT ![key[r]][held[r]] = @ + 1]
    /\ draws' = Append(draws, [key     |-> key[r],
                               counter |-> held[r],
                               index   |-> counters'[key[r]][held[r]],
                               since   |-> since[r],
                               until   |-> restarts[key[r]]])
    /\ key' = [key EXCEPT ![r] = None]
    /\ held' = [held EXCEPT ![r] = 0]
    /\ since' = [since EXCEPT ![r] = 0]
    /\ UNCHANGED <<stored, restarts, born>>

\* counter.Add(1) - 1
Add(r) ==
    /\ at[r] = "add"
    /\ at' = [at EXCEPT ![r] = "idle"]
    /\ counters' = [counters EXCEPT ![key[r]][held[r]] = @ + 1]
    /\ draws' = Append(draws, [key     |-> key[r],
                               counter |-> held[r],
                               index   |-> counters'[key[r]][held[r]] - 1,
                               since   |-> since[r],
                               until   |-> restarts[key[r]]])
    /\ key' = [key EXCEPT ![r] = None]
    /\ held' = [held EXCEPT ![r] = 0]
    /\ since' = [since EXCEPT ![r] = 0]
    /\ UNCHANGED <<stored, restarts, born>>

\* Mutant of Restart: the counters stay in the map.
RestartForgotten(S) ==
    /\ restarts' = [k \in Keys |-> IF k \in S THEN restarts[k] + 1 ELSE restarts[k]]
    /\ UNCHANGED <<stored, counters, at, key, held, born, since, draws>>

\* Delete of one key, or Clear of one map: the sequences of S start over.
Restart(S) ==
    /\ stored' = stored \ S
    /\ restarts' = [k \in Keys |-> IF k \in S THEN restarts[k] + 1 ELSE restarts[k]]
    /\ UNCHANGED <<counters, at, key, held, born, since, draws>>

Next ==
    \/ \E r \in Requests :
          \/ Len(draws) < MaxDraws /\ \E k \in Keys : nextIndex(r, k)
          \/ Load(r)
          \/ LoadOrStore(r)
          \/ Add(r)
    \/ \E S \in SUBSET Keys \ {{}} :
          (\A k \in S : restarts[k] < MaxRestarts) /\ Restart(S)

Spec == Init /\ [][Next]_counterVars

-------------------------------------------------------------------------------
(* Properties.                                                             *)

\* Types; a request about to Add holds a counter that was made for its key.
TypeOK ==
    /\ stored \subseteq Keys
    /\ counters \in [Keys -> Seq(Nat)]
    /\ at \in [Requests -> {"idle", "load", "store", "add"}]
    /\ key \in [Requests -> Keys \cup {None}]
    /\ held \in [Requests -> Nat]
    /\ restarts \in [Keys -> Nat]
    /\ born \in [Keys -> Seq(Nat)]
    /\ since \in [Requests -> Nat]
    /\ draws \in Seq(Draws)
    /\ \A r \in Requests :
          /\ at[r] # "idle" => key[r] \in Keys
          /\ at[r] = "add" => held[r] \in DOMAIN counters[key[r]]

\* A request that arrives after a sequence was restarted does not continue the
\* old one: the counter it draws from was made after the last restart before
\* its arrival, whatever Load and LoadOrStore of other requests did meanwhile.
NoRestartedSequenceContinues ==
    \A i \in DOMAIN draws :
        LET born_i == born[draws[i].key][draws[i].counter]
        IN  draws[i].since <= born_i /\ born_i <= draws[i].until

\* "Steps advance in the order requests arrive" (README.md:485), "Each rule
\* draws its decisions from ... the number of requests that rule has matched"
\* (README.md:450): without a restart between the arrival of the one and the
\* draw of the other, two requests get different indexes, the later draw the
\* larger one.  Two requests racing to make the first counter of a key must
\* end up with the same one.
IndexesAdvance ==
    \A i, j \in DOMAIN draws :
        /\ i < j
        /\ draws[i].key = draws[j].key
        /\ draws[i].since = draws[j].until
        /\ draws[j].since = draws[j].until
        => draws[i].index < draws[j].index

\* No step of a scenario and no decision of a rule is skipped: every index
\* below the value of a counter was handed to a request.
NoIndexSkipped ==
    \A k \in Keys : \A c \in DOMAIN counters[k] : \A x \in 0 .. counters[k][c] - 1 :
        \E i \in DOMAIN draws :
            /\ draws[i].key = k
            /\ draws[i].counter = c
            /\ draws[i].index = x

==============================================================================
