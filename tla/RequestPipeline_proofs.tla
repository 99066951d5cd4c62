------------------------ MODULE RequestPipeline_proofs ------------------------
(***************************************************************************)
(* Proofs about RequestPipeline, for any chains, codes and behaviour of the *)
(* API, of the client and of the shutdown.                                 *)
(*                                                                         *)
(* The argument: what a request has been through follows from where it is  *)
(* (Phases, TodoOfPhase); a handler has no error and no failure before it  *)
(* ends, and they account for each other then (ErrorsSoFar); what the      *)
(* status writer keeps is what was sent (StatusIsSent); a body is cut for a client that left or by a fault that *)
(* was reported (CutsHaveReasons); and the event is made of what no step   *)
(* changes any more (EventIsFinal).                                        *)
(***************************************************************************)
EXTENDS RequestPipeline, SequenceTheorems, TLAPS

Elements(s) == {s[i] : i \in DOMAIN s}

\* The parts of TypeOK.
TypesOfContexts ==
    /\ client \in {"waiting", "gone"} /\ upload \in {"unread", "read", "aborted"}
    /\ upload = "aborted" => client = "gone"
    /\ stopping \in BOOLEAN /\ cancelled \in BOOLEAN /\ (cancelled => stopping)

TypesOfPhase ==
    /\ pc \in {"arrive", "before", "wait", "failed", "hang", "forward", "upstream", "after",
               "copy", "pause", "tunnel", "finish", "done"}
    /\ ended \in {None, "returned", "panicked", "hijacked"}
    /\ ended = None <=> pc \notin {"finish", "done"}

TypesOfErrors ==
    /\ pipelineError \in {None, "invalid header", "before hook", "no hijack", "shutting down",
                          "after hook"}
    /\ proxyError \in {None, "unreachable", "canceled", "upload", "broken", "not writable",
                      "not flushed"}

TypesOfStatus ==
    /\ status \in {0} \cup 100 .. 599
    /\ wire \in {0, 101} \cup 200 .. 599

TypesOfResponse ==
    /\ body \subseteq BodyFaults
    /\ TypesOfStatus
    /\ called \in BOOLEAN /\ answer \in {None} \cup UpstreamCodes
    /\ outcome \in {None, "whole", "broken", "cut"}

TypesOfChain ==
    /\ chain \subseteq FaultNames /\ todo \in Seq(FaultNames)
    /\ faults \in Seq(FaultNames) /\ InOrder(faults)

\* What is left of the chain, by the phase the request is in.
TodoOfPhase ==
    /\ pc \in {"arrive", "forward"} => todo = <<>>
    /\ pc \in {"before", "wait"} => Elements(todo) \subseteq BeforeFaults
    /\ pc = "wait" => todo # <<>> /\ Head(todo) = "latency"
    /\ pc \in {"upstream", "after"} => Elements(todo) \subseteq FaultNames \ BeforeFaults
    /\ InOrder(todo)
    /\ pc \in {"before", "wait", "upstream", "after"} =>
          \A i \in DOMAIN faults, j \in DOMAIN todo : Place(faults[i]) < Place(todo[j])

\* What the request has been through, by the phase it is in.
Phases ==
    /\ pc \in {"arrive", "before", "wait", "failed", "hang", "forward"} => ~called
    /\ pc \in {"upstream", "after", "copy", "pause", "tunnel"} => called
    /\ pc \in {"arrive", "before", "wait", "failed", "hang", "forward", "upstream"} => answer = None
    /\ pc \in {"after", "copy", "pause", "tunnel"} => answer \in UpstreamCodes
    /\ pc = "arrive" => faults = <<>>
    /\ pc \in {"arrive", "before", "wait", "failed", "forward"} => Injected \subseteq {"latency"}
    /\ called => /\ Injected \cap {"reset", "status", "redirect", "hang"} = {}
                 /\ pipelineError # "shutting down"

\* An error has a failure or an aborted upload behind it, and a failure that is no
\* error broke a response under way.
ErrorsAreAccounted ==
    /\ eventError # None => failures # {} \/ upload = "aborted"
    /\ failures # {} => eventError # None \/ outcome = "broken"

\* Errors and failures come with the end of the handler, and with each other.
ErrorsSoFar ==
    /\ pc \notin {"finish", "done"} => pipelineError = None /\ proxyError = None /\ failures = {}
    /\ answer # 101 => ErrorsAreAccounted

\* The status the writer keeps is the one net/http has sent.
StatusIsSent ==
    /\ answer # 101 /\ pc # "done" =>
          wire = IF status = 0 \/ Informational(status) THEN 0 ELSE status
    /\ pc \in {"copy", "pause"} => status # 0
    /\ pc = "finish" /\ ended = "returned" /\ client = "waiting" => status # 0

\* Who does not get the whole response has left, or a fault was reported for it.
CutsHaveReasons ==
    /\ proxyError = "canceled" => client = "gone"
    /\ outcome = "cut" => client = "gone" \/ Injected \cap {"truncate", "stall", "bandwidth"} # {}
    /\ body \cap {"truncate", "stall", "bandwidth"} \subseteq Injected
    /\ pc = "pause" => Injected \cap {"stall", "bandwidth"} # {}

\* The event says what is so when the request is done.
EventIsFinal ==
    /\ pc # "done" => events = <<>>
    /\ pc = "done" =>
          /\ events = <<[status |-> status, faults |-> faults, error |-> eventError]>>
          /\ client = "waiting" /\ answer # 101 /\ ~Informational(status) => status = wire

IInv ==
    /\ TypesOfContexts
    /\ TypesOfPhase
    /\ TypesOfErrors
    /\ TypesOfResponse
    /\ TypesOfChain
    /\ TodoOfPhase
    /\ Phases
    /\ ErrorsSoFar
    /\ StatusIsSent
    /\ CutsHaveReasons
    /\ EventIsFinal

-------------------------------------------------------------------------------
(* Chains.                                                                 *)

\* The places of the faults.
LEMMA Places ==
    /\ Place("latency") = 1 /\ Place("reset") = 2 /\ Place("status") = 3
    /\ Place("redirect") = 4 /\ Place("hang") = 5 /\ Place("mutate") = 6
    /\ Place("headers") = 7 /\ Place("truncate") = 8 /\ Place("stall") = 9
    /\ Place("bandwidth") = 10
    /\ FaultNames = {"latency", "reset", "status", "redirect", "hang", "mutate", "headers",
                     "truncate", "stall", "bandwidth"}
    /\ \A f \in FaultNames : Place(f) \in Nat
  <1>1. /\ Place("latency") = 1 /\ Place("reset") = 2 /\ Place("status") = 3
        /\ Place("redirect") = 4 /\ Place("hang") = 5
    BY DEF Place
  <1>2. /\ Place("mutate") = 6 /\ Place("headers") = 7 /\ Place("truncate") = 8
        /\ Place("stall") = 9 /\ Place("bandwidth") = 10
    BY DEF Place
  <1>3. FaultNames = {"latency", "reset", "status", "redirect", "hang", "mutate", "headers",
                      "truncate", "stall", "bandwidth"}
    BY DEF FaultNames, BeforeFaults, BodyFaults
  <1>4. QED
    BY <1>1, <1>2, <1>3

\* A chain of the rule's faults up to a place.
ChainUpTo(s, rule, place) ==
    /\ s \in Seq(FaultNames) /\ InOrder(s)
    /\ \A i \in DOMAIN s : s[i] \in rule /\ Place(s[i]) <= place

\* One more fault, with a later place.
LEMMA OneMoreFault ==
    ASSUME NEW s, NEW rule, NEW place \in Nat, ChainUpTo(s, rule, place),
           NEW f \in FaultNames, place < Place(f)
    PROVE  ChainUpTo(s \o Configured(f, rule), rule, Place(f))
  <1>1. /\ s \in Seq(FaultNames) /\ Place(f) \in Nat
        /\ \A i \in DOMAIN s : s[i] \in FaultNames /\ Place(s[i]) \in Nat
    <2>1. s \in Seq(FaultNames)
      BY DEF ChainUpTo
    <2>2. \A i \in DOMAIN s : s[i] \in FaultNames
      BY <2>1
    <2>3. \A g \in FaultNames : Place(g) \in Nat
      BY Places
    <2>4. QED
      BY <2>1, <2>2, <2>3
  <1>2. CASE f \in rule
    <2> DEFINE t == s \o <<f>>
    <2>1. /\ t \in Seq(FaultNames) /\ DOMAIN t = DOMAIN s \cup {Len(s) + 1}
          /\ \A i \in DOMAIN s : t[i] = s[i] /\ i < Len(s) + 1 /\ i \in Nat
          /\ t[Len(s) + 1] = f /\ Len(s) \in Nat
      BY <1>1
    <2> HIDE DEF t
    <2>2. \A i \in DOMAIN t : t[i] \in rule /\ Place(t[i]) <= Place(f)
      BY <1>1, <1>2, <2>1 DEF ChainUpTo
    <2>3. ASSUME NEW i \in DOMAIN t, NEW j \in DOMAIN t, i < j
          PROVE  Place(t[i]) < Place(t[j])
      <3>1. i \in DOMAIN s
        BY <2>1, <2>3
      <3>2. CASE j \in DOMAIN s
        BY <2>1, <2>3, <3>1, <3>2 DEF ChainUpTo, InOrder
      <3>3. CASE j = Len(s) + 1
        BY <1>1, <2>1, <3>1, <3>3 DEF ChainUpTo
      <3>4. QED
        BY <2>1, <3>2, <3>3
    <2>4. ChainUpTo(t, rule, Place(f))
      BY <2>1, <2>2, <2>3 DEF ChainUpTo, InOrder
    <2>5. QED
      BY <1>2, <2>4 DEF t, Configured
  <1>3. CASE f \notin rule
    <2>1. s \o Configured(f, rule) = s
      BY <1>1, <1>3 DEF Configured
    <2>2. QED
      BY <1>1, <2>1 DEF ChainUpTo
  <1>4. QED
    BY <1>2, <1>3

\* Build returns faults of the rule, in order.
LEMMA BuildIsInOrder ==
    ASSUME NEW rule
    PROVE  /\ Build(rule) \in Seq(FaultNames) /\ InOrder(Build(rule))
           /\ Elements(Build(rule)) \subseteq rule
  <1> DEFINE s0 == <<>>
             s1 == s0 \o Configured("latency", rule)
             s2 == s1 \o Configured("reset", rule)
             s3 == s2 \o Configured("status", rule)
             s4 == s3 \o Configured("redirect", rule)
             s5 == s4 \o Configured("hang", rule)
             s6 == s5 \o Configured("mutate", rule)
             s7 == s6 \o Configured("headers", rule)
             s8 == s7 \o Configured("truncate", rule)
             s9 == s8 \o Configured("stall", rule)
             s10 == s9 \o Configured("bandwidth", rule)
  <1>1. ChainUpTo(s0, rule, 0)
    BY DEF ChainUpTo, InOrder
  <1>2. s1 = Configured("latency", rule)
    BY DEF Configured
  <1>3. Build(rule) = s10
    BY <1>2 DEF Build
  <1> HIDE DEF s0, s1, s2, s3, s4, s5, s6, s7, s8, s9, s10
  <1>4. ChainUpTo(s1, rule, 1)
    BY <1>1, Places, OneMoreFault DEF s1
  <1>5. ChainUpTo(s2, rule, 2)
    BY <1>4, Places, OneMoreFault DEF s2
  <1>6. ChainUpTo(s3, rule, 3)
    BY <1>5, Places, OneMoreFault DEF s3
  <1>7. ChainUpTo(s4, rule, 4)
    BY <1>6, Places, OneMoreFault DEF s4
  <1>8. ChainUpTo(s5, rule, 5)
    BY <1>7, Places, OneMoreFault DEF s5
  <1>9. ChainUpTo(s6, rule, 6)
    BY <1>8, Places, OneMoreFault DEF s6
  <1>10. ChainUpTo(s7, rule, 7)
    BY <1>9, Places, OneMoreFault DEF s7
  <1>11. ChainUpTo(s8, rule, 8)
    BY <1>10, Places, OneMoreFault DEF s8
  <1>12. ChainUpTo(s9, rule, 9)
    BY <1>11, Places, OneMoreFault DEF s9
  <1>13. ChainUpTo(s10, rule, 10)
    BY <1>12, Places, OneMoreFault DEF s10
  <1>14. QED
    BY <1>3, <1>13 DEF ChainUpTo, Elements

\* A chain without faults is empty.
LEMMA NoFaultsNoChain == Build({}) = <<>>
  <1>1. Build({}) \in Seq(FaultNames) /\ Elements(Build({})) = {}
    BY BuildIsInOrder
  <1>2. DOMAIN Build({}) = {}
    BY <1>1 DEF Elements
  <1>3. QED
    BY <1>1, <1>2

\* What is left after the first fault of a chain.
LEMMA RestOfChain ==
    ASSUME NEW s \in Seq(FaultNames), s # <<>>, InOrder(s)
    PROVE  /\ Tail(s) \in Seq(FaultNames) /\ InOrder(Tail(s))
           /\ Elements(Tail(s)) \subseteq Elements(s)
           /\ 1 \in DOMAIN s /\ Head(s) = s[1] /\ Head(s) \in FaultNames
           /\ \A i \in DOMAIN Tail(s) : /\ Place(Head(s)) < Place(Tail(s)[i])
                                        /\ \E j \in DOMAIN s : Tail(s)[i] = s[j]
  <1>1. /\ Len(s) \in Nat /\ Len(s) # 0 /\ DOMAIN s = 1 .. Len(s)
        /\ Tail(s) \in Seq(FaultNames) /\ Len(Tail(s)) = Len(s) - 1
        /\ DOMAIN Tail(s) = 1 .. Len(s) - 1
        /\ \A i \in 1 .. Len(s) - 1 : Tail(s)[i] = s[i + 1]
    OBVIOUS
  <1>2. 1 \in DOMAIN s /\ Head(s) = s[1] /\ Head(s) \in FaultNames
    BY <1>1
  <1>3. \A i \in DOMAIN Tail(s) : Tail(s)[i] = s[i + 1] /\ i + 1 \in DOMAIN s /\ i \in Nat /\ 1 < i + 1
    BY <1>1
  <1>4. InOrder(Tail(s))
    <2> SUFFICES ASSUME NEW i \in DOMAIN Tail(s), NEW j \in DOMAIN Tail(s), i < j
                 PROVE  Place(Tail(s)[i]) < Place(Tail(s)[j])
      BY DEF InOrder
    <2>1. i + 1 < j + 1
      BY <1>3
    <2>2. QED
      BY <1>3, <2>1 DEF InOrder
  <1>5. Elements(Tail(s)) \subseteq Elements(s)
    BY <1>3 DEF Elements
  <1>6. \A i \in DOMAIN Tail(s) : Place(Head(s)) < Place(Tail(s)[i])
    BY <1>2, <1>3 DEF InOrder
  <1>7. QED
    BY <1>1, <1>2, <1>3, <1>4, <1>5, <1>6

-------------------------------------------------------------------------------
(* What is left of the chain, and what was injected.                       *)

\* What no fault changes stays as long as the phase goes on or is over.
LEMMA ChainFrame ==
    ASSUME IInv, UNCHANGED <<chain, todo, faults>>,
           \/ pc' \in {pc, "failed", "hang", "copy", "pause", "tunnel", "finish", "done"}
           \/ pc = "upstream" /\ pc' = "after"
           \/ pc = "before" /\ pc' = "wait" /\ todo # <<>> /\ Head(todo) = "latency"
    PROVE  TypesOfChain' /\ TodoOfPhase' /\ Injected' = Injected
  <1>1. TypesOfChain' /\ Injected' = Injected
    BY DEF IInv, TypesOfChain, Injected, InOrder
  <1>2. TodoOfPhase'
    BY DEF IInv, TodoOfPhase, InOrder, Elements
  <1>3. QED
    BY <1>1, <1>2

\* The first fault that is left comes after those that were injected.
LEMMA FirstOfTodo ==
    ASSUME IInv, NEW f, pc \in {"before", "wait", "after"}, todo # <<>>, Head(todo) = f
    PROVE  /\ f \in FaultNames
           /\ pc \in {"before", "wait"} => f \in BeforeFaults
           /\ pc = "after" => f \in FaultNames \ BeforeFaults
           /\ \A i \in DOMAIN faults : Place(faults[i]) < Place(f)
  <1>1. todo \in Seq(FaultNames) /\ InOrder(todo)
    BY DEF IInv, TypesOfChain, TodoOfPhase
  <1>2. 1 \in DOMAIN todo /\ f = todo[1] /\ f \in FaultNames
    BY <1>1, RestOfChain
  <1>3. f \in Elements(todo)
    BY <1>2 DEF Elements
  <1>4. QED
    BY <1>2, <1>3 DEF IInv, TodoOfPhase

\* A fault that is emitted keeps the order of the injected ones.
LEMMA Emitted ==
    ASSUME faults \in Seq(FaultNames), InOrder(faults), NEW f \in FaultNames, Emit(f),
           \A i \in DOMAIN faults : Place(faults[i]) < Place(f)
    PROVE  /\ faults' \in Seq(FaultNames) /\ InOrder(faults') /\ Injected' = Injected \cup {f}
           /\ \A i \in DOMAIN faults' : faults'[i] = f \/ \E j \in DOMAIN faults : faults'[i] = faults[j]
  <1>1. /\ faults' \in Seq(FaultNames) /\ Len(faults) \in Nat
        /\ DOMAIN faults' = DOMAIN faults \cup {Len(faults) + 1}
        /\ faults'[Len(faults) + 1] = f
        /\ \A i \in DOMAIN faults : faults'[i] = faults[i] /\ i \in Nat /\ i < Len(faults) + 1
    BY DEF Emit
  <1>2. ASSUME NEW i \in DOMAIN faults', NEW j \in DOMAIN faults', i < j
        PROVE  Place(faults'[i]) < Place(faults'[j])
    <2>1. i \in DOMAIN faults
      BY <1>1, <1>2
    <2>2. CASE j \in DOMAIN faults
      BY <1>1, <1>2, <2>1, <2>2 DEF InOrder
    <2>3. CASE j = Len(faults) + 1
      BY <1>1, <2>1, <2>3
    <2>4. QED
      BY <1>1, <2>2, <2>3
  <1>3. Injected' = Injected \cup {f}
    BY <1>1 DEF Injected
  <1>4. QED
    BY <1>1, <1>2, <1>3 DEF InOrder

\* The first fault that is left is taken, and emitted or not.
LEMMA TakesFirst ==
    ASSUME IInv, NEW f, pc \in {"before", "wait", "after"}, todo # <<>>, Head(todo) = f,
           Emit(f) \/ faults' = faults, chain' = chain,
           \/ todo' = Tail(todo) /\ pc' = IF pc = "wait" THEN "before" ELSE pc
           \/ todo' = todo /\ pc' \in {"hang", "finish"}
    PROVE  /\ TypesOfChain' /\ TodoOfPhase'
           /\ Emit(f) => Injected' = Injected \cup {f}
           /\ faults' = faults => Injected' = Injected
  <1>1. /\ f \in FaultNames
        /\ \A i \in DOMAIN faults : Place(faults[i]) < Place(f)
        /\ faults \in Seq(FaultNames) /\ InOrder(faults) /\ chain' \subseteq FaultNames
        /\ todo \in Seq(FaultNames) /\ InOrder(todo)
    BY FirstOfTodo DEF IInv, TypesOfChain, TodoOfPhase
  <1>2. /\ faults' \in Seq(FaultNames) /\ InOrder(faults')
        /\ \A i \in DOMAIN faults' : faults'[i] = f \/ \E j \in DOMAIN faults : faults'[i] = faults[j]
        /\ Emit(f) => Injected' = Injected \cup {f}
        /\ faults' = faults => Injected' = Injected
    <2>1. CASE Emit(f)
      <3>1. /\ faults' \in Seq(FaultNames) /\ InOrder(faults') /\ Injected' = Injected \cup {f}
            /\ \A i \in DOMAIN faults' : faults'[i] = f \/ \E j \in DOMAIN faults : faults'[i] = faults[j]
        BY <1>1, <2>1, Emitted
      <3>2. faults' = faults => Injected' = Injected
        BY DEF Injected
      <3>3. QED
        BY <2>1, <3>1, <3>2
    <2>2. CASE faults' = faults
      <3>1. Emit(f) => faults' \in Seq(FaultNames) /\ Injected' = Injected \cup {f}
        BY <1>1, Emitted
      <3>2. QED
        BY <1>1, <2>2, <3>1 DEF Injected, InOrder
    <2>3. QED
      BY <2>1, <2>2
  <1>3. TodoOfPhase'
    <2>1. CASE todo' = Tail(todo)
      <3>1. /\ todo' \in Seq(FaultNames) /\ InOrder(todo')
            /\ Elements(todo') \subseteq Elements(todo)
            /\ \A i \in DOMAIN todo' : /\ Place(f) < Place(todo'[i])
                                       /\ \E j \in DOMAIN todo : todo'[i] = todo[j]
        BY <1>1, <2>1, RestOfChain
      <3>2. ASSUME NEW i \in DOMAIN faults', NEW j \in DOMAIN todo'
            PROVE  Place(faults'[i]) < Place(todo'[j])
        BY <1>2, <3>1 DEF IInv, TodoOfPhase
      <3>3. QED
        BY <2>1, <3>1, <3>2 DEF IInv, TodoOfPhase
    <2>2. CASE todo' = todo /\ pc' \in {"hang", "finish"}
      BY <1>1, <2>2 DEF TodoOfPhase, InOrder
    <2>3. QED
      BY <2>1, <2>2
  <1>4. todo' \in Seq(FaultNames)
    BY <1>1, RestOfChain
  <1>5. QED
    BY <1>1, <1>2, <1>3, <1>4 DEF TypesOfChain

-------------------------------------------------------------------------------
(* Steps of the client, of the shutdown and of the selection.              *)

\* The client leaves, its request is read on, the shutdown begins, or reaches the
\* request.
LEMMA ContextsKeepIInv ==
    ASSUME IInv, ClientLeaves \/ ReadUpload \/ BeginShutdown \/ ShutdownCancels
    PROVE  IInv'
  <1>1. /\ UNCHANGED <<pc, chain, todo, faults, pipelineError, proxyError, status, wire, ended,
                       called, answer, outcome, body, failures, events>>
        /\ client' \in {client, "gone"}
        /\ pc = "done" => client' = client
        /\ upload = "aborted" => upload' = "aborted"
    BY DEF ClientLeaves, ReadUpload, BeginShutdown, ShutdownCancels, chainVars, metricsVars, responseVars,
           upstreamVars
  <1>2. TypesOfChain' /\ TodoOfPhase' /\ Injected' = Injected
    BY <1>1, ChainFrame
  <1>3. TypesOfContexts'
    <2>1. CASE ClientLeaves
      BY <2>1 DEF ClientLeaves, IInv, TypesOfContexts
    <2>2. CASE BeginShutdown
      BY <2>2 DEF BeginShutdown, IInv, TypesOfContexts
    <2>3. CASE ShutdownCancels
      BY <2>3 DEF ShutdownCancels, IInv, TypesOfContexts
    <2>4. CASE ReadUpload
      BY <2>4 DEF ReadUpload, IInv, TypesOfContexts
    <2>5. QED
      BY <2>1, <2>2, <2>3, <2>4
  <1>4. Phases'
    BY <1>1, <1>2 DEF IInv, Phases
  <1>5. eventError' = eventError
    BY <1>1 DEF eventError, requestError
  <1>6. ErrorsSoFar'
    BY <1>1, <1>5 DEF IInv, ErrorsSoFar, ErrorsAreAccounted
  <1>7. StatusIsSent'
    BY <1>1 DEF IInv, StatusIsSent
  <1>8. CutsHaveReasons'
    BY <1>1, <1>2 DEF IInv, CutsHaveReasons
  <1>9. EventIsFinal'
    BY <1>1, <1>5 DEF IInv, EventIsFinal
  <1>10. TypesOfPhase'
    BY <1>1 DEF IInv, TypesOfPhase
  <1>11. TypesOfErrors'
    BY <1>1 DEF IInv, TypesOfErrors
  <1>12. TypesOfResponse'
    BY <1>1 DEF IInv, TypesOfResponse, TypesOfStatus
  <1>13. QED
    BY <1>2, <1>3, <1>4, <1>6, <1>7, <1>8, <1>9, <1>10, <1>11, <1>12 DEF IInv

-------------------------------------------------------------------------------
(* The handler's steps: it goes on, or it ends.                            *)

\* Before the handler ends there is no error, no failure and no event.
LEMMA GoesOn ==
    ASSUME IInv,
           pc \notin {"finish", "done"},
           pc' \in {"before", "wait", "failed", "hang", "forward", "upstream", "after",
                    "copy", "pause", "tunnel"},
           UNCHANGED <<client, upload, stopping, cancelled, ended, pipelineError, proxyError, failures,
                       events>>
    PROVE  TypesOfContexts' /\ TypesOfPhase' /\ TypesOfErrors' /\ ErrorsSoFar' /\ EventIsFinal'
  <1>1. TypesOfContexts'
    BY DEF IInv, TypesOfContexts
  <1>2. TypesOfPhase'
    BY DEF IInv, TypesOfPhase
  <1>3. TypesOfErrors'
    BY DEF IInv, TypesOfErrors
  <1>4. pipelineError = None /\ proxyError = None /\ failures = {}
    BY DEF IInv, ErrorsSoFar
  <1>5. eventError' = None
    BY <1>4, NoneAssumption DEF eventError, requestError
  <1>6. ErrorsSoFar'
    BY <1>4, <1>5 DEF ErrorsSoFar, ErrorsAreAccounted
  <1>7. EventIsFinal'
    BY DEF IInv, EventIsFinal
  <1>8. QED
    BY <1>1, <1>2, <1>3, <1>6, <1>7

\* At the end of the handler the event is still to come.
LEMMA Ends ==
    ASSUME IInv, pc \notin {"finish", "done"}, NEW how \in {"returned", "panicked", "hijacked"},
           End(how), UNCHANGED <<client, upload, stopping, cancelled, events>>
    PROVE  TypesOfContexts' /\ TypesOfPhase' /\ EventIsFinal'
  <1>1. TypesOfContexts'
    BY DEF IInv, TypesOfContexts
  <1>2. TypesOfPhase'
    BY NoneAssumption DEF TypesOfPhase, End
  <1>3. EventIsFinal'
    BY DEF IInv, EventIsFinal, End
  <1>4. QED
    BY <1>1, <1>2, <1>3

\* What the status writer keeps, as long as nothing is written.
LEMMA NothingWritten ==
    ASSUME IInv, pc # "done", UNCHANGED <<status, wire, client>>,
           answer' = answer \/ answer = None,
           \/ pc' \notin {"copy", "pause", "finish", "done"}
           \/ pc \in {"copy", "pause"} /\ pc' # "done"
           \/ pc' = "finish" /\ (ended' # "returned" \/ client = "gone")
    PROVE  StatusIsSent'
  <1>1. answer' # 101 => wire = IF status = 0 \/ Informational(status) THEN 0 ELSE status
    BY NoneAssumption DEF IInv, StatusIsSent
  <1>2. pc' \in {"copy", "pause"} => status # 0
    BY DEF IInv, StatusIsSent
  <1>3. pc' = "finish" /\ ended' = "returned" /\ client = "waiting" => status # 0
    BY DEF IInv, StatusIsSent
  <1>4. QED
    BY <1>1, <1>2, <1>3 DEF StatusIsSent, Informational

\* A status is written: the first one is kept, and sent unless it is an interim one.
LEMMA Written ==
    ASSUME IInv, pc # "done", NEW code \in 100 .. 599, WriteHeader(code), answer' = answer,
           pc' # "done"
    PROVE  /\ StatusIsSent' /\ status' # 0
           /\ TypesOfStatus'
  <1>1. status \in {0} \cup 100 .. 599 /\ wire \in {0, 101} \cup 200 .. 599
    BY DEF IInv, TypesOfResponse, TypesOfStatus
  <1>2. /\ status' = IF status = 0 THEN code ELSE status
        /\ wire' = IF status # 0 \/ Informational(code) THEN wire ELSE code
    BY DEF WriteHeader
  <1>3. ~Informational(code) => code \in {101} \cup 200 .. 599
    BY DEF Informational
  <1>4. /\ status' # 0 /\ TypesOfStatus'
    BY <1>1, <1>2, <1>3 DEF TypesOfStatus
  <1>5. answer # 101 => wire = IF status = 0 \/ Informational(status) THEN 0 ELSE status
    BY DEF IInv, StatusIsSent
  <1>6. answer' # 101 => wire' = IF status' = 0 \/ Informational(status') THEN 0 ELSE status'
    <2>1. CASE status = 0
      BY <1>2, <1>4, <1>5, <2>1
    <2>2. CASE status # 0
      BY <1>2, <1>4, <1>5, <2>2
    <2>3. QED
      BY <2>1, <2>2
  <1>7. QED
    BY <1>4, <1>6 DEF StatusIsSent, Informational

\* The response's types, as long as nothing of it changes.
LEMMA ResponseFrame ==
    ASSUME IInv, UNCHANGED <<body, status, wire, called, answer, outcome>>
    PROVE  TypesOfResponse'
  BY DEF IInv, TypesOfResponse, TypesOfStatus

\* Cuts, as long as neither the body nor what became of it changes.
LEMMA CutsFrame ==
    ASSUME IInv, UNCHANGED <<client, outcome, body>>, Injected \subseteq Injected',
           proxyError' = proxyError \/ proxyError' # "canceled", pc' # "pause"
    PROVE  CutsHaveReasons'
  BY DEF IInv, CutsHaveReasons

\* The chain is selected, and its faults before the API come next.
LEMMA SelectChainKeepsIInv ==
    ASSUME IInv, SelectChain
    PROVE  IInv'
  <1>1. PICK rule \in Chains :
           /\ chain' = rule /\ todo' = Build(rule \cap BeforeFaults)
           /\ pc' = IF rule = {} THEN "forward" ELSE "before"
    BY DEF SelectChain
  <1>2. /\ UNCHANGED <<client, upload, stopping, cancelled, faults, pipelineError, proxyError, status, wire,
                       ended, called, answer, outcome, body, failures, events>>
        /\ pc = "arrive" /\ pc' \in {"forward", "before"}
    BY <1>1 DEF SelectChain, contextVars, metricsVars, responseVars, upstreamVars
  <1>3. TypesOfContexts' /\ TypesOfPhase' /\ TypesOfErrors' /\ ErrorsSoFar' /\ EventIsFinal'
    BY <1>2, GoesOn
  <1>4. faults = <<>> /\ DOMAIN faults = {} /\ Injected' = {} /\ Injected = {}
    <2>1. faults = <<>>
      BY <1>2 DEF IInv, Phases
    <2>2. DOMAIN faults = {}
      BY <2>1
    <2>3. QED
      BY <1>2, <2>1, <2>2 DEF Injected
  <1>5. /\ todo' \in Seq(FaultNames) /\ InOrder(todo')
        /\ Elements(todo') \subseteq BeforeFaults
        /\ rule = {} => todo' = <<>>
    BY <1>1, BuildIsInOrder, NoFaultsNoChain
  <1>6. TypesOfChain'
    BY <1>1, <1>2, <1>5, InputsAssumption DEF IInv, TypesOfChain, InOrder
  <1>7. TodoOfPhase'
    <2>1. pc' = "forward" => todo' = <<>>
      BY <1>1, <1>5
    <2>2. pc' \in {"forward", "before"} /\ faults' = faults
      BY <1>2
    <2>3. QED
      BY <1>4, <1>5, <2>1, <2>2 DEF TodoOfPhase, InOrder, Elements
  <1>8. Phases'
    BY <1>2, <1>4 DEF IInv, Phases
  <1>9. StatusIsSent' /\ TypesOfResponse' /\ CutsHaveReasons'
    BY <1>2, <1>4, NothingWritten, ResponseFrame, CutsFrame
  <1>10. QED
    BY <1>3, <1>6, <1>7, <1>8, <1>9 DEF IInv

\* A fault does not trigger, or is injected, and the chain goes on; a fault on the
\* response may wrap its body.
LEMMA FaultKeepsIInv ==
    ASSUME IInv, NEW f, pc \in {"before", "wait", "after"}, todo # <<>>, Head(todo) = f,
           Emit(f) \/ faults' = faults, f \notin {"reset", "status", "redirect", "hang"} \/ faults' = faults,
           todo' = Tail(todo), pc' = IF pc = "wait" THEN "before" ELSE pc,
           \/ body' = body
           \/ pc = "after" /\ f = "mutate" /\ body' = body \cup {f}
           \/ pc = "after" /\ f \in BodyFaults /\ body' = body \cup {f} /\ Emit(f),
           UNCHANGED <<client, upload, stopping, cancelled, chain, pipelineError, proxyError, status, wire,
                       ended, called, answer, outcome, failures, events>>
    PROVE  IInv'
  <1>1. TypesOfContexts' /\ TypesOfPhase' /\ TypesOfErrors' /\ ErrorsSoFar' /\ EventIsFinal'
    BY GoesOn
  <1>2. /\ TypesOfChain' /\ TodoOfPhase'
        /\ Emit(f) => Injected' = Injected \cup {f}
        /\ faults' = faults => Injected' = Injected
    BY TakesFirst
  <1>3. /\ f \in FaultNames
        /\ pc \in {"before", "wait"} => f \in BeforeFaults
        /\ pc = "after" => f \in FaultNames \ BeforeFaults
    BY FirstOfTodo
  <1>4. Injected \subseteq Injected' /\ Injected' \subseteq Injected \cup {f}
    BY <1>2
  <1>5. Phases'
    <2>1. CASE pc = "after"
      <3>1. f \notin {"reset", "status", "redirect", "hang"}
        BY <1>3, <2>1 DEF BeforeFaults
      <3>2. called /\ called' /\ pc' = "after"
        BY <2>1 DEF IInv, Phases
      <3>3. QED
        BY <1>4, <3>1, <3>2 DEF IInv, Phases
    <2>2. CASE pc \in {"before", "wait"}
      <3>1. f = "latency" \/ Injected' = Injected
        BY <1>2, <1>3, <2>2 DEF BeforeFaults
      <3>2. ~called /\ ~called' /\ pc' = "before" /\ answer' = None /\ Injected' \subseteq {"latency"}
        BY <1>4, <2>2, <3>1 DEF IInv, Phases
      <3>3. QED
        BY <3>2 DEF Phases
    <2>3. QED
      BY <2>1, <2>2
  <1>6. StatusIsSent'
    BY NothingWritten
  <1>7. TypesOfResponse'
    <2>1. body' \subseteq BodyFaults
      BY DEF IInv, TypesOfResponse, BodyFaults
    <2>2. QED
      BY <2>1 DEF IInv, TypesOfResponse, TypesOfStatus
  <1>8. CutsHaveReasons'
    BY <1>2, <1>4 DEF IInv, CutsHaveReasons
  <1>9. QED
    BY <1>1, <1>2, <1>5, <1>6, <1>7, <1>8 DEF IInv

\* The faults that leave the chain to go on.
LEMMA ChainGoesOnKeepsIInv ==
    ASSUME IInv,
           Skip \/ Elapse \/ Mutate \/ ChangeHeaders \/ Truncate \/ Stall \/ Throttle
    PROVE  IInv'
  <1> USE DEF Reaches, metricsVars, contextVars, responseVars, upstreamVars
  <1>1. CASE Skip
    BY <1>1, FaultKeepsIInv DEF Skip
  <1>2. CASE Elapse
    <2>1. todo # <<>> /\ Head(todo) = "latency"
      BY <1>2 DEF Elapse, IInv, TodoOfPhase
    <2>2. QED
      BY <1>2, <2>1, FaultKeepsIInv DEF Elapse
  <1>3. CASE Mutate
    <2>1. faults' = faults \/ Emit("mutate")
      <3>1. faults \in Seq(FaultNames)
        BY DEF IInv, TypesOfChain
      <3>2. faults \o <<>> = faults /\ faults \o <<"mutate">> = Append(faults, "mutate")
        BY <3>1, Places
      <3>3. QED
        BY <1>3, <3>2 DEF Mutate, Emit
    <2>2. QED
      BY <1>3, <2>1, FaultKeepsIInv DEF Mutate
  <1>4. CASE ChangeHeaders
    BY <1>4, FaultKeepsIInv DEF ChangeHeaders
  <1>5. ASSUME NEW f \in {"truncate", "stall", "bandwidth"}, WrapBody(f)
        PROVE  IInv'
    BY <1>5, FaultKeepsIInv DEF WrapBody, BodyFaults
  <1>6. QED
    BY <1>1, <1>2, <1>3, <1>4, <1>5 DEF Truncate, Stall, Throttle

\* A latency starts, or is interrupted.
LEMMA WaitKeepsIInv ==
    ASSUME IInv, Wait \/ InterruptWait
    PROVE  IInv'
  <1>1. /\ UNCHANGED <<client, upload, stopping, cancelled, chain, todo, faults, pipelineError, proxyError,
                       status, wire, ended, called, answer, outcome, body, failures, events>>
        /\ pc \in {"before", "wait"}
        /\ \/ pc' = "failed"
           \/ pc = "before" /\ pc' = "wait" /\ todo # <<>> /\ Head(todo) = "latency"
    BY DEF Wait, InterruptWait, Reaches, contextVars, chainVars, metricsVars, responseVars,
           upstreamVars
  <1>2. TypesOfContexts' /\ TypesOfPhase' /\ TypesOfErrors' /\ ErrorsSoFar' /\ EventIsFinal'
    BY <1>1, GoesOn
  <1>3. TypesOfChain' /\ TodoOfPhase' /\ Injected' = Injected
    BY <1>1, ChainFrame
  <1>4. Phases'
    BY <1>1, <1>3 DEF IInv, Phases
  <1>5. StatusIsSent' /\ TypesOfResponse' /\ CutsHaveReasons'
    BY <1>1, <1>3, NothingWritten, ResponseFrame, CutsFrame
  <1>6. QED
    BY <1>2, <1>3, <1>4, <1>5 DEF IInv

\* A hang begins.
LEMMA HangKeepsIInv ==
    ASSUME IInv, Hang
    PROVE  IInv'
  <1>1. /\ UNCHANGED <<client, upload, stopping, cancelled, chain, todo, pipelineError, proxyError,
                       status, wire, ended, called, answer, outcome, body, failures, events>>
        /\ pc = "before" /\ pc' = "hang" /\ todo # <<>> /\ Head(todo) = "hang" /\ Emit("hang")
    BY DEF Hang, Reaches, contextVars, chainVars, responseVars, upstreamVars
  <1>2. TypesOfContexts' /\ TypesOfPhase' /\ TypesOfErrors' /\ ErrorsSoFar' /\ EventIsFinal'
    BY <1>1, GoesOn
  <1>3. TypesOfChain' /\ TodoOfPhase' /\ Injected' = Injected \cup {"hang"}
    BY <1>1, TakesFirst
  <1>4. Phases'
    BY <1>1, <1>3 DEF IInv, Phases
  <1>5. StatusIsSent' /\ TypesOfResponse' /\ CutsHaveReasons'
    BY <1>1, <1>3, NothingWritten, ResponseFrame, CutsFrame
  <1>6. QED
    BY <1>2, <1>3, <1>4, <1>5 DEF IInv

\* The request is forwarded, with the faults on the response to come.
LEMMA ForwardKeepsIInv ==
    ASSUME IInv, Forward
    PROVE  IInv'
  <1>1. /\ UNCHANGED <<client, upload, stopping, cancelled, chain, faults, pipelineError, proxyError,
                       status, wire, ended, answer, outcome, body, failures, events>>
        /\ pc \in {"forward", "before"} /\ pc' = "upstream" /\ called' = TRUE
        /\ todo' = Build(chain \ BeforeFaults)
    BY DEF Forward, contextVars, metricsVars, responseVars
  <1>2. TypesOfContexts' /\ TypesOfPhase' /\ TypesOfErrors' /\ ErrorsSoFar' /\ EventIsFinal'
    BY <1>1, GoesOn
  <1>3. Injected' = Injected /\ Injected \subseteq {"latency"} /\ answer = None /\ pipelineError = None
    BY <1>1 DEF IInv, Phases, Injected, ErrorsSoFar
  <1>4. /\ todo' \in Seq(FaultNames) /\ InOrder(todo')
        /\ Elements(todo') \subseteq FaultNames \ BeforeFaults
    <2>1. chain \subseteq FaultNames
      BY DEF IInv, TypesOfChain
    <2>2. QED
      BY <1>1, <2>1, BuildIsInOrder
  <1>5. TypesOfChain'
    BY <1>1, <1>4 DEF IInv, TypesOfChain, InOrder
  <1>6. TodoOfPhase'
    <2>1. ASSUME NEW i \in DOMAIN faults', NEW j \in DOMAIN todo'
          PROVE  Place(faults'[i]) < Place(todo'[j])
      <3>1. faults'[i] = "latency"
        BY <1>1, <1>3 DEF Injected
      <3>2. todo'[j] \in FaultNames \ {"latency"}
        BY <1>4 DEF Elements, BeforeFaults
      <3>3. QED
        BY <3>1, <3>2, Places
    <2>2. QED
      BY <1>1, <1>4, <2>1 DEF TodoOfPhase, Elements, InOrder
  <1>7. Phases'
    BY <1>1, <1>3, NoneAssumption DEF Phases
  <1>8. StatusIsSent' /\ CutsHaveReasons'
    BY <1>1, <1>3, NothingWritten, CutsFrame
  <1>9. TypesOfResponse'
    BY <1>1 DEF IInv, TypesOfResponse, TypesOfStatus
  <1>10. QED
    BY <1>2, <1>5, <1>6, <1>7, <1>8, <1>9 DEF IInv

\* The API sends an interim response, or its final one.
LEMMA UpstreamKeepsIInv ==
    ASSUME IInv, Hints \/ Respond
    PROVE  IInv'
  <1>1. /\ UNCHANGED <<client, upload, stopping, cancelled, chain, todo, faults, pipelineError, proxyError,
                       ended, called, outcome, body, failures, events>>
        /\ pc = "upstream" /\ pc' \in {"upstream", "after"} /\ called /\ answer = None
    BY DEF Hints, Respond, contextVars, chainVars, metricsVars, responseVars, upstreamVars,
           IInv, Phases
  <1>2. \/ WriteHeader(103) /\ pc' = "upstream" /\ answer' = answer
        \/ status' = status /\ wire' = wire /\ answer' \in UpstreamCodes /\ pc' = "after"
    BY DEF Hints, Respond, responseVars, upstreamVars
  <1>3. TypesOfContexts' /\ TypesOfPhase' /\ TypesOfErrors' /\ ErrorsSoFar' /\ EventIsFinal'
    BY <1>1, GoesOn
  <1>4. TypesOfChain' /\ TodoOfPhase' /\ Injected' = Injected
    BY <1>1, ChainFrame
  <1>5. Phases'
    BY <1>1, <1>2, <1>4 DEF IInv, Phases
  <1>6. CutsHaveReasons'
    BY <1>1, <1>4, CutsFrame
  <1>7. /\ StatusIsSent'
        /\ TypesOfStatus'
    <2>1. CASE WriteHeader(103) /\ answer' = answer
      <3>1. 103 \in 100 .. 599 /\ pc # "done" /\ pc' # "done"
        BY <1>1
      <3>2. QED
        BY <2>1, <3>1, Written
    <2>2. CASE status' = status /\ wire' = wire
      <3>1. StatusIsSent'
        BY <1>1, <2>2, NothingWritten
      <3>2. QED
        BY <2>2, <3>1 DEF IInv, TypesOfResponse, TypesOfStatus
    <2>3. QED
      BY <1>2, <2>1, <2>2
  <1>8. TypesOfResponse'
    <2>1. answer' \in {None} \cup UpstreamCodes
      BY <1>1, <1>2
    <2>2. QED
      BY <1>1, <1>7, <2>1 DEF IInv, TypesOfResponse
  <1>9. QED
    BY <1>3, <1>4, <1>5, <1>6, <1>7, <1>8 DEF IInv

\* The response's header is on its way to the client.
LEMMA DeliverKeepsIInv ==
    ASSUME IInv, Deliver
    PROVE  IInv'
  <1>1. /\ UNCHANGED <<client, upload, stopping, cancelled, chain, todo, faults, pipelineError, proxyError,
                       ended, called, answer, outcome, body, failures, events>>
        /\ pc = "after" /\ pc' = "copy" /\ called /\ answer # 101 /\ WriteHeader(answer)
    BY DEF Deliver, contextVars, chainVars, metricsVars, upstreamVars, IInv, Phases
  <1>2. TypesOfContexts' /\ TypesOfPhase' /\ TypesOfErrors' /\ ErrorsSoFar' /\ EventIsFinal'
    BY <1>1, GoesOn
  <1>3. TypesOfChain' /\ TodoOfPhase' /\ Injected' = Injected
    BY <1>1, ChainFrame
  <1>4. Phases'
    BY <1>1, <1>3 DEF IInv, Phases
  <1>5. CutsHaveReasons'
    BY <1>1, <1>3, CutsFrame
  <1>6. answer \in 100 .. 599
    <2>1. answer \in UpstreamCodes
      BY <1>1 DEF IInv, Phases
    <2>2. QED
      BY <2>1, InputsAssumption
  <1>7. StatusIsSent' /\ TypesOfStatus'
    BY <1>1, <1>6, Written
  <1>8. TypesOfResponse'
    BY <1>1, <1>7 DEF IInv, TypesOfResponse
  <1>9. QED
    BY <1>2, <1>3, <1>4, <1>5, <1>7, <1>8 DEF IInv

\* The connection becomes a tunnel.
LEMMA SwitchKeepsIInv ==
    ASSUME IInv, SwitchProtocols
    PROVE  IInv'
  <1>1. /\ UNCHANGED <<client, upload, stopping, cancelled, chain, todo, faults, pipelineError, proxyError,
                       status, ended, called, answer, outcome, body, failures, events>>
        /\ pc = "after" /\ pc' = "tunnel" /\ called /\ answer = 101 /\ wire' = 101
    BY DEF SwitchProtocols, contextVars, chainVars, metricsVars, upstreamVars, IInv, Phases
  <1>2. TypesOfContexts' /\ TypesOfPhase' /\ TypesOfErrors' /\ ErrorsSoFar' /\ EventIsFinal'
    BY <1>1, GoesOn
  <1>3. TypesOfChain' /\ TodoOfPhase' /\ Injected' = Injected
    BY <1>1, ChainFrame
  <1>4. Phases'
    BY <1>1, <1>3 DEF IInv, Phases
  <1>5. StatusIsSent' /\ CutsHaveReasons'
    BY <1>1, <1>3, CutsFrame DEF StatusIsSent
  <1>6. TypesOfResponse'
    BY <1>1 DEF IInv, TypesOfResponse, TypesOfStatus
  <1>7. QED
    BY <1>2, <1>3, <1>4, <1>5, <1>6 DEF IInv

\* A body pauses for a fault, and goes on.
LEMMA PauseKeepsIInv ==
    ASSUME IInv, Pause \/ PauseOver
    PROVE  IInv'
  <1>1. /\ UNCHANGED <<client, upload, stopping, cancelled, chain, todo, faults, pipelineError, proxyError,
                       status, wire, ended, called, answer, outcome, failures, events>>
        /\ body' \in {body, body \ {"stall"}}
        /\ \/ pc = "copy" /\ pc' = "pause" /\ body \cap {"stall", "bandwidth"} # {}
           \/ pc = "pause" /\ pc' = "copy"
    BY DEF Pause, PauseOver, contextVars, chainVars, metricsVars, responseVars, upstreamVars
  <1>2. TypesOfContexts' /\ TypesOfPhase' /\ TypesOfErrors' /\ ErrorsSoFar' /\ EventIsFinal'
    BY <1>1, GoesOn
  <1>3. TypesOfChain' /\ TodoOfPhase' /\ Injected' = Injected
    BY <1>1, ChainFrame
  <1>4. Phases'
    BY <1>1, <1>3 DEF IInv, Phases
  <1>5. StatusIsSent'
    BY <1>1, NothingWritten
  <1>6. CutsHaveReasons'
    BY <1>1, <1>3 DEF IInv, CutsHaveReasons
  <1>7. TypesOfResponse'
    BY <1>1 DEF IInv, TypesOfResponse, TypesOfStatus
  <1>8. QED
    BY <1>2, <1>3, <1>4, <1>5, <1>6, <1>7 DEF IInv

-------------------------------------------------------------------------------
(* The end of the handler.                                                 *)

\* What a request has been through, at the end of its handler.
LEMMA PhasesAtEnd ==
    ASSUME IInv, pc' = "finish", UNCHANGED <<called, answer>>, called => Injected' = Injected,
           called => pipelineError' # "shutting down"
    PROVE  Phases'
  <1>1. CASE called
    <2>1. Injected \cap {"reset", "status", "redirect", "hang"} = {}
      BY <1>1 DEF IInv, Phases
    <2>2. QED
      BY <1>1, <2>1 DEF Phases
  <1>2. CASE ~called
    BY <1>2 DEF Phases
  <1>3. QED
    BY <1>1, <1>2

\* What became of the body, at the end of the handler.
LEMMA ResponseAtEnd ==
    ASSUME IInv, UNCHANGED <<called, answer, body>>,
           TypesOfStatus',
           outcome' \in {outcome, "whole", "broken", "cut"}
    PROVE  TypesOfResponse'
  BY DEF IInv, TypesOfResponse

\* Who was cut, at the end of the handler.
LEMMA CutsAtEnd ==
    ASSUME IInv, pc' = "finish", UNCHANGED <<client, body>>, Injected \subseteq Injected',
           proxyError' = "canceled" => client = "gone",
           outcome' = "cut" => \/ outcome = "cut" \/ client = "gone"
                               \/ Injected \cap {"truncate", "stall", "bandwidth"} # {}
    PROVE  CutsHaveReasons'
  BY DEF IInv, CutsHaveReasons

\* What the end of a handler has to keep, whatever ends it.
LEMMA EndKeepsIInv ==
    ASSUME IInv, pc \notin {"finish", "done"}, NEW how \in {"returned", "panicked", "hijacked"},
           End(how),
           UNCHANGED <<client, upload, stopping, cancelled, events>>,
           TypesOfChain', TodoOfPhase', Phases', TypesOfResponse', CutsHaveReasons',
           StatusIsSent', TypesOfErrors', answer' # 101 => ErrorsAreAccounted'
    PROVE  IInv'
  <1>1. pc' = "finish" /\ ended' = how
    BY DEF End
  <1>2. TypesOfContexts' /\ TypesOfPhase' /\ EventIsFinal'
    BY Ends
  <1>3. ErrorsSoFar'
    BY <1>1 DEF ErrorsSoFar
  <1>4. QED
    BY <1>2, <1>3 DEF IInv

\* The reply of a handler is what the writer keeps.
LEMMA Replied ==
    ASSUME IInv, pc # "done", NEW code \in 100 .. 599, Reply(code), answer' = answer
    PROVE  /\ End("returned") /\ StatusIsSent'
           /\ TypesOfStatus'
  <1>1. End("returned") /\ WriteHeader(code) /\ pc' # "done"
    BY DEF Reply, End
  <1>2. QED
    BY <1>1, Written

\* A handler that ends without a reply leaves what the writer keeps.
LEMMA NoReply ==
    ASSUME IInv, pc # "done", UNCHANGED <<status, wire, client, answer>>,
           NEW how \in {"returned", "panicked", "hijacked"}, End(how),
           how # "returned" \/ client = "gone" \/ pc \in {"copy", "pause"}
    PROVE  /\ StatusIsSent'
           /\ TypesOfStatus'
  <1>1. pc' = "finish" /\ ended' = how
    BY DEF End
  <1>2. StatusIsSent'
    BY <1>1, NothingWritten
  <1>3. status \in {0} \cup 100 .. 599 /\ wire \in {0, 101} \cup 200 .. 599
    BY DEF IInv, TypesOfResponse, TypesOfStatus
  <1>4. QED
    BY <1>2, <1>3 DEF TypesOfStatus

\* The chain, at an end without a fault.
LEMMA ChainAtEnd ==
    ASSUME IInv, UNCHANGED <<chain, todo, faults>>, NEW how, End(how)
    PROVE  TypesOfChain' /\ TodoOfPhase' /\ Injected' = Injected
  <1>1. pc' = "finish"
    BY DEF End
  <1>2. QED
    BY <1>1, ChainFrame

\* The errors of a handler that ends without one, or with one it was given.
LEMMA ErrorOfEnd ==
    ASSUME IInv, pc \notin {"finish", "done"}
    PROVE  /\ pipelineError = None /\ proxyError = None /\ failures = {}
           /\ UNCHANGED <<pipelineError, proxyError, failures>> =>
                 TypesOfErrors' /\ eventError' = None /\ failures' = {}
           /\ pipelineError' = "shutting down" /\ UNCHANGED <<proxyError, failures>> =>
                 TypesOfErrors' /\ eventError' = None /\ failures' = {}
           /\ /\ pipelineError' \in {"invalid header", "before hook", "no hijack"}
              /\ proxyError' = proxyError
              => TypesOfErrors' /\ eventError' # None
           /\ /\ pipelineError' \in {None, "after hook"}
              /\ proxyError' \in {"unreachable", "upload", "broken", "not writable", "not flushed"}
              => TypesOfErrors' /\ eventError' # None
           /\ /\ pipelineError' \in {None, "after hook"} /\ proxyError' = "canceled"
              => TypesOfErrors' /\ eventError' = None
  <1>1. pipelineError = None /\ proxyError = None /\ failures = {}
    BY DEF IInv, ErrorsSoFar
  <1> USE <1>1, NoneAssumption DEF TypesOfErrors, eventError, requestError
  <1>2. UNCHANGED <<pipelineError, proxyError, failures>> =>
           TypesOfErrors' /\ eventError' = None /\ failures' = {}
    OBVIOUS
  <1>3. pipelineError' = "shutting down" /\ UNCHANGED <<proxyError, failures>> =>
           TypesOfErrors' /\ eventError' = None /\ failures' = {}
    OBVIOUS
  <1>4. /\ pipelineError' \in {"invalid header", "before hook", "no hijack"}
        /\ proxyError' = proxyError
        => TypesOfErrors' /\ eventError' # None
    OBVIOUS
  <1>5. /\ pipelineError' \in {None, "after hook"}
        /\ proxyError' \in {"unreachable", "upload", "broken", "not writable", "not flushed"}
        => TypesOfErrors' /\ eventError' # None
    OBVIOUS
  <1>6. /\ pipelineError' \in {None, "after hook"} /\ proxyError' = "canceled"
        => TypesOfErrors' /\ eventError' = None
    OBVIOUS
  <1>7. QED
    BY <1>2, <1>3, <1>4, <1>5, <1>6

\* A preflight is answered, and a header that is no override refused.
LEMMA RejectKeepsIInv ==
    ASSUME IInv, handlePreflight \/ RejectHeader
    PROVE  IInv'
  <1>1. /\ UNCHANGED <<client, upload, stopping, cancelled, events, chain, todo, faults, proxyError,
                       called, answer, body, outcome>>
        /\ pc = "arrive"
        /\ Reply(204) \/ Reply(400)
        /\ \/ UNCHANGED <<pipelineError, failures>>
           \/ pipelineError' = "invalid header" /\ failures' # {}
    BY DEF handlePreflight, RejectHeader, contextVars, chainVars, metricsVars, upstreamVars
  <1>2. /\ End("returned") /\ StatusIsSent'
        /\ TypesOfStatus'
    <2>1. 204 \in 100 .. 599 /\ 400 \in 100 .. 599
      OBVIOUS
    <2>2. pc # "done" /\ answer' = answer
      BY <1>1
    <2>3. CASE Reply(204)
      BY <2>1, <2>2, <2>3, Replied
    <2>4. CASE Reply(400)
      BY <2>1, <2>2, <2>4, Replied
    <2>5. QED
      BY <1>1, <2>3, <2>4
  <1>3. TypesOfChain' /\ TodoOfPhase' /\ Injected' = Injected
    BY <1>1, <1>2, ChainAtEnd
  <1>4. /\ TypesOfErrors' /\ ErrorsAreAccounted'
        /\ pipelineError' # "shutting down" /\ proxyError' # "canceled"
    BY <1>1, ErrorOfEnd, NoneAssumption DEF ErrorsAreAccounted
  <1>5. pc' = "finish"
    BY <1>2 DEF End
  <1>6. Phases' /\ TypesOfResponse' /\ CutsHaveReasons'
    BY <1>1, <1>2, <1>3, <1>4, <1>5, PhasesAtEnd, ResponseAtEnd, CutsAtEnd
  <1>7. QED
    BY <1>1, <1>2, <1>3, <1>4, <1>6, EndKeepsIInv

\* A wait that failed, or a hang that is over, ends without an answer, with the
\* rejection of the shutdown or with an error.
LEMMA WaitOverKeepsIInv ==
    ASSUME IInv, Failed \/ HangOver
    PROVE  IInv'
  <1>1. /\ UNCHANGED <<client, upload, stopping, cancelled, events, chain, todo, faults, proxyError,
                       called, answer, body, outcome>>
        /\ pc \in {"failed", "hang"}
    BY DEF Failed, HangOver, contextVars, chainVars, upstreamVars
  <1>2. \/ client = "gone" /\ End("returned") /\ UNCHANGED <<pipelineError, failures, status, wire>>
        \/ pipelineError' = "shutting down" /\ Reply(503) /\ UNCHANGED failures
        \/ pipelineError' = "before hook" /\ failures' # {} /\ Reply(500)
    <2>1. CASE Failed
      <3>1. CASE RequestContextDone
        <4>1. /\ End("returned")
              /\ UNCHANGED <<pipelineError, failures, status, wire>>
          BY <2>1, <3>1 DEF Failed
        <4>2. QED
          BY <3>1, <4>1 DEF RequestContextDone
      <3>2. CASE ~RequestContextDone /\ stopping
        BY <2>1, <3>2 DEF Failed, rejectDuringShutdown
      <3>3. CASE ~RequestContextDone /\ ~stopping
        BY <2>1, <3>3 DEF Failed
      <3>4. QED
        BY <3>1, <3>2, <3>3
    <2>2. CASE HangOver
      <3>1. CASE RequestContextDone
        BY <2>2, <3>1 DEF HangOver, RequestContextDone
      <3>2. CASE ~RequestContextDone
        BY <2>2, <3>2 DEF HangOver, rejectDuringShutdown
      <3>3. QED
        BY <3>1, <3>2
    <2>3. QED
      BY <2>1, <2>2
  <1>3. /\ End("returned") /\ StatusIsSent'
        /\ TypesOfStatus'
    <2>1. CASE client = "gone" /\ End("returned") /\ UNCHANGED <<pipelineError, failures, status, wire>>
      BY <1>1, <2>1, NoReply
    <2>2. 503 \in 100 .. 599 /\ 500 \in 100 .. 599
      OBVIOUS
    <2>3. pc # "done" /\ answer' = answer
      BY <1>1
    <2>4. CASE Reply(503)
      BY <2>2, <2>3, <2>4, Replied
    <2>5. CASE Reply(500)
      BY <2>2, <2>3, <2>5, Replied
    <2>6. QED
      BY <1>2, <2>1, <2>4, <2>5
  <1>4. TypesOfChain' /\ TodoOfPhase' /\ Injected' = Injected
    BY <1>1, <1>3, ChainAtEnd
  <1>5. ~called
    BY <1>1 DEF IInv, Phases
  <1>6. /\ TypesOfErrors' /\ ErrorsAreAccounted'
        /\ proxyError' # "canceled"
    <2>1. \/ UNCHANGED <<pipelineError, failures>>
          \/ pipelineError' = "shutting down" /\ UNCHANGED failures
          \/ pipelineError' = "before hook" /\ failures' # {}
      BY <1>2
    <2>2. QED
      BY <1>1, <2>1, ErrorOfEnd, NoneAssumption DEF ErrorsAreAccounted
  <1>7. pc' = "finish"
    BY <1>3 DEF End
  <1>8. Phases' /\ TypesOfResponse' /\ CutsHaveReasons'
    BY <1>1, <1>3, <1>4, <1>5, <1>6, <1>7, PhasesAtEnd, ResponseAtEnd, CutsAtEnd
  <1>9. QED
    BY <1>1, <1>3, <1>4, <1>6, <1>8, EndKeepsIInv

\* A connection is reset, and the handler panics where it cannot be.
LEMMA ResetKeepsIInv ==
    ASSUME IInv, resetConnection
    PROVE  IInv'
  <1>1. /\ UNCHANGED <<client, upload, stopping, cancelled, events, chain, todo, proxyError, status, wire,
                       called, answer, body, outcome>>
        /\ pc = "before" /\ todo # <<>> /\ Head(todo) = "reset" /\ Emit("reset")
    BY DEF resetConnection, Reaches, contextVars, chainVars, upstreamVars
  <1>2. PICK how \in {"panicked", "hijacked"} :
           /\ End(how)
           /\ \/ UNCHANGED <<pipelineError, failures>>
              \/ pipelineError' = "no hijack" /\ failures' # {}
    <2>1. PICK hijacked \in HijackResults :
             /\ pipelineError' = IF hijacked THEN pipelineError ELSE "no hijack"
             /\ failures' = failures \cup (IF hijacked THEN {} ELSE {"no hijack"})
             /\ End(IF hijacked THEN "hijacked" ELSE "panicked")
      BY DEF resetConnection
    <2>2. CASE hijacked
      <3>1. End("hijacked") /\ UNCHANGED <<pipelineError, failures>>
        BY <2>1, <2>2
      <3>2. QED
        BY <3>1
    <2>3. CASE ~hijacked
      <3>1. End("panicked") /\ pipelineError' = "no hijack" /\ failures' # {}
        BY <2>1, <2>3
      <3>2. QED
        BY <3>1
    <2>4. QED
      BY <2>2, <2>3
  <1>3. pc' = "finish"
    BY <1>2 DEF End
  <1>4. /\ StatusIsSent'
        /\ TypesOfStatus'
    BY <1>1, <1>2, NoReply
  <1>5. TypesOfChain' /\ TodoOfPhase' /\ Injected' = Injected \cup {"reset"}
    BY <1>1, <1>3, TakesFirst
  <1>6. ~called
    BY <1>1 DEF IInv, Phases
  <1>7. /\ TypesOfErrors' /\ ErrorsAreAccounted'
        /\ proxyError' # "canceled"
    BY <1>1, <1>2, ErrorOfEnd, NoneAssumption DEF ErrorsAreAccounted
  <1>8. Phases' /\ TypesOfResponse' /\ CutsHaveReasons'
    BY <1>1, <1>3, <1>4, <1>5, <1>6, <1>7, PhasesAtEnd, ResponseAtEnd, CutsAtEnd
  <1>9. QED
    BY <1>1, <1>2, <1>4, <1>5, <1>7, <1>8, EndKeepsIInv

\* A fault answers the request.
LEMMA ShortCircuitKeepsIInv ==
    ASSUME IInv, NEW f, NEW code \in 100 .. 599, ShortCircuit(f, code)
    PROVE  IInv'
  <1>1. /\ UNCHANGED <<client, upload, stopping, cancelled, events, chain, todo, pipelineError, proxyError,
                       called, answer, body, outcome, failures>>
        /\ pc = "before" /\ todo # <<>> /\ Head(todo) = f /\ Emit(f) /\ Reply(code)
    BY DEF ShortCircuit, Reaches, contextVars, chainVars, upstreamVars
  <1>2. /\ End("returned") /\ StatusIsSent'
        /\ TypesOfStatus'
    BY <1>1, Replied
  <1>3. pc' = "finish"
    BY <1>2 DEF End
  <1>4. TypesOfChain' /\ TodoOfPhase' /\ Injected' = Injected \cup {f}
    BY <1>1, <1>3, TakesFirst
  <1>5. ~called
    BY <1>1 DEF IInv, Phases
  <1>6. /\ TypesOfErrors' /\ ErrorsAreAccounted'
        /\ proxyError' # "canceled"
    BY <1>1, ErrorOfEnd, NoneAssumption DEF ErrorsAreAccounted
  <1>7. Phases' /\ TypesOfResponse' /\ CutsHaveReasons'
    BY <1>1, <1>2, <1>3, <1>4, <1>5, <1>6, PhasesAtEnd, ResponseAtEnd, CutsAtEnd
  <1>8. QED
    BY <1>1, <1>2, <1>4, <1>6, <1>7, EndKeepsIInv

\* httputil has no response to pass on.
LEMMA NoResponseKeepsIInv ==
    ASSUME IInv,
           \/ Unreachable \/ Abandon \/ UploadFails \/ RefuseSwitch
           \/ \E why \in {"canceled", "upload", "broken"} : AfterFails(why)
    PROVE  IInv'
  <1>1. /\ UNCHANGED <<client, upload, stopping, cancelled, events, chain, todo, faults, called, answer, body,
                       outcome>>
        /\ pc \in {"upstream", "after"} /\ pipelineError' \in {pipelineError, "after hook"}
        /\ Reply(502)
    <2>1. CASE Unreachable
      BY <2>1 DEF Unreachable, handleProxyError, contextVars, chainVars, upstreamVars
    <2>2. CASE Abandon
      BY <2>2 DEF Abandon, handleProxyError, contextVars, chainVars, upstreamVars
    <2>3. CASE UploadFails
      BY <2>3 DEF UploadFails, handleProxyError, contextVars, chainVars, upstreamVars
    <2>4. CASE \E why \in {"canceled", "upload", "broken"} : AfterFails(why)
      BY <2>4 DEF AfterFails, handleProxyError, Reaches, contextVars, chainVars, upstreamVars
    <2>5. CASE RefuseSwitch
      BY <2>5 DEF RefuseSwitch, handleProxyError, contextVars, chainVars, upstreamVars
    <2>6. QED
      BY <2>1, <2>2, <2>3, <2>4, <2>5
  <1>2. \/ proxyError' \in {"unreachable", "broken"} /\ failures' # {}
        \/ proxyError' = "canceled" /\ failures' = failures /\ client = "gone"
        \/ proxyError' = "upload" /\ failures' = failures /\ upload = "aborted"
        \/ proxyError' = "not writable" /\ answer = 101
    <2>1. CASE Unreachable
      BY <2>1 DEF Unreachable, handleProxyError
    <2>2. CASE Abandon
      BY <2>2 DEF Abandon, handleProxyError, ForwardContextDone, RequestContextDone
    <2>3. CASE UploadFails
      BY <2>3 DEF UploadFails, handleProxyError
    <2>4. CASE \E why \in {"canceled", "upload", "broken"} : AfterFails(why)
      BY <2>4 DEF AfterFails, handleProxyError, ForwardContextDone, RequestContextDone
    <2>5. CASE RefuseSwitch
      BY <2>5 DEF RefuseSwitch, handleProxyError
    <2>6. QED
      BY <2>1, <2>2, <2>3, <2>4, <2>5
  <1>3. /\ End("returned") /\ StatusIsSent'
        /\ TypesOfStatus'
    <2>1. 502 \in 100 .. 599
      OBVIOUS
    <2>2. pc # "done" /\ answer' = answer /\ Reply(502)
      BY <1>1
    <2>3. QED
      BY <2>1, <2>2, Replied
  <1>4. TypesOfChain' /\ TodoOfPhase' /\ Injected' = Injected
    BY <1>1, <1>3, ChainAtEnd
  <1>5. pipelineError = None /\ proxyError = None /\ failures = {}
    BY <1>1 DEF IInv, ErrorsSoFar
  <1>6. pipelineError' \in {None, "after hook"} /\ pipelineError' # "shutting down"
    BY <1>1, <1>5, NoneAssumption
  <1>7. TypesOfErrors' /\ (answer' # 101 => ErrorsAreAccounted')
    <2>1. CASE proxyError' \in {"unreachable", "broken"} /\ failures' # {}
      BY <1>1, <1>6, <2>1, ErrorOfEnd DEF ErrorsAreAccounted
    <2>2. CASE proxyError' = "canceled" /\ failures' = failures
      BY <1>1, <1>5, <1>6, <2>2, ErrorOfEnd DEF ErrorsAreAccounted
    <2>4. CASE proxyError' = "upload" /\ failures' = failures /\ upload = "aborted"
      BY <1>1, <1>5, <1>6, <2>4, ErrorOfEnd DEF ErrorsAreAccounted
    <2>3. CASE proxyError' = "not writable" /\ answer = 101
      <3>1. TypesOfErrors'
        BY <1>1, <1>6, <2>3, ErrorOfEnd
      <3>2. QED
        BY <1>1, <2>3, <3>1
    <2>5. QED
      BY <1>2, <2>1, <2>2, <2>3, <2>4
  <1>8. proxyError' = "canceled" => client = "gone"
    BY <1>2
  <1>9. pc' = "finish"
    BY <1>3 DEF End
  <1>10. Phases' /\ TypesOfResponse' /\ CutsHaveReasons'
    BY <1>1, <1>3, <1>4, <1>6, <1>8, <1>9, PhasesAtEnd, ResponseAtEnd, CutsAtEnd
  <1>11. QED
    BY <1>1, <1>3, <1>4, <1>7, <1>10, EndKeepsIInv

\* The connection is hijacked for a tunnel to a client that has left.
LEMMA SwitchFailsKeepsIInv ==
    ASSUME IInv, SwitchFails
    PROVE  IInv'
  <1>1. /\ UNCHANGED <<client, upload, stopping, cancelled, events, chain, todo, faults, pipelineError,
                       wire, called, answer, body, outcome, failures>>
        /\ pc = "after" /\ answer = 101 /\ End("hijacked")
        /\ pc' = "finish" /\ ended' = "hijacked"
        /\ proxyError' = "not flushed" /\ status' = IF status = 0 THEN 502 ELSE status
    BY DEF SwitchFails, End, contextVars, chainVars, upstreamVars
  <1>2. TypesOfChain' /\ TodoOfPhase' /\ Injected' = Injected
    BY <1>1, ChainAtEnd
  <1>3. pipelineError' = None
    BY <1>1, ErrorOfEnd
  <1>4. TypesOfErrors'
    BY <1>1, <1>3, ErrorOfEnd
  <1>5. StatusIsSent'
    BY <1>1 DEF StatusIsSent
  <1>6. TypesOfStatus'
    <2>1. status \in {0} \cup 100 .. 599 /\ wire \in {0, 101} \cup 200 .. 599
      BY DEF IInv, TypesOfResponse, TypesOfStatus
    <2>2. 502 \in 100 .. 599
      OBVIOUS
    <2>3. status' = status \/ status' = 502
      BY <1>1
    <2>4. status' \in {0} \cup 100 .. 599
      BY <2>1, <2>2, <2>3
    <2>5. wire' = wire
      BY <1>1
    <2>6. QED
      BY <2>1, <2>4, <2>5 DEF TypesOfStatus
  <1>7. pipelineError' # "shutting down" /\ proxyError' # "canceled"
    BY <1>1, <1>3, NoneAssumption
  <1>8. Phases' /\ TypesOfResponse' /\ CutsHaveReasons'
    BY <1>1, <1>2, <1>6, <1>7, PhasesAtEnd, ResponseAtEnd, CutsAtEnd
  <1>9. QED
    BY <1>1, <1>2, <1>4, <1>5, <1>8, EndKeepsIInv

\* A response that has begun is over: whole, broken or cut.
LEMMA CopyEndsKeepsIInv ==
    ASSUME IInv, pc \in {"copy", "pause", "tunnel"}, NEW how \in {"whole", "broken", "cut", outcome},
           NEW e \in {"returned", "panicked", "hijacked"}, End(e), outcome' = how,
           pc = "tunnel" => e = "hijacked",
           how = "cut" => \/ outcome = "cut" \/ client = "gone"
                          \/ Injected \cap {"truncate", "stall", "bandwidth"} # {},
           failures' = failures \/ how = "broken",
           UNCHANGED <<contextVars, chainVars, metricsVars, status, wire, called, answer, body,
                       events>>
    PROVE  IInv'
  <1>1. UNCHANGED <<client, upload, stopping, cancelled, events, chain, todo, faults, pipelineError,
                    proxyError, status, wire, called, answer, body>>
    BY DEF contextVars, chainVars, metricsVars
  <1>2. pc' = "finish"
    BY DEF End
  <1>3. /\ StatusIsSent'
        /\ TypesOfStatus'
    BY <1>1, NoReply
  <1>4. TypesOfChain' /\ TodoOfPhase' /\ Injected' = Injected
    BY <1>1, ChainAtEnd
  <1>5. /\ TypesOfErrors' /\ ErrorsAreAccounted'
        /\ pipelineError' # "shutting down" /\ proxyError' # "canceled"
    <2>1. pipelineError' = None /\ proxyError' = None /\ (failures' = {} \/ outcome' = "broken")
      BY <1>1, ErrorOfEnd
    <2>2. eventError' = None
      BY <2>1, NoneAssumption DEF eventError, requestError
    <2>3. QED
      BY <2>1, <2>2, NoneAssumption DEF ErrorsAreAccounted, TypesOfErrors
  <1>6. Phases' /\ TypesOfResponse'
    BY <1>1, <1>2, <1>3, <1>4, <1>5, PhasesAtEnd, ResponseAtEnd
  <1>7. CutsHaveReasons'
    BY <1>1, <1>2, <1>4, <1>5, CutsAtEnd
  <1>8. QED
    BY <1>1, <1>3, <1>4, <1>5, <1>6, <1>7, EndKeepsIInv

\* The ways a copy or a tunnel ends.
LEMMA BodyEndsKeepsIInv ==
    ASSUME IInv,
           \/ TunnelEnds \/ Copied \/ Truncated \/ Broken \/ CopyFails \/ WriteFails
           \/ PauseRefused \/ InterruptPause
    PROVE  IInv'
  <1>1. CASE TunnelEnds
    <2>1. /\ UNCHANGED <<contextVars, chainVars, metricsVars, status, wire, called, answer, body,
                         failures, events>>
          /\ pc = "tunnel" /\ End("hijacked") /\ outcome' = outcome
      BY <1>1 DEF TunnelEnds, upstreamVars
    <2>2. outcome = "cut" =>
             client = "gone" \/ Injected \cap {"truncate", "stall", "bandwidth"} # {}
      BY DEF IInv, CutsHaveReasons
    <2>3. QED
      BY <2>1, CopyEndsKeepsIInv
  <1>2. ASSUME pc \in {"copy", "pause"}, NEW how \in {"whole", "broken", "cut"}, CopyEnds(how),
               how = "cut" => \/ client = "gone"
                              \/ Injected \cap {"truncate", "stall", "bandwidth"} # {}
        PROVE  IInv'
    <2>1. /\ UNCHANGED <<contextVars, chainVars, metricsVars, status, wire, called, answer, body,
                         events>>
          /\ outcome' = how
          /\ failures' = failures \/ how = "broken"
          /\ \E e \in {"returned", "panicked", "hijacked"} : End(e)
      BY <1>2 DEF CopyEnds
    <2>2. PICK e \in {"returned", "panicked", "hijacked"} : End(e)
      BY <2>1
    <2>3. QED
      BY <1>2, <2>1, <2>2, CopyEndsKeepsIInv
  <1>3. CASE Copied
    BY <1>2, <1>3 DEF Copied
  <1>4. CASE Truncated
    <2>1. "truncate" \in Injected
      BY <1>4 DEF Truncated, IInv, CutsHaveReasons
    <2>2. Injected \cap {"truncate", "stall", "bandwidth"} # {}
      BY <2>1
    <2>3. QED
      BY <1>2, <1>4, <2>2 DEF Truncated
  <1>5. CASE Broken
    BY <1>2, <1>5 DEF Broken
  <1>6. CASE CopyFails
    BY <1>2, <1>6 DEF CopyFails, ForwardContextDone, RequestContextDone
  <1>7. CASE PauseRefused
    <2>1. body \cap {"truncate", "stall", "bandwidth"} \subseteq Injected
      BY DEF IInv, CutsHaveReasons
    <2>2. body \cap {"stall", "bandwidth"} # {}
      BY <1>7 DEF PauseRefused
    <2>3. Injected \cap {"truncate", "stall", "bandwidth"} # {}
      BY <2>1, <2>2
    <2>4. QED
      BY <1>2, <1>7, <2>3 DEF PauseRefused
  <1>8. CASE InterruptPause
    <2>1. Injected \cap {"truncate", "stall", "bandwidth"} # {}
      BY <1>8 DEF InterruptPause, IInv, CutsHaveReasons
    <2>2. QED
      BY <1>2, <1>8, <2>1 DEF InterruptPause
  <1>9. CASE WriteFails
    BY <1>2, <1>9 DEF WriteFails
  <1>10. QED
    BY <1>1, <1>3, <1>4, <1>5, <1>6, <1>7, <1>8, <1>9

\* The event is published, and net/http sends what has not been sent.
LEMMA FinishKeepsIInv ==
    ASSUME IInv, finishRequest
    PROVE  IInv'
  <1>1. /\ UNCHANGED <<client, upload, stopping, cancelled, chain, todo, faults, pipelineError, proxyError,
                       status, ended, called, answer, body, outcome, failures>>
        /\ pc = "finish" /\ pc' = "done"
        /\ events' = Append(events, [status |-> status, faults |-> faults, error |-> eventError])
        /\ wire' = IF ended = "returned" /\ wire = 0 THEN 200 ELSE wire
    BY DEF finishRequest, contextVars, chainVars, metricsVars, upstreamVars
  <1>2. TypesOfChain' /\ TodoOfPhase' /\ Injected' = Injected
    BY <1>1, ChainFrame
  <1>3. TypesOfContexts' /\ TypesOfErrors'
    BY <1>1 DEF IInv, TypesOfContexts, TypesOfErrors
  <1>4. TypesOfPhase'
    BY <1>1 DEF IInv, TypesOfPhase
  <1>5. TypesOfResponse'
    <2>1. wire' \in {0, 101} \cup 200 .. 599
      BY <1>1 DEF IInv, TypesOfResponse, TypesOfStatus
    <2>2. QED
      BY <1>1, <2>1 DEF IInv, TypesOfResponse, TypesOfStatus
  <1>6. Phases'
    BY <1>1, <1>2 DEF IInv, Phases
  <1>7. eventError' = eventError
    BY <1>1 DEF eventError, requestError
  <1>8. ErrorsSoFar'
    BY <1>1, <1>7 DEF IInv, ErrorsSoFar, ErrorsAreAccounted
  <1>9. StatusIsSent'
    BY <1>1 DEF StatusIsSent
  <1>10. CutsHaveReasons'
    BY <1>1, <1>2 DEF IInv, CutsHaveReasons
  <1>11. events' = <<[status |-> status', faults |-> faults', error |-> eventError']>>
    <2>1. events = <<>>
      BY <1>1 DEF IInv, EventIsFinal
    <2>2. QED
      BY <1>1, <1>7, <2>1
  <1>12. ASSUME client = "waiting", answer # 101, ~Informational(status)
         PROVE  status = wire'
    <2>1. /\ wire = IF status = 0 \/ Informational(status) THEN 0 ELSE status
          /\ ended = "returned" => status # 0
      BY <1>1, <1>12 DEF IInv, StatusIsSent
    <2>2. CASE status = 0
      BY <1>1, <2>1, <2>2
    <2>3. CASE status # 0
      BY <1>1, <1>12, <2>1, <2>3
    <2>4. QED
      BY <2>2, <2>3
  <1>13. EventIsFinal'
    BY <1>1, <1>11, <1>12 DEF EventIsFinal, Informational
  <1>14. QED
    BY <1>2, <1>3, <1>4, <1>5, <1>6, <1>8, <1>9, <1>10, <1>13 DEF IInv

-------------------------------------------------------------------------------
(* The invariant, and the properties it implies.                           *)

\* The invariant holds at the start,
LEMMA InitIInv == Init => IInv
  <1> SUFFICES ASSUME Init PROVE IInv
    OBVIOUS
  <1>1. TypesOfContexts /\ TypesOfPhase /\ TypesOfErrors /\ TypesOfResponse
    <2>1. upload \in {"unread", "read"}
      BY InputsAssumption DEF Init
    <2>2. QED
      BY <2>1 DEF Init, TypesOfContexts, TypesOfPhase, TypesOfErrors, TypesOfResponse, TypesOfStatus
  <1>2. TypesOfChain /\ TodoOfPhase /\ Injected = {}
    BY DEF Init, TypesOfChain, TodoOfPhase, InOrder, Elements, Injected
  <1>3. eventError = None
    BY DEF Init, eventError, requestError
  <1>4. Phases /\ ErrorsSoFar /\ EventIsFinal
    BY <1>2, <1>3 DEF Init, Phases, ErrorsSoFar, ErrorsAreAccounted, EventIsFinal
  <1>5. StatusIsSent
    BY DEF Init, StatusIsSent
  <1>6. CutsHaveReasons
    BY <1>2, NoneAssumption DEF Init, CutsHaveReasons
  <1>7. QED
    BY <1>1, <1>2, <1>4, <1>5, <1>6 DEF IInv

\* and every step keeps it.
LEMMA NextKeepsIInv ==
    ASSUME IInv, [Next]_pipelineVars
    PROVE  IInv'
  <1>1. CASE ClientLeaves \/ ReadUpload \/ BeginShutdown \/ ShutdownCancels
    BY <1>1, ContextsKeepIInv
  <1>2. CASE handlePreflight \/ RejectHeader
    BY <1>2, RejectKeepsIInv
  <1>3. CASE SelectChain
    BY <1>3, SelectChainKeepsIInv
  <1>4. CASE Skip \/ Elapse \/ Mutate \/ ChangeHeaders \/ Truncate \/ Stall \/ Throttle
    BY <1>4, ChainGoesOnKeepsIInv
  <1>5. CASE Wait \/ InterruptWait
    BY <1>5, WaitKeepsIInv
  <1>6. CASE Failed \/ HangOver
    BY <1>6, WaitOverKeepsIInv
  <1>7. CASE resetConnection
    BY <1>7, ResetKeepsIInv
  <1>8. CASE Status \/ Redirect
    <2>1. InjectedCodes \subseteq 100 .. 599 /\ 302 \in 100 .. 599
      BY InputsAssumption
    <2>2. QED
      BY <1>8, <2>1, ShortCircuitKeepsIInv DEF Status, Redirect
  <1>9. CASE Hang
    BY <1>9, HangKeepsIInv
  <1>10. CASE Forward
    BY <1>10, ForwardKeepsIInv
  <1>11. CASE Hints \/ Respond
    BY <1>11, UpstreamKeepsIInv
  <1>12. CASE \/ Unreachable \/ Abandon \/ UploadFails \/ RefuseSwitch
              \/ AfterFails("canceled") \/ AfterFails("upload") \/ AfterFails("broken")
    BY <1>12, NoResponseKeepsIInv
  <1>13. CASE Deliver
    BY <1>13, DeliverKeepsIInv
  <1>14. CASE SwitchProtocols \/ SwitchFails
    BY <1>14, SwitchKeepsIInv, SwitchFailsKeepsIInv
  <1>15. CASE Pause \/ PauseOver
    BY <1>15, PauseKeepsIInv
  <1>16. CASE \/ TunnelEnds \/ Copied \/ Truncated \/ Broken \/ CopyFails \/ WriteFails
              \/ PauseRefused \/ InterruptPause
    BY <1>16, BodyEndsKeepsIInv
  <1>17. CASE finishRequest
    BY <1>17, FinishKeepsIInv
  <1>18. CASE UNCHANGED pipelineVars
    <2>1. UNCHANGED <<pc, client, upload, stopping, cancelled, chain, todo, faults, pipelineError,
                      proxyError, body, status, wire, ended, events, called, answer, outcome,
                      failures>>
      BY <1>18 DEF pipelineVars, contextVars, chainVars, metricsVars, responseVars, upstreamVars
    <2>2. TypesOfChain' /\ TodoOfPhase' /\ Injected' = Injected
      BY <2>1, ChainFrame
    <2>3. eventError' = eventError
      BY <2>1 DEF eventError, requestError
    <2>4. TypesOfContexts' /\ TypesOfErrors' /\ TypesOfResponse'
      <3>1. TypesOfContexts'
        BY <2>1 DEF IInv, TypesOfContexts
      <3>2. TypesOfErrors'
        BY <2>1 DEF IInv, TypesOfErrors
      <3>3. QED
        BY <2>1, <3>1, <3>2, ResponseFrame
    <2>5. TypesOfPhase'
      BY <2>1 DEF IInv, TypesOfPhase
    <2>6. Phases'
      BY <2>1, <2>2 DEF IInv, Phases
    <2>7. ErrorsSoFar'
      BY <2>1, <2>3 DEF IInv, ErrorsSoFar, ErrorsAreAccounted
    <2>8. StatusIsSent'
      BY <2>1 DEF IInv, StatusIsSent
    <2>9. CutsHaveReasons'
      BY <2>1, <2>2 DEF IInv, CutsHaveReasons
    <2>10. EventIsFinal'
      BY <2>1, <2>3 DEF IInv, EventIsFinal
    <2>11. QED
      BY <2>2, <2>4, <2>5, <2>6, <2>7, <2>8, <2>9, <2>10 DEF IInv
  <1>19. QED
    BY <1>1, <1>2, <1>3, <1>4, <1>5, <1>6, <1>7, <1>8, <1>9, <1>10, <1>11, <1>12, <1>13, <1>14,
       <1>15, <1>16, <1>17, <1>18 DEF Next, Handle, Timers, Upstream

\* The inductive invariant holds in every reachable state.
THEOREM InductiveInvariant == Spec => []IInv
  BY InitIInv, NextKeepsIInv, PTL DEF Spec

\* Values have their types, and faults are injected in the documented order, each
\* at most once (TypeOK).
THEOREM TypeCorrect == Spec => []TypeOK
  <1>1. ASSUME IInv PROVE TypeOK
    <2>1. TypesOfContexts /\ TypesOfPhase /\ TypesOfErrors /\ TypesOfResponse /\ TypesOfChain
      BY <1>1 DEF IInv
    <2>2. /\ pc \in {"arrive", "before", "wait", "failed", "hang", "forward", "upstream", "after",
                    "copy", "pause", "tunnel", "finish", "done"}
          /\ ended \in {None, "returned", "panicked", "hijacked"}
          /\ (ended = None) = (pc \notin {"finish", "done"})
      BY <2>1 DEF TypesOfPhase
    <2>3. /\ body \subseteq BodyFaults
          /\ status \in {0} \cup 100 .. 599
          /\ wire \in {0, 101} \cup 200 .. 599
          /\ called \in BOOLEAN /\ answer \in {None} \cup UpstreamCodes
          /\ outcome \in {None, "whole", "broken", "cut"}
      BY <2>1 DEF TypesOfResponse, TypesOfStatus
    <2>4. QED
      BY <2>1, <2>2, <2>3 DEF TypeOK, TypesOfContexts, TypesOfErrors, TypesOfChain
  <1>2. QED
    BY <1>1, InductiveInvariant, PTL

\* A request leaves one event, however its handler ended, with the status that a
\* client that stayed was sent (OneEventPerRequest).
THEOREM EveryRequestIsReported == Spec => []OneEventPerRequest
  <1>1. ASSUME IInv PROVE OneEventPerRequest
    <2>1. EventIsFinal
      BY <1>1 DEF IInv
    <2>2. pc # "done" => events = <<>>
      BY <2>1 DEF EventIsFinal
    <2>3. ASSUME pc = "done"
          PROVE  /\ Len(events) = 1 /\ events[1].faults = faults /\ events[1].status = status
                 /\ client = "waiting" /\ answer # 101 /\ ~Informational(status) => status = wire
      BY <2>1, <2>3 DEF EventIsFinal
    <2>4. QED
      BY <2>2, <2>3 DEF OneEventPerRequest
  <1>2. QED
    BY <1>1, InductiveInvariant, PTL

\* An event has an error only if the proxy, the API or the request's header failed or
\* an upload was aborted, and every failure is in the event but that of an API which
\* breaks a response under way (ErrorsAreProxyFailures).
THEOREM ErrorsAreFailures == Spec => []ErrorsAreProxyFailures
  <1>1. ASSUME IInv PROVE ErrorsAreProxyFailures
    <2>1. ASSUME pc = "done", answer # 101
          PROVE  /\ events[1].error # None => failures # {} \/ upload = "aborted"
                 /\ failures # {} => events[1].error # None \/ outcome = "broken"
      <3>1. events[1].error = eventError
        BY <1>1, <2>1 DEF IInv, EventIsFinal
      <3>2. ErrorsAreAccounted
        BY <1>1, <2>1 DEF IInv, ErrorsSoFar
      <3>3. QED
        BY <3>1, <3>2 DEF ErrorsAreAccounted
    <2>2. QED
      BY <2>1 DEF ErrorsAreProxyFailures
  <1>2. QED
    BY <1>1, InductiveInvariant, PTL

\* The API is never called for a request that a fault answered, hung or reset, or
\* that the shutdown turned away (ShortCircuitsStayLocal).
THEOREM AnsweredLocally == Spec => []ShortCircuitsStayLocal
  <1>1. IInv => ShortCircuitsStayLocal
    BY DEF IInv, Phases, ShortCircuitsStayLocal
  <1>2. QED
    BY <1>1, InductiveInvariant, PTL

\* A forwarded request of a client that stays is not cancelled, by the shutdown or
\* otherwise, and its response is cut by no one but a fault that is reported
\* (ForwardedRequestsDrain).
THEOREM ShutdownDrains == Spec => []ForwardedRequestsDrain
  <1>1. IInv => ForwardedRequestsDrain
    BY DEF IInv, CutsHaveReasons, ForwardedRequestsDrain
  <1>2. QED
    BY <1>1, InductiveInvariant, PTL

===============================================================================
