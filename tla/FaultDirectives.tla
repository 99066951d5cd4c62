---------------------------- MODULE FaultDirectives ----------------------------
(***************************************************************************)
(* What reaches faults.Build: the rules of a configuration that passed     *)
(* Validate (internal/config/validate.go), and the faults of an X-Chaos    *)
(* header or a scenario's step, which ParseFaults (directives.go) makes    *)
(* and no validation sees.                                                 *)
(*                                                                         *)
(* Validation collects issues; which they are is wording, that there is    *)
(* one is the model's.  A directive is [name, value]; a value is text, of   *)
(* which the model has what the program parses it to: whether it parses,   *)
(* the number, and a redirect's location.  Fractions and probabilities are *)
(* in percent; NaN is a number that no comparison holds of.                *)
(***************************************************************************)
EXTENDS Integers, Sequences, FiniteSets, SequencesExt

CONSTANT NaN    \* an integer that no code, number of percent or factor is

ASSUME NaNAssumption == NaN \in Int \ 0 .. 1000

Below(x, bound) == x # NaN /\ x < bound
Above(x, bound) == x # NaN /\ x > bound
Within(x, low, high) == x # NaN /\ low <= x /\ x <= high

-------------------------------------------------------------------------------
(* Validate.  A rule is a function from its faults to their settings.       *)

BadProbability(p) == p = NaN \/ Below(p, 0) \/ Above(p, 100)
Factors == 2 .. 1000    \* of inflate and stretch
RedirectCodes == {301, 302, 303, 307, 308}

validateLatency(l) ==
    CASE l.dist = "fixed"     -> l.value < 0 \/ l.jitter < 0
      [] l.dist = "lognormal" -> l.p50 <= 0 \/ l.p99 <= 0 \/ l.p50 > l.p99
      [] OTHER                -> TRUE

validateStatus(s) == s.code < 100 \/ s.code > 599 \/ BadProbability(s.probability) \/ s.retryAfter < 0

validateRedirect(r) ==
    r.code \notin RedirectCodes \/ BadProbability(r.probability) \/ r.location = ""

validateTruncate(t) == BadProbability(t.probability) \/ BadProbability(t.at)

validateStall(s) == BadProbability(s.probability) \/ s.afterBytes < 0 \/ s.duration <= 0

validateMutate(m) ==
    \/ BadProbability(m.probability) \/ m.maxBytes <= 0 \/ m.operations = <<>>
    \/ \E i \in DOMAIN m.operations :
           LET operation == m.operations[i]
           IN  \/ "" \in Range(operation.path)
               \/ operation.op \notin {"nullify", "empty", "drop", "inflate", "stretch"}
               \/ operation.op \in {"nullify", "empty", "drop"} /\ operation.factor # 0
               \/ /\ operation.op \in {"inflate", "stretch"}
                  /\ operation.factor \notin Factors

(* load.go: what a file leaves out. *)
defaultMutateMaxBytes == 1048576
defaultMutateFactor == 10

applyMutateDefaults(m) ==
    [m EXCEPT !.maxBytes = IF @ = 0 THEN defaultMutateMaxBytes ELSE @,
              !.operations = [i \in DOMAIN @ |->
                  IF @[i].factor = 0 /\ @[i].op \in {"inflate", "stretch"}
                  THEN [@[i] EXCEPT !.factor = defaultMutateFactor] ELSE @[i]]]

(* A header's name is [name, kind]: kind is "plain", "invalid" (empty or not  *)
(* a token), "managed" or "cors", name its letters in lower case.             *)
validateHeaderName(cors, header) ==
    \/ header.kind \in {"invalid", "managed"}
    \/ header.kind = "cors" /\ cors # "passthrough"

validateHeaders(cors, h) ==
    LET valid == {i \in DOMAIN h.set : ~validateHeaderName(cors, h.set[i])}
        seenSet == {h.set[i].name : i \in valid}
    IN  \/ BadProbability(h.probability)
        \/ h.set = <<>> /\ h.remove = <<>>
        \/ valid # DOMAIN h.set
        \/ \E i, j \in valid : i # j /\ h.set[i].name = h.set[j].name
        \/ \E i \in DOMAIN h.remove :
               validateHeaderName(cors, h.remove[i]) \/ h.remove[i].name \in seenSet

validateFault(cors, fault, settings) ==
    CASE fault = "latency"   -> validateLatency(settings)
      [] fault = "status"    -> validateStatus(settings)
      [] fault = "redirect"  -> validateRedirect(settings)
      [] fault \in {"hang", "reset"} -> BadProbability(settings.probability)
      [] fault = "truncate"  -> validateTruncate(settings)
      [] fault = "bandwidth" -> settings.bytesPerSecond <= 0
      [] fault = "headers"   -> validateHeaders(cors, settings)
      [] fault = "mutate"    -> validateMutate(settings)
      [] fault = "stall"     -> validateStall(settings)

Faults == {"latency", "reset", "status", "redirect", "hang", "mutate", "headers",
           "truncate", "stall", "bandwidth"}

(* A rule of a file is [name, match, faults], a scenario [name, match, mode, *)
(* steps]; match is blank or not: an expression that does not parse is found  *)
(* when the rules are compiled.                                               *)
validateRules(cors, rules) ==
    \/ \E i \in DOMAIN rules :
           \/ rules[i].name = "" \/ rules[i].match = "" \/ DOMAIN rules[i].faults = {}
           \/ \E fault \in DOMAIN rules[i].faults : validateFault(cors, fault, rules[i].faults[fault])
    \/ \E i, j \in DOMAIN rules : i # j /\ rules[i].name = rules[j].name

(* The faults of a file as Load hands them to Validate. *)
WithDefaults(faults) ==
    [fault \in DOMAIN faults |->
        IF fault = "mutate" THEN applyMutateDefaults(faults[fault]) ELSE faults[fault]]

-------------------------------------------------------------------------------
(* Directives.                                                              *)

(* The value: "absent" without "=", "blank", or "text" that parses to number *)
(* or not; for a redirect, number is that of the code and location what      *)
(* follows the colon, "" when that is blank or there is none.                *)
NoValue == [given |-> "absent", parses |-> FALSE, number |-> 0, location |-> ""]
Number(n) == [given |-> "text", parses |-> TRUE, number |-> n, location |-> ""]
Location(code, location) == [given |-> "text", parses |-> TRUE, number |-> code, location |-> location]
Directive(name, value) == [name |-> name, value |-> value]

WithoutValue == {"off", "hang", "reset"}
WithValue == {"latency", "status", "truncate", "bandwidth", "redirect"}
EndsTheRequest == {"status", "hang", "reset", "redirect"}

BadValue(name, value) ==
    \/ ~value.parses
    \/ CASE name = "latency"   -> Below(value.number, 0)
         [] name = "status"    -> ~Within(value.number, 100, 599)
         [] name = "truncate"  -> BadProbability(value.number)
         [] name = "bandwidth" -> value.number <= 0
         [] name = "redirect"  -> value.location = "" \/ value.number \notin RedirectCodes

Settings(name, value) ==
    CASE name = "latency"   -> [dist |-> "fixed", value |-> value.number, jitter |-> 0]
      [] name \in {"hang", "reset"} -> [probability |-> 100]
      [] name = "status"    -> [code |-> value.number, probability |-> 100, retryAfter |-> 0]
      [] name = "truncate"  -> [at |-> value.number, probability |-> 100]
      [] name = "bandwidth" -> [bytesPerSecond |-> value.number]
      [] name = "redirect"  -> [code |-> value.number, location |-> value.location,
                                probability |-> 100]

(* The label of a rule's fault: Duration.String and FormatFloat(-1) print what *)
(* parses to the same number.                                                 *)
ValueOf(fault, settings) ==
    CASE fault = "latency"   -> Number(settings.value)
      [] fault = "status"    -> Number(settings.code)
      [] fault = "redirect"  -> Location(settings.code, settings.location)
      [] fault = "truncate"  -> Number(settings.at)
      [] fault = "bandwidth" -> Number(settings.bytesPerSecond)
      [] OTHER -> NoValue

Part(rule, fault) ==
    IF fault \in DOMAIN rule THEN <<Directive(fault, ValueOf(fault, rule[fault]))>> ELSE <<>>

\* Mutant of describeFaults: a hang is named before what precedes it.
describeFaultsHangFirst(rule) ==
    Part(rule, "hang") \o Part(rule, "latency") \o Part(rule, "reset") \o Part(rule, "status")
        \o Part(rule, "redirect") \o Part(rule, "truncate") \o Part(rule, "bandwidth")

describeFaults(rule) ==
    Part(rule, "latency") \o Part(rule, "reset") \o Part(rule, "status") \o Part(rule, "redirect")
        \o Part(rule, "hang") \o Part(rule, "truncate") \o Part(rule, "bandwidth")

Parsed(error, rule, label) == [error |-> error, rule |-> rule, label |-> label]
NoRule == [fault \in {} |-> 0]

ParseFaults(directives) ==
    LET names == {directives[i].name : i \in DOMAIN directives}
        rule == [name \in names |->
                    Settings(name, (CHOOSE d \in Range(directives) : d.name = name).value)]
        Wrong(d) ==
            \/ d.name \notin WithoutValue \cup WithValue
            \/ d.name \in WithoutValue /\ d.value.given # "absent"
            \/ d.name \in WithValue /\ (d.value.given # "text" \/ BadValue(d.name, d.value))
    IN  IF \/ Cardinality(names) # Len(directives)
           \/ \E i \in DOMAIN directives : Wrong(directives[i])
           \/ "off" \in names /\ names # {"off"}
           \/ Cardinality(names \cap EndsTheRequest) > 1
        THEN Parsed(TRUE, NoRule, <<>>)
        ELSE IF names = {"off"} THEN Parsed(FALSE, NoRule, <<Directive("off", NoValue)>>)
        ELSE Parsed(FALSE, rule, describeFaults(rule))

\* Mutant of validateScenarios: a scenario's name is not kept for the next one.
validateScenariosByRule(rules, scenarios) ==
    \/ \E i \in DOMAIN scenarios :
           LET scenario == scenarios[i]
           IN  \/ scenario.name \in {""} \cup {rules[r].name : r \in DOMAIN rules}
               \/ scenario.match = "" \/ scenario.steps = <<>>
               \/ scenario.mode \notin {"passthrough", "repeat", "last"}
               \/ \E step \in DOMAIN scenario.steps : ParseFaults(scenario.steps[step]).error

validateScenarios(rules, scenarios) ==
    \E i \in DOMAIN scenarios :
        LET scenario == scenarios[i]
            used == {rules[r].name : r \in DOMAIN rules} \cup {scenarios[s].name : s \in 1 .. i - 1}
        IN  \/ scenario.name \in {""} \cup used
            \/ scenario.match = "" \/ scenario.steps = <<>>
            \/ scenario.mode \notin {"passthrough", "repeat", "last"}
            \/ \E step \in DOMAIN scenario.steps : ParseFaults(scenario.steps[step]).error

(* registry.go: the chain, in which every After sees what the ones before it *)
(* left of the response.                                                     *)
Link(rule, fault) == IF fault \in DOMAIN rule THEN <<fault>> ELSE <<>>

Build(rule) ==
    Link(rule, "latency") \o Link(rule, "reset") \o Link(rule, "status") \o Link(rule, "redirect")
        \o Link(rule, "hang") \o Link(rule, "mutate") \o Link(rule, "headers")
        \o Link(rule, "truncate") \o Link(rule, "stall") \o Link(rule, "bandwidth")

-------------------------------------------------------------------------------
(* What the faults' own code takes for granted: a number that is one, a      *)
(* logarithm, a quotient or a repetition that exists, a status code          *)
(* net/http writes, an outcome that no map's order decides.                  *)
Playable(cors, fault, settings) ==
    /\ "probability" \in DOMAIN settings => Within(settings.probability, 0, 100)
    /\ fault = "latency"   => (settings.dist = "lognormal" => 0 < settings.p50 /\ 0 < settings.p99)
    /\ fault = "status"    => Within(settings.code, 100, 999)
    /\ fault = "redirect"  => Within(settings.code, 300, 399) /\ settings.location # ""
    /\ fault = "truncate"  => Within(settings.at, 0, 100)
    /\ fault = "stall"     => 0 <= settings.afterBytes
    /\ fault = "bandwidth" => 0 < settings.bytesPerSecond
    /\ fault = "mutate"    =>
           /\ settings.maxBytes > 0
           /\ \A i \in DOMAIN settings.operations :
                  settings.operations[i].op \in {"inflate", "stretch"} =>
                      settings.operations[i].factor \in Factors
    /\ fault = "headers"   =>
           /\ \A i, j \in DOMAIN settings.set :
                  i # j => settings.set[i].name # settings.set[j].name
           /\ {settings.set[i].name : i \in DOMAIN settings.set}
                  \cap {settings.remove[j].name : j \in DOMAIN settings.remove} = {}
           /\ \A header \in Range(settings.set) \cup Range(settings.remove) :
                  \/ header.kind = "plain"
                  \/ header.kind = "cors" /\ cors = "passthrough"

(* Rules that pass Validate with the defaults Load gives them can be played.  *)
(* Build's contract (registry.go:5) is that nothing else reaches it.          *)
ValidRulesArePlayable(cors, faults) ==
    LET rule == [name |-> "r", match |-> "GET /", faults |-> WithDefaults(faults)]
    IN  ~validateRules(cors, <<rule>>) =>
            \A fault \in DOMAIN faults : Playable(cors, fault, rule.faults[fault])

(* The faults of an X-Chaos header or a step pass by Validate, and reach     *)
(* Build all the same: they are playable too, and at most one of them ends   *)
(* the request.                                                              *)
DirectivesArePlayable(cors, directives) ==
    LET parsed == ParseFaults(directives)
    IN  ~parsed.error =>
            /\ Cardinality(DOMAIN parsed.rule \cap EndsTheRequest) <= 1
            /\ \A fault \in DOMAIN parsed.rule : Playable(cors, fault, parsed.rule[fault])

(* And the label that the response, the log and the journal show             *)
(* (override.go:31, scenario.go:44) is itself a list of directives that asks  *)
(* for the same faults, named in the order they are applied in.              *)
DirectivesMeanTheirLabel(cors, directives) ==
    LET parsed == ParseFaults(directives)
        names == [i \in DOMAIN parsed.label |-> parsed.label[i].name]
    IN  ~parsed.error =>
            /\ ParseFaults(parsed.label) = parsed
            /\ names = IF parsed.rule = NoRule THEN <<"off">> ELSE Build(parsed.rule)
            /\ DirectivesArePlayable(cors, directives)

(* Sequences and draws are kept by name (scenario.go): in a file that passes *)
(* Validate a name is that of one rule or one scenario, and every step plays. *)
ValidNamesIdentify(rules, scenarios) ==
    ~validateRules("reflect", rules) /\ ~validateScenarios(rules, scenarios) =>
        /\ \A i, j \in DOMAIN rules : i # j => rules[i].name # rules[j].name
        /\ \A i, j \in DOMAIN scenarios : i # j => scenarios[i].name # scenarios[j].name
        /\ \A i \in DOMAIN rules, j \in DOMAIN scenarios : rules[i].name # scenarios[j].name
        /\ \A i \in DOMAIN scenarios :
               \A step \in DOMAIN scenarios[i].steps : ~ParseFaults(scenarios[i].steps[step]).error
================================================================================
