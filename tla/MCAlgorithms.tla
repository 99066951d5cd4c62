------------------------------ MODULE MCAlgorithms ------------------------------
(***************************************************************************)
(* Bounded inputs of the pure parts, and of the one whose model is         *)
(* recursive: a behaviour may also take a list of mutations and a document. *)
(***************************************************************************)
EXTENDS Algorithms

CONSTANT Every

M == INSTANCE BodyMutation

UpTo(n, S) == UNION {[1 .. k -> S] : k \in 0 .. n}

-------------------------------------------------------------------------------
(* Rules and requests: every wildcard a segment can have, empty segments, and *)
(* letters that a wildcard has to skip and come back to.                      *)

MCWords == STRING
MCLetters == {"a", "b", Star}

Texts == {<<>>, <<"a">>, <<Star>>, <<"a", Star>>, <<Star, "a">>, <<Star, "a", Star>>,
          <<"a", Star, "a">>, <<Star, Star>>, <<"a", Star, Star>>}
Patterns == UpTo(3, Texts) \ {<<>>}

RuleOf(method, pattern, enabled) == [method |-> method, pattern |-> pattern, enabled |-> enabled]
MCRuleLists ==
    {<<RuleOf("GET", pattern, TRUE)>> : pattern \in Patterns}
        \cup {<<first, second>> : first, second \in
                 {RuleOf(method, pattern, enabled) : method \in {"", "GET"}, enabled \in BOOLEAN,
                     pattern \in {<<<<"a">>>>, <<<<Star>>>>, <<<<Star, Star>>>>, <<<<"a", Star, Star>>>>}}}

MCPaths == UpTo(3, {<<>>, <<"a">>, <<"b", "a">>, <<"a", "b", "a">>}) \ {<<>>}
MCMethods == {"GET", "POST"}

-------------------------------------------------------------------------------
(* Settings at and around every bound, a fault at a time, and lists of two    *)
(* headers and of two operations.                                            *)

Probabilities == {-1, 0, 100, 101, NaN}
HeaderNames == [name : {"a", "b"}, kind : {"plain", "invalid", "managed", "cors"}]
Header(kinds) == {h \in HeaderNames : h.kind \in kinds}
Operations(paths) == [op : {"nullify", "drop", "inflate", "stretch", "swap"}, path : paths,
                      factor : {-1, 0, 1, 2, 1000, 1001}]

SettingsOf(fault) ==
    CASE fault = "latency" ->
             [dist : {"fixed", "uniform"}, value : -1 .. 1, jitter : -1 .. 1]
                 \cup [dist : {"lognormal"}, p50 : -1 .. 2, p99 : -1 .. 2]
      [] fault = "status" -> [code : {99, 100, 599, 600}, probability : Probabilities,
                              retryAfter : {-1, 0, 1}]
      [] fault = "redirect" -> [code : 300 .. 308, probability : Probabilities, location : {"", "/x"}]
      [] fault \in {"hang", "reset"} -> [probability : Probabilities]
      [] fault = "truncate" -> [probability : Probabilities, at : Probabilities]
      [] fault = "stall" -> [probability : Probabilities, afterBytes : -1 .. 1, duration : -1 .. 1]
      [] fault = "bandwidth" -> [bytesPerSecond : -1 .. 1]
      [] fault = "headers" ->
             [probability : {100}, set : UpTo(2, Header({"plain", "cors"})), remove : UpTo(1, HeaderNames)]
                 \cup [probability : Probabilities, set : UpTo(1, HeaderNames), remove : {<<>>}]
      [] fault = "mutate" ->
             [probability : {100}, maxBytes : {1}, operations : UpTo(2, Operations({<<"a">>}))]
                 \cup [probability : Probabilities, maxBytes : -1 .. 1,
                       operations : UpTo(1, Operations({<<"a">>, <<"">>, <<"a", "", "b">>}))]

MCFaultLists ==
    UNION {{[cors |-> cors, faults |-> [f \in {fault} |-> settings]] :
               cors \in {"reflect", "passthrough"}, settings \in SettingsOf(fault)} : fault \in Faults}

Unparsed == [Number(0) EXCEPT !.parses = FALSE]
Blank == [NoValue EXCEPT !.given = "blank"]
ValuesOf(name) ==
    CASE name \in WithoutValue -> {NoValue, Blank, Number(1)}
      [] name = "latency"   -> {NoValue, Blank, Unparsed, Number(-1), Number(0), Number(5)}
      [] name = "status"    -> {Number(99), Number(100), Number(599), Number(600), Unparsed}
      [] name = "truncate"  -> {Number(p) : p \in Probabilities} \cup {Unparsed}
      [] name = "bandwidth" -> {NoValue, Number(0), Number(1), Unparsed}
      [] name = "redirect"  -> {Number(302), Unparsed, Location(302, "/x"), Location(304, "/x")}
      [] OTHER -> {Number(1)}
AllDirectives == UNION {{Directive(name, value) : value \in ValuesOf(name)} :
                        name \in WithoutValue \cup WithValue \cup {"", "mutate"}}
GoodDirectives == {d \in AllDirectives : ~ParseFaults(<<d>>).error}

MCDirectiveLists ==
    UNION {[1 .. n -> AllDirectives] : n \in 1 .. 2} \cup UNION {[1 .. n -> GoodDirectives] : n \in 3 .. 4}

Hangs == [fault \in {"hang"} |-> [probability |-> 100]]
RulesOfFile == [name : {"", "a", "b"}, match : {"", "GET /"}, faults : {Hangs}]
Step(name) == <<Directive(name, NoValue)>>
ScenariosOfFile == [name : {"", "a", "b", "c"}, match : {"GET /"}, mode : {"last", "first"},
                    steps : {<<>>, <<Step("hang")>>, <<Step("off"), Step("mutate")>>}]

MCFiles == [rules : UpTo(2, RulesOfFile), scenarios : UpTo(2, ScenariosOfFile)]

-------------------------------------------------------------------------------
(* Bodies and faults of a few bytes: every way a boundary can fall between    *)
(* the buffers, what the API sends at a time and what a fault counts.         *)

MCCopies ==
    [body : [length : 0 .. 5, known : BOOLEAN, chunk : {1, 2, 9}, eofWithData : BOOLEAN],
     truncate : {[on |-> FALSE, at |-> 0]} \cup [on : {TRUE}, at : {0, 34, 75, 100}],
     stall : {[on |-> FALSE, afterBytes |-> 0, duration |-> 0]}
                 \cup [on : {TRUE}, afterBytes : 0 .. 6, duration : {3}],
     bandwidth : {[on |-> FALSE, chunk |-> 1]} \cup [on : {TRUE}, chunk : {1, 2}],
     size : {1, 3, 9}]

-------------------------------------------------------------------------------
(* Documents of up to four levels, with both containers, empty ones and a    *)
(* key that reads as an index.                                               *)

Documents ==
    {<<M!Object([a |-> M!Ref(2), b |-> M!Ref(3)]), M!Array(<<M!Text(1), M!Text(0), M!Number(FALSE)>>),
       M!Object([a |-> M!Bool(TRUE), b |-> M!Text(2)])>>,
     <<M!Array(<<M!Ref(2), M!Ref(3), M!Ref(4)>>), M!Array(<<M!Text(1), M!Text(2)>>), M!Array(<<>>),
       M!Object([a |-> M!Ref(5), b |-> M!Null]), M!Array(<<M!Number(FALSE), M!Ref(6)>>),
       M!Object("0" :> M!Text(1) @@ "a" :> M!Number(TRUE))>>,
     <<M!Object([a |-> M!Ref(2)]), M!Array(<<M!Ref(3)>>), M!Object([b |-> M!Ref(4)]),
       M!Array(<<M!Text(1), M!Text(2)>>)>>}

Segments == {"a", "b", "0", "1", Every}
OpsOver(paths) == {[name |-> name, path |-> path, factor |-> 2] :
                      name \in {"nullify", "empty", "inflate", "stretch", "drop"}, path \in paths}
ShortPaths == [1 .. 1 -> {"a", "1", Every}] \cup [1 .. 2 -> {"a", "0", Every}]
LongPaths == UNION {[1 .. n -> {"a", "b", "0", Every}] : n \in 3 .. 4}

MutateDocument ==
    \E heap \in Documents :
        \/ \E op \in OpsOver(UpTo(4, Segments) \ {<<>>}) :
               input' = [for |-> "mutate", operations |-> <<op>>, heap |-> heap]
        \/ \E first \in OpsOver(ShortPaths), second \in OpsOver(ShortPaths \cup LongPaths) :
               /\ second.path \in LongPaths => first.name = "inflate"
               /\ input' = [for |-> "mutate", operations |-> <<first, second>>, heap |-> heap]

MCNext == Next \/ (input.for = "nothing" /\ MutateDocument)
MCSpec == Init /\ [][MCNext]_input

(* Each operation acts on every place its path selects, on all at once, and  *)
(* a body is only sent on as it came when nothing changed (mutate.go).       *)
MutationsActOnEachPlace ==
    input.for = "mutate" => M!ActsOnEachPlace(input.operations, M!Ref(1), input.heap)
================================================================================
