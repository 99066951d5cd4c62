------------------------------- MODULE Algorithms -------------------------------
(***************************************************************************)
(* The pure parts, at what the program gives them: rules and requests,     *)
(* the contents of a file, the directives of a header or a step, and       *)
(* response bodies.  A behaviour takes one such input; the invariants say  *)
(* what the code makes of it, which is the same whatever came before.      *)
(***************************************************************************)
EXTENDS PathGlobs, FaultDirectives, BodyReaders

CONSTANTS
    Words,             \* the texts of a file or a header
    Letters,           \* what the segments of patterns and paths are made of
    RuleLists,         \* the rules of files, as Compile reads them
    Paths, Methods,    \* of requests
    FaultLists,        \* the faults of a rule, with the policy for CORS
    DirectiveLists,    \* of X-Chaos headers and of steps
    Files,             \* names, matches and steps
    Copies             \* bodies, the faults on them and the buffer of the copy

-------------------------------------------------------------------------------
(* What the decoder of a file yields for the settings of a fault; a          *)
(* probability or a fraction may be NaN.                                     *)
Headers == [name : Words, kind : {"plain", "invalid", "managed", "cors"}]

SettingsFromFile(fault) ==
    CASE fault = "latency"   -> [dist : Words \ {"lognormal"}, value : Int, jitter : Int]
                                    \cup [dist : {"lognormal"}, p50 : Int, p99 : Int]
      [] fault = "status"    -> [code : Int, probability : Int, retryAfter : Int]
      [] fault = "redirect"  -> [code : Int, probability : Int, location : Words]
      [] fault \in {"hang", "reset"} -> [probability : Int]
      [] fault = "truncate"  -> [probability : Int, at : Int]
      [] fault = "stall"     -> [probability : Int, afterBytes : Int, duration : Int]
      [] fault = "bandwidth" -> [bytesPerSecond : Int]
      [] fault = "headers"   -> [probability : Int, set : Seq(Headers), remove : Seq(Headers)]
      [] fault = "mutate"    -> [probability : Int, maxBytes : Int,
                                 operations : Seq([op : Words, path : Seq(Words), factor : Int])]

(* Directives as strings.Cut and the parsers of numbers leave them; a list   *)
(* has at least one, which may be blank (strings.Split).                     *)
Values == [given : {"absent", "blank", "text"}, parses : BOOLEAN, number : Int, location : Words]
Directives == [name : Words, value : Values]

(* A Read of the API's body returns a byte or ends, a buffer has room, and   *)
(* bandwidth asks for a byte or more at a time (bandwidth.go:51).            *)
Bodies == [length : Nat, known : BOOLEAN, chunk : Nat \ {0}, eofWithData : BOOLEAN]
Truncations == [on : BOOLEAN, at : 0 .. 100]
Stalls == [on : BOOLEAN, afterBytes : Nat, duration : Nat]
Bandwidths == [on : BOOLEAN, chunk : Nat \ {0}]

ASSUME RulesAssumption ==
    /\ RuleLists \subseteq Seq([method : Words, pattern : Seq(Seq(Letters)) \ {<<>>}, enabled : BOOLEAN])
    /\ Paths \subseteq Seq(Seq(Letters)) \ {<<>>}

ASSUME FaultsAssumption ==
    \A list \in FaultLists :
        /\ DOMAIN list.faults \subseteq Faults
        /\ \A fault \in DOMAIN list.faults : list.faults[fault] \in SettingsFromFile(fault)

ASSUME DirectivesAssumption == DirectiveLists \subseteq Seq(Directives) \ {<<>>}

ASSUME FilesAssumption ==
    \A file \in Files :
        file.scenarios \in Seq([name : Words, match : Words, mode : Words, steps : Seq(Seq(Directives))])

ASSUME CopiesAssumption ==
    Copies \subseteq [body : Bodies, truncate : Truncations, stall : Stalls,
                      bandwidth : Bandwidths, size : Nat \ {0}]

-------------------------------------------------------------------------------
VARIABLE input    \* what the program was given, and which part it is for

Init == input = [for |-> "nothing"]

MatchRules == \E rules \in RuleLists : input' = [for |-> "Match", rules |-> rules]
ValidateFaults == \E list \in FaultLists : input' = [for |-> "validateFault", list |-> list]
ParseDirectives == \E list \in DirectiveLists : input' = [for |-> "ParseFaults", directives |-> list]
ValidateFile == \E file \in Files : input' = [for |-> "Validate", file |-> file]
CopyBody == \E copy \in Copies : input' = [for |-> "Read", copy |-> copy]

Next ==
    /\ input.for = "nothing"
    /\ MatchRules \/ ValidateFaults \/ ParseDirectives \/ ValidateFile \/ CopyBody

Spec == Init /\ [][Next]_input

-------------------------------------------------------------------------------
(* The first enabled rule that matches, by the documented globs, handles the *)
(* request (internal/rules/matcher.go, path.go).                             *)
RulesMatchAsDocumented ==
    input.for = "Match" =>
        \A path \in Paths, method \in Methods : MatchesAsDocumented(input.rules, method, path)

(* A rule of a file that passes Validate is one its faults' code can play,    *)
(* whatever settings a file has or leaves out (validate.go, registry.go:5),   *)
(* and its name and every step of a scenario do what they are for.            *)
ValidFilesArePlayable ==
    /\ input.for = "validateFault" => ValidRulesArePlayable(input.list.cors, input.list.faults)
    /\ input.for = "Validate" => ValidNamesIdentify(input.file.rules, input.file.scenarios)

(* The label of X-Chaos directives and of steps asks for what they ask for,   *)
(* in the order of the chain, and what they ask for can be played.            *)
LabelsMeanTheirDirectives ==
    input.for = "ParseFaults" => DirectivesMeanTheirLabel("reflect", input.directives)

(* truncate, stall and bandwidth count the same bytes, however a body is cut  *)
(* into reads (truncate.go:65, stall.go:65, bandwidth.go:47).                 *)
BodiesArrive ==
    input.for = "Read" =>
        BodiesArriveAsConfigured(input.copy.body, input.copy.truncate, input.copy.stall,
                                 input.copy.bandwidth, input.copy.size)
================================================================================
