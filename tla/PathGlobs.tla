------------------------------- MODULE PathGlobs -------------------------------
(***************************************************************************)
(* Rule matching (internal/rules): route expressions are compiled once,    *)
(* and the first enabled rule whose method and path match is taken.        *)
(*                                                                         *)
(* A path or a pattern is the sequence of its segments, a segment the      *)
(* sequence of its letters; Star is the wildcard.  Both begin with "/":    *)
(* what does not is rejected as a pattern and matches nothing as a path.   *)
(* The letters leave out the line feed, which the "." of a regular         *)
(* expression does not match.  Methods are compared in upper case.         *)
(***************************************************************************)
EXTENDS Integers, Sequences

CONSTANT Star

-------------------------------------------------------------------------------
(* Patterns.                                                               *)

HasStar(text) == \E i \in DOMAIN text : text[i] = Star
HasGlobstar(text) == \E i \in 1 .. Len(text) - 1 : text[i] = Star /\ text[i + 1] = Star

compileSegment(text) ==
    CASE text = <<Star, Star>>              -> [kind |-> "globstar", text |-> text]
      [] text # <<Star, Star>> /\ HasGlobstar(text) -> [kind |-> "error", text |-> text]
      [] text = <<Star>>                    -> [kind |-> "any", text |-> text]
      [] ~HasStar(text)                     -> [kind |-> "literal", text |-> text]
      [] OTHER                              -> [kind |-> "pattern", text |-> text]

compilePath(pattern) == [i \in DOMAIN pattern |-> compileSegment(pattern[i])]
Compiles(pattern) == \A i \in DOMAIN pattern : compileSegment(pattern[i]).kind # "error"

(* A regular expression ^a.*b$ is matched from the end of both texts: i      *)
(* letters of the pattern are dealt with, and j of the value.                *)
MatchString(pattern, value) ==
    LET rest[at \in (0 .. Len(pattern)) \X (0 .. Len(value))] ==
            LET i == at[1]  j == at[2]
            IN  IF i = Len(pattern) THEN j = Len(value)
                ELSE IF pattern[i + 1] = Star
                     THEN rest[<<i + 1, j>>] \/ (j < Len(value) /\ rest[<<i, j + 1>>])
                     ELSE /\ j < Len(value) /\ pattern[i + 1] = value[j + 1]
                          /\ rest[<<i + 1, j + 1>>]
    IN  rest[<<0, 0>>]

segmentMatches(segment, value) ==
    CASE segment.kind = "pattern" -> MatchString(segment.text, value)
      [] segment.kind = "any"     -> value # <<>>
      [] OTHER                    -> value = segment.text

\* Mutant of matchesSegments: a globstar takes at least one segment.
matchesSegmentsAtLeastOne(segments, path) ==
    LET matched[at \in (0 .. Len(segments)) \X (0 .. Len(path))] ==
            LET i == at[1]  j == at[2]
            IN  IF i = Len(segments) THEN j = Len(path)
                ELSE /\ j < Len(path)
                     /\ IF segments[i + 1].kind = "globstar"
                        THEN matched[<<i + 1, j + 1>>] \/ matched[<<i, j + 1>>]
                        ELSE segmentMatches(segments[i + 1], path[j + 1]) /\ matched[<<i + 1, j + 1>>]
    IN  matched[<<0, 0>>]

(* The table of a pattern with a globstar, filled from its last corner. *)
matchesSegments(segments, path) ==
    LET matched[at \in (0 .. Len(segments)) \X (0 .. Len(path))] ==
            LET i == at[1]  j == at[2]  remaining == j < Len(path)
            IN  IF i = Len(segments) THEN j = Len(path)
                ELSE IF segments[i + 1].kind = "globstar"
                     THEN matched[<<i + 1, j>>] \/ (remaining /\ matched[<<i, j + 1>>])
                     ELSE /\ remaining /\ matched[<<i + 1, j + 1>>]
                          /\ segmentMatches(segments[i + 1], path[j + 1])
    IN  matched[<<0, 0>>]

(* Without a globstar both are cut at their slashes, side by side. *)
matchesInOrder(segments, path) ==
    LET from[i \in DOMAIN segments] ==
            /\ segmentMatches(segments[i], path[i])
            /\ IF i = Len(segments) THEN i = Len(path) ELSE i < Len(path) /\ from[i + 1]
    IN  from[1]

matches(segments, path) ==
    IF \E i \in DOMAIN segments : segments[i].kind = "globstar"
    THEN matchesSegments(segments, path)
    ELSE matchesInOrder(segments, path)

-------------------------------------------------------------------------------
(* Rules: [method, pattern, enabled], "" for any method.                   *)

CompileRules(rules) ==
    IF \A i \in DOMAIN rules : Compiles(rules[i].pattern)
    THEN [i \in DOMAIN rules |-> [method |-> rules[i].method, enabled |-> rules[i].enabled,
                                  path |-> compilePath(rules[i].pattern)]]
    ELSE <<>>

(* The index of the rule that handles a request, or 0. *)
Match(matcher, method, path) ==
    LET from[i \in 1 .. Len(matcher) + 1] ==
            CASE i > Len(matcher) -> 0
              [] i <= Len(matcher) /\ matcher[i].enabled
                   /\ matcher[i].method \in {"", method} /\ matches(matcher[i].path, path) -> i
              [] OTHER -> from[i + 1]
    IN  from[1]

-------------------------------------------------------------------------------
(* The documentation's reading (README.md:406-415), by where the parts of a *)
(* pattern end: a free part takes any number of elements, another takes one. *)

Spans(parts, elements, Free(_), Takes(_, _)) ==
    \E end \in [0 .. Len(parts) -> 0 .. Len(elements)] :
        /\ end[0] = 0 /\ end[Len(parts)] = Len(elements)
        /\ \A i \in DOMAIN parts :
               IF Free(parts[i]) THEN end[i - 1] <= end[i]
               ELSE end[i] = end[i - 1] + 1 /\ Takes(parts[i], elements[end[i]])

DocumentedSegment(text, value) ==
    IF value = <<>> THEN text = <<>>
    ELSE Spans(text, value, LAMBDA letter : letter = Star, LAMBDA letter, other : letter = other)

DocumentedPath(pattern, path) ==
    Spans(pattern, path, LAMBDA text : text = <<Star, Star>>, DocumentedSegment)

DocumentedMatch(rules, method, path) ==
    {i \in DOMAIN rules : /\ rules[i].enabled /\ rules[i].method \in {"", method}
                          /\ DocumentedPath(rules[i].pattern, path)}

(* "The first enabled rule whose expression matches handles the request"   *)
(* (README.md:398), with globs as documented: whatever wildcards a pattern *)
(* has and whatever segments of a path are empty, and nothing matches      *)
(* when an expression does not compile.                                    *)
MatchesAsDocumented(rules, method, path) ==
    LET documented == DocumentedMatch(rules, method, path)
        handles == Match(CompileRules(rules), method, path)
    IN  IF CompileRules(rules) = <<>> \/ documented = {} THEN handles = 0
        ELSE handles \in documented /\ \A i \in documented : handles <= i
================================================================================
