--------------------------- MODULE MCRuntimeControl ---------------------------
(* Two files that disagree about r1 and of which one lacks r2, and one that  *)
(* does not compile.                                                       *)
EXTENDS RuntimeControl, TLC

CONSTANTS r1, r2

MCRules == {r1, r2}

MCConfigs ==
    { [compiles |-> TRUE, enabled |-> r1 :> TRUE @@ r2 :> TRUE],
      [compiles |-> TRUE, enabled |-> r1 :> FALSE],
      [compiles |-> FALSE, enabled |-> r1 :> TRUE] }

===============================================================================
