-------------------------- MODULE MCDecisionCounters --------------------------
(* One key fought over by several requests, or two keys restarted apart and *)
(* together.                                                                *)
EXTENDS DecisionCounters, TLC

CONSTANTS rule, scenario

RequestSymmetry == Permutations(Requests)

==============================================================================
