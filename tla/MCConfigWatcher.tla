---------------------------- MODULE MCConfigWatcher ----------------------------
(* A file that is right, one that relies on --target, one that is wrong, and  *)
(* one that is cut short.                                                     *)
EXTENDS ConfigWatcher

MCContents ==
    { [parses |-> TRUE,  sound |-> TRUE,  target |-> TRUE],
      [parses |-> TRUE,  sound |-> TRUE,  target |-> FALSE],
      [parses |-> TRUE,  sound |-> FALSE, target |-> TRUE],
      [parses |-> FALSE, sound |-> TRUE,  target |-> TRUE] }

==============================================================================
