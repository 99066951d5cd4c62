------------------------------ MODULE MCLifecycle ------------------------------
(* Two requests in parallel, one of which may take over its connection, with and *)
(* without a limit that one of them reaches.                                     *)
EXTENDS Lifecycle

================================================================================
