------------------------------ MODULE MCEventBus ------------------------------
(* Streams are interchangeable where no liveness is checked.                  *)
EXTENDS EventBus, TLC

StreamSymmetry == Permutations(Streams)

==============================================================================
