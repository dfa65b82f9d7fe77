-------------------------- MODULE MCRuntimeEventQueue --------------------------
(* Small instances of RuntimeEventQueue for TLC. *)
EXTENDS RuntimeEventQueue, TLC

(* The threads reading the queue are interchangeable. *)
ConsumerSymmetry == Permutations(Consumers)
=============================================================================
