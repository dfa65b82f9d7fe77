---------------------------- MODULE MCRuntimeEvents ----------------------------
(* Small instances of RuntimeEvents for TLC. *)
EXTENDS RuntimeEvents
=============================================================================
