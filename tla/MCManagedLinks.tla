---------------------------- MODULE MCManagedLinks ----------------------------
(* Small instances of ManagedLinks for TLC. *)
EXTENDS ManagedLinks, TLC

Names == Permutations(Identities) \cup Permutations(Topologies)
           \cup Permutations(LinkIds) \cup Permutations(Callers)
=============================================================================
