--------------------------- MODULE MCMutationDispatch --------------------------
(* Small instances of MutationDispatch for TLC. *)
EXTENDS MutationDispatch
=============================================================================
