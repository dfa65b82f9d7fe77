---------------------------- MODULE MCWPConnection ----------------------------
(* Small instances of WPConnection for TLC. *)
EXTENDS WPConnection
=============================================================================
