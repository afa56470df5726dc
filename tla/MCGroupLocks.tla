---------------------------- MODULE MCGroupLocks ----------------------------
(* The slots and locks of an isolate group, for TLC. *)
EXTENDS GroupLocks
=============================================================================
