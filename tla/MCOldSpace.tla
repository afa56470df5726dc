---------------------------- MODULE MCOldSpace ----------------------------
(* Old-space collections, for TLC. *)
EXTENDS OldSpace
=============================================================================
