----------------------------- MODULE MCPortSet -----------------------------
(* The port set, for TLC. *)
EXTENDS PortSet
=============================================================================
