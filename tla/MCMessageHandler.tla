------------------------- MODULE MCMessageHandler -------------------------
(* The message handler, for TLC. *)
EXTENDS MessageHandler
=============================================================================
