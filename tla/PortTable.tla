------------------------------ MODULE PortTable ------------------------------
(***************************************************************************)
(* What a PortSet promises its owner: a set of ports.  A port is opened at *)
(* most once at a time, and every lookup or close answers whether the port *)
(* is open.  Nothing is promised about a lookup of the Marker.             *)
(*                                                                         *)
(* Source: the public operations of runtime/vm/port_set.h, as PortMap uses *)
(* them in runtime/vm/port.cc.                                             *)
(***************************************************************************)
EXTENDS Integers

CONSTANTS
  Port,    \* the ports that may be opened
  Asked,   \* the numbers that may be looked up or closed
  Marker   \* the number that marks the slots of deleted ports

VARIABLES
  open,   \* the ports in the set
  reply   \* the port asked for last, and whether it was open

vars == <<open, reply>>

NoReply == <<0, FALSE>>

Init == open = {} /\ reply = NoReply

Create(p) ==
  /\ p \notin open
  /\ open' = open \cup {p}
  /\ reply' = <<p, FALSE>>

Lookup(p) ==
  /\ reply' = <<p, p \in open>> \/ (p = Marker /\ reply' = <<p, TRUE>>)
  /\ UNCHANGED open

Close(p) ==
  /\ reply' = <<p, p \in open>>
  /\ open' = open \ {p}

CloseAll(P) ==
  /\ P \subseteq open
  /\ open' = open \ P
  /\ reply' = NoReply

Next ==
  \/ \E p \in Port : Create(p)
  \/ \E p \in Asked : Lookup(p) \/ Close(p)
  \/ \E P \in SUBSET open : CloseAll(P)

Spec == Init /\ [][Next]_vars
=============================================================================
