------------------------------- MODULE PortSet -------------------------------
(***************************************************************************)
(* The hash set of ports: open addressing with linear probing, deleted     *)
(* slots that keep probe sequences together, and rehashing.  One is the    *)
(* ports_ of PortMap, one the ports_ of each MessageHandler; both are      *)
(* only used under PortMap::mutex_.                                        *)
(*                                                                         *)
(* Sources: runtime/vm/port_set.h, runtime/vm/port.cc.                     *)
(*                                                                         *)
(* Grain.  An operation of PortMap on the set is one step up to the call   *)
(* of Rehash at its end; an iteration of the loop of Rehash is a step,     *)
(* and no operation starts before Rehash has ended: mutex_ is held.        *)
(***************************************************************************)
EXTENDS Integers, FiniteSets

CONSTANTS
  Port,             \* bound: the numbers AllocatePort draws; its mask leaves
                    \* those of the form 4 * n + 3
  Asked,            \* bound: the numbers that callers look up or close, a
                    \* port's or not
  kInitialCapacity  \* 8 in the code

kFreePort == 0
kDeletedPort == 3
ILLEGAL_PORT == 0

ASSUME PortAssumption == Port \subseteq Nat \ {kFreePort} /\ IsFiniteSet(Port)
ASSUME AskedAssumption == Port \subseteq Asked /\ Asked \subseteq Nat
ASSUME CapacityAssumption == kInitialCapacity \in Nat \ {0}

VARIABLES
  owner,      \* which class the set is a member of
  map,        \* map_: the ports in the slots 0 .. capacity - 1
  capacity, used, deleted,
  reply,      \* what the last lookup returned: the port and if it was found
  rehashing,  \* inside Rehash
  newPorts, newCapacity, index  \* the locals of Rehash

counts == <<capacity, used, deleted>>
rehashVars == <<rehashing, newPorts, newCapacity, index>>
vars == <<owner, map, counts, reply, rehashVars>>

Slots(c) == 0 .. c - 1

\* An array of c entries, as its constructor leaves it.
NewTable(c) == [i \in Slots(c) |-> kFreePort]

NoReply == <<0, FALSE>>

IsEntry(v) == v # kFreePort /\ v # kDeletedPort

Entries(m, c) == {i \in Slots(c) : IsEntry(m[i])}

\* The ports an iteration over the set visits.
Ports(m, c) == {m[i] : i \in Entries(m, c)}

\* The slot k steps after home: (home + k) % c, for home and k below c.
Step(home, k, c) == IF home + k < c THEN home + k ELSE home + k - c

\* A probe from port p's home slot in table m ends at its first slot that
\* holds a member of S; k is the length of the probe.
EndsAt(m, c, p, S, k) ==
  /\ m[Step(p % c, k, c)] \in S
  /\ \A j \in 0 .. k - 1 : m[Step(p % c, j, c)] \notin S

\* The slot that the probe ends at, if it ends.
ProbeFor(m, c, p, S) ==
  Step(p % c, CHOOSE k \in Slots(c) : EndsAt(m, c, p, S, k), c)

\* A mutant of FindIndexOfPort: stops at deleted slots, too.
StopAtDeleted(p) ==
  LET i == ProbeFor(map, capacity, p, {kFreePort, kDeletedPort, p})
  IN  IF p # ILLEGAL_PORT /\ map[i] = p THEN i ELSE -1

\* The result of FindIndexOfPort.  A search for ILLEGAL_PORT, which marks free
\* slots, does not start; one for kDeletedPort may end at a deleted slot.
FindIndexOfPort(p) ==
  LET i == ProbeFor(map, capacity, p, {kFreePort, p})
  IN  IF p # ILLEGAL_PORT /\ map[i] = p THEN i ELSE -1

Contains(p) == FindIndexOfPort(p) >= 0

TypeOK ==
  /\ owner \in {"PortMap", "MessageHandler"}
  /\ capacity \in Nat \ {0} /\ used \in Nat /\ deleted \in Nat
  /\ map \in [Slots(capacity) -> Port \cup {kFreePort, kDeletedPort}]
  /\ reply \in (Asked \X BOOLEAN) \cup {NoReply}
  /\ rehashing \in BOOLEAN
  /\ newCapacity \in Nat \ {0}
  /\ newPorts \in [Slots(newCapacity) -> Port \cup {kFreePort}]
  /\ index \in 0 .. capacity

Init ==
  /\ owner \in {"PortMap", "MessageHandler"}
  /\ capacity = kInitialCapacity /\ used = 0 /\ deleted = 0
  /\ map = NewTable(kInitialCapacity)
  /\ reply = NoReply
  /\ rehashing = FALSE
  /\ newCapacity = 1 /\ newPorts = NewTable(1) /\ index = 0

Rehash(c) ==
  /\ rehashing' = TRUE
  /\ newCapacity' = c
  /\ newPorts' = NewTable(c)
  /\ index' = 0

\* A mutant of MaintainInvariants: lets the table fill up.
GrowTooLate(u, d) ==
  LET full  == u > capacity
      empty == capacity - u - d
  IN  \/ full /\ Rehash(2 * capacity)
      \/ ~full /\ empty < d /\ Rehash(capacity)
      \/ ~full /\ empty >= d /\ UNCHANGED rehashVars

\* u and d are used_ and deleted_.
MaintainInvariants(u, d) ==
  LET full  == u > (capacity \div 4) * 3
      empty == capacity - u - d
  IN  \/ full /\ Rehash(2 * capacity)
      \/ ~full /\ empty < d /\ Rehash(capacity)
      \/ ~full /\ empty >= d /\ UNCHANGED rehashVars

\* A mutant of CountReusedSlot: not counted.
CountNoSlot(i) == deleted

\* deleted_ after Insert has put an entry in slot i.
CountReusedSlot(i) == IF map[i] = kDeletedPort THEN deleted - 1 ELSE deleted

\* CreatePort.  AllocatePort draws numbers until ports_->Contains says no: the
\* "continue" for the two markers goes to that test, too.  Insert puts the port
\* in the first slot that is free or deleted.
CreatePort(p) ==
  /\ ~rehashing
  /\ ~Contains(p)
  /\ LET i == ProbeFor(map, capacity, p, {kFreePort, kDeletedPort})
     IN  /\ map' = [map EXCEPT ![i] = p]
         /\ used' = used + 1
         /\ deleted' = CountReusedSlot(i)
  /\ reply' = <<p, FALSE>>
  /\ MaintainInvariants(used', deleted')
  /\ UNCHANGED <<owner, capacity>>

TryLookup(p) ==
  /\ ~rehashing
  /\ reply' = <<p, Contains(p)>>
  /\ UNCHANGED <<owner, map, counts, rehashVars>>

\* Iterator::Delete of the entries in the slots I.
Delete(I) == [i \in Slots(capacity) |-> IF i \in I THEN kDeletedPort ELSE map[i]]

\* The slot that is found belongs to a handler, as ClosePort asserts.
ClosePort(p) ==
  /\ ~rehashing
  /\ Contains(p) => IsEntry(map[FindIndexOfPort(p)])
  /\ reply' = <<p, Contains(p)>>
  /\ IF Contains(p)
     THEN /\ map' = Delete({FindIndexOfPort(p)})
          /\ used' = used - 1 /\ deleted' = deleted + 1
          /\ MaintainInvariants(used', deleted')
     ELSE UNCHANGED <<map, used, deleted, rehashVars>>
  /\ UNCHANGED <<owner, capacity>>

\* ClosePorts of the handler whose entries are in the slots I of PortMap's
\* set; Cleanup, with all of them.
ClosePortsInPortMap(I) ==
  /\ ~rehashing /\ owner = "PortMap"
  /\ map' = Delete(I)
  /\ used' = used - Cardinality(I) /\ deleted' = deleted + Cardinality(I)
  /\ reply' = NoReply
  /\ MaintainInvariants(used', deleted')
  /\ UNCHANGED <<owner, capacity>>

\* ClosePorts in the handler's own set, which is not rebalanced.
ClosePortsInHandler ==
  /\ ~rehashing /\ owner = "MessageHandler"
  /\ map' = Delete(Entries(map, capacity))
  /\ used' = 0 /\ deleted' = deleted + used
  /\ reply' = NoReply
  /\ UNCHANGED <<owner, capacity, rehashVars>>

\* An iteration of the loop of Rehash.
RehashEntry ==
  /\ rehashing /\ index < capacity
  /\ newPorts' = IF IsEntry(map[index])
                 THEN [newPorts EXCEPT ![ProbeFor(newPorts, newCapacity, map[index], {kFreePort})]
                                         = map[index]]
                 ELSE newPorts
  /\ index' = index + 1
  /\ UNCHANGED <<owner, map, counts, reply, rehashing, newCapacity>>

RehashEnds ==
  /\ rehashing /\ index = capacity
  /\ rehashing' = FALSE
  /\ map' = newPorts /\ capacity' = newCapacity
  /\ deleted' = 0
  /\ index' = 0
  /\ newCapacity' = 1 /\ newPorts' = NewTable(1)
  /\ UNCHANGED <<owner, used, reply>>

Next ==
  \/ \E p \in Port : CreatePort(p)
  \/ \E p \in Asked : TryLookup(p) \/ ClosePort(p)
  \/ \E I \in SUBSET Entries(map, capacity) : ClosePortsInPortMap(I)
  \/ ClosePortsInHandler
  \/ RehashEntry
  \/ RehashEnds

Spec == Init /\ [][Next]_vars

-----------------------------------------------------------------------------
(***************************************************************************)
(* used_ and deleted_ count the entries and the deleted slots exactly,     *)
(* through insertion into deleted slots, iteration with deletion, and      *)
(* rehashing: MaintainInvariants decides from nothing else.                *)
(***************************************************************************)
CountsAreExact ==
  /\ used = Cardinality(Entries(map, capacity))
  /\ deleted = Cardinality({i \in Slots(capacity) : map[i] = kDeletedPort})

(***************************************************************************)
(* No probe goes round for ever (the comment "Prevent endless loops" in    *)
(* FindIndexOfPort, where only an assertion stands in the way, and the     *)
(* loops of Insert and Rehash, where nothing does): a table that is probed *)
(* has a free slot.  It holds although ClosePorts leaves the handler's set *)
(* full of deleted slots, without the call of Rebalance that the comment   *)
(* of Iterator::Delete demands.                                            *)
(***************************************************************************)
ProbesEnd ==
  /\ ~rehashing => \E i \in Slots(capacity) : map[i] = kFreePort
  /\ rehashing => \E i \in Slots(newCapacity) : newPorts[i] = kFreePort

Table == INSTANCE PortTable WITH open <- Ports(map, capacity), Marker <- kDeletedPort

(***************************************************************************)
(* The hash set is a set: every creation of a port and every lookup or     *)
(* close of a number, a port's or not, ILLEGAL_PORT included, answers and  *)
(* acts as on the set of the open ports, whatever slots were deleted,      *)
(* reused and moved before, and rehashing changes nothing.  The number     *)
(* that marks deleted slots is the exception: FindIndexOfPort may find it. *)
(***************************************************************************)
ImplementsPortTable == Table!Spec

(***************************************************************************)
(* The comment in AllocatePort: "The two special marker ports are used for *)
(* the hashset implementation and cannot be used as actual ports."         *)
(***************************************************************************)
NoMarkerIsAllocated ==
  [][\A p \in Port : owner = "PortMap" /\ CreatePort(p)
                    => p \notin {kFreePort, kDeletedPort}]_vars
=============================================================================
