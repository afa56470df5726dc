---------------------------- MODULE PortSetProofs ----------------------------
(***************************************************************************)
(* The port set implements the table of ports, whatever ports are drawn    *)
(* (but for the marker of deleted slots), whatever numbers are asked for,  *)
(* and whatever capacity it starts with.                                   *)
(***************************************************************************)
EXTENDS PortSet, FiniteSetTheorems, WellFoundedInduction, TLAPS

(* A leaf that names no prover is tried with the SMT solver, then Zenon.   *)
USE SMTT(30), Z3T(30), ZenonT(20)

-----------------------------------------------------------------------------
(* Probing. *)

\* port % capacity is a slot.
LEMMA Home ==
  ASSUME NEW p \in Nat, NEW c \in Nat \ {0}
  PROVE  p % c \in Slots(c)
BY DEF Slots

\* (index + 1) % capacity, taken k times, is a slot.
LEMMA StepInto ==
  ASSUME NEW c \in Nat \ {0}, NEW h \in Slots(c), NEW k \in Slots(c)
  PROVE  Step(h, k, c) \in Slots(c)
BY DEF Slots, Step

\* A probe that goes all the way round visits every slot
LEMMA StepOnto ==
  ASSUME NEW c \in Nat \ {0}, NEW h \in Slots(c), NEW i \in Slots(c)
  PROVE  \E k \in Slots(c) : Step(h, k, c) = i
<1>1. CASE i >= h
  <2>1. i - h \in Slots(c) /\ Step(h, i - h, c) = i
    BY <1>1 DEF Slots, Step
  <2> QED  BY <2>1
<1>2. CASE i < h
  <2>1. i - h + c \in Slots(c) /\ Step(h, i - h + c, c) = i
    BY <1>2 DEF Slots, Step
  <2> QED  BY <2>1
<1> QED  BY <1>1, <1>2 DEF Slots

\* and none of them twice.
LEMMA StepOnce ==
  ASSUME NEW c \in Nat \ {0}, NEW h \in Slots(c), NEW k \in Slots(c), NEW j \in Slots(c),
         Step(h, k, c) = Step(h, j, c)
  PROVE  k = j
BY DEF Slots, Step

\* A set of naturals that is not empty has a least element.
LEMMA Least ==
  ASSUME NEW K \in SUBSET Nat, K # {}
  PROVE  \E k \in K : \A j \in K : k <= j
<1> DEFINE upTo(k) == K \cap (0 .. k)
           T == {upTo(k) : k \in K}
<1>1. T \subseteq FiniteSubsetsOf(Nat)
  <2> SUFFICES ASSUME NEW k \in K  PROVE upTo(k) \in SUBSET Nat /\ IsFiniteSet(upTo(k))
    BY DEF FiniteSubsetsOf
  <2> QED  BY FS_BoundedSetOfNaturals
<1>2. T # {}
  BY Zenon
<1>3. \E x \in T : \A y \in T : ~ (<<y, x>> \in StrictSubsetOrdering(Nat))
  <2> HIDE DEF T
  <2> QED  BY <1>1, <1>2, FS_StrictSubsetOrderingWellFounded, WFMin, Zenon
<1>4. PICK k \in K : \A j \in K : ~ (<<upTo(j), upTo(k)>> \in StrictSubsetOrdering(Nat))
  BY <1>3, Zenon
<1>5. ASSUME NEW j \in K, j < k  PROVE FALSE
  <2>1. upTo(j) \subseteq upTo(k) /\ k \in upTo(k) /\ k \notin upTo(j)
    BY <1>5
  <2>2. upTo(j) \in SUBSET Nat /\ upTo(k) \in SUBSET Nat
    OBVIOUS
  <2>3. <<upTo(j), upTo(k)>> \in StrictSubsetOrdering(Nat)
    <3> HIDE DEF upTo
    <3> QED  BY <2>1, <2>2 DEF StrictSubsetOrdering
  <2> QED  BY <2>3, <1>4
<1> QED  BY <1>5

\* A probe for a member of S ends if there is one.
LEMMA Probe ==
  ASSUME NEW c \in Nat \ {0}, NEW m, NEW p \in Nat, NEW S,
         \E i \in Slots(c) : m[i] \in S
  PROVE  \E k \in Slots(c) : EndsAt(m, c, p, S, k) /\ ProbeFor(m, c, p, S) = Step(p % c, k, c)
<1> DEFINE h == p % c
           K == {k \in Slots(c) : m[Step(h, k, c)] \in S}
<1>1. h \in Slots(c)
  BY Home, Zenon
<1> HIDE DEF h
<1>2. K # {} /\ K \in SUBSET Nat
  <2>1. PICK i \in Slots(c) : m[i] \in S
    OBVIOUS
  <2>2. PICK k \in Slots(c) : Step(h, k, c) = i
    BY <1>1, StepOnto
  <2>3. k \in K
    BY <2>1, <2>2
  <2>4. K \in SUBSET Nat
    BY DEF Slots
  <2> QED  BY <2>3, <2>4
<1>3. PICK k \in K : \A j \in K : k <= j
  BY <1>2, Least, Zenon
<1>4. \A j \in 0 .. k - 1 : j \in Slots(c) /\ j \notin K
  BY <1>3 DEF Slots
<1>5. k \in Slots(c) /\ EndsAt(m, c, p, S, k)
  BY <1>3, <1>4 DEF EndsAt, h
<1> QED  BY <1>5, Zenon DEF ProbeFor

-----------------------------------------------------------------------------
(* Tables.  A table without gaps is one where no free slot is passed on the *)
(* way from the home slot of a port to its entry.                           *)

NoGaps(m, c) ==
  \A p \in Port, k \in Slots(c) :
    m[Step(p % c, k, c)] = p => \A j \in 0 .. k - 1 : m[Step(p % c, j, c)] # kFreePort

OnePortPerSlot(m, c) ==
  \A i, j \in Slots(c) : IsEntry(m[i]) /\ m[i] = m[j] => i = j

IsTable(m, c) ==
  /\ c \in Nat \ {0}
  /\ m \in [Slots(c) -> Port \cup {kFreePort, kDeletedPort}]
  /\ NoGaps(m, c)
  /\ OnePortPerSlot(m, c)

NoMarker == kDeletedPort \notin Port

\* A port that AllocatePort draws is told from both markers.
LEMMA PortIsEntry ==
  ASSUME NoMarker, NEW p \in Port
  PROVE  p \in Nat /\ IsEntry(p)
BY PortAssumption DEF NoMarker, IsEntry, kFreePort, kDeletedPort

\* What FindIndexOfPort finds.
LEMMA Find ==
  ASSUME NoMarker, NEW c, NEW m, IsTable(m, c), NEW p \in Port,
         \E i \in Slots(c) : m[i] = kFreePort
  PROVE  LET i == ProbeFor(m, c, p, {kFreePort, p})
         IN  i \in Slots(c) /\ (m[i] = p <=> p \in Ports(m, c))
<1> DEFINE h == p % c
           i == ProbeFor(m, c, p, {kFreePort, p})
<1>1. p \in Nat /\ IsEntry(p) /\ c \in Nat \ {0}
  BY PortIsEntry DEF IsTable
<1>2. PICK k \in Slots(c) : EndsAt(m, c, p, {kFreePort, p}, k) /\ i = Step(h, k, c)
  <2> DEFINE S == {kFreePort, p}
  <2>1. \E x \in Slots(c) : m[x] \in S
    OBVIOUS
  <2> HIDE DEF S
  <2>2. \E k \in Slots(c) : EndsAt(m, c, p, S, k) /\ ProbeFor(m, c, p, S) = Step(h, k, c)
    BY <1>1, <2>1, Probe, ZenonT(20)
  <2> QED  BY <2>2 DEF S
<1>3. h \in Slots(c)
  BY <1>1, Home
<1>4. i \in Slots(c)
  BY <1>1, <1>2, <1>3, StepInto
<1>5. m[i] = p => p \in Ports(m, c)
  BY <1>1, <1>4 DEF Ports, Entries
<1>6. ASSUME p \in Ports(m, c)  PROVE m[i] = p
  <2>1. PICK x \in Slots(c) : m[x] = p
    BY <1>6 DEF Ports, Entries
  <2>2. PICK l \in Slots(c) : Step(h, l, c) = x
    BY <1>1, <1>3, StepOnto
  <2>3. ~ (k < l /\ m[i] = kFreePort)
    BY <2>1, <2>2, <1>2 DEF IsTable, NoGaps, Slots
  <2>4. ~ (l < k)
    BY <2>1, <2>2, <1>2 DEF EndsAt, Slots
  <2>5. m[i] \in {kFreePort, p}
    BY <1>2 DEF EndsAt
  <2> QED  BY <2>1, <2>2, <2>3, <2>4, <2>5, <1>2 DEF Slots
<1> QED  BY <1>4, <1>5, <1>6

\* Port p goes to slot i, the end of its probe for S, and makes table n of m.
InsertsAt(m, c, p, S, i, n) ==
  /\ IsTable(m, c) /\ p \in Port /\ p \notin Ports(m, c)
  /\ S \subseteq {kFreePort, kDeletedPort} /\ kFreePort \in S
  /\ \E x \in Slots(c) : m[x] = kFreePort
  /\ i = ProbeFor(m, c, p, S)
  /\ n = [m EXCEPT ![i] = p]

\* What Insert and an iteration of Rehash do.
LEMMA Insert ==
  ASSUME NoMarker, NEW c, NEW m, NEW p, NEW S, NEW i, NEW n, InsertsAt(m, c, p, S, i, n)
  PROVE  /\ i \in Slots(c) /\ m[i] \in S
         /\ IsTable(n, c)
         /\ Entries(n, c) = Entries(m, c) \cup {i}
         /\ Ports(n, c) = Ports(m, c) \cup {p}
<1> USE DEF InsertsAt
<1> DEFINE h == p % c
<1>1. p \in Nat /\ IsEntry(p) /\ c \in Nat \ {0}
  BY PortIsEntry DEF IsTable
<1>2. PICK k \in Slots(c) : EndsAt(m, c, p, S, k) /\ i = Step(h, k, c)
  <2>1. \E x \in Slots(c) : m[x] \in S
    OBVIOUS
  <2> QED  BY <1>1, <2>1, Probe
<1>3. h \in Slots(c)
  BY <1>1, Home
<1> HIDE DEF h
<1>4. i \in Slots(c) /\ m[i] \in S
  <2>1. i \in Slots(c)
    BY <1>1, <1>2, <1>3, StepInto
  <2> QED  BY <1>2, <2>1 DEF EndsAt, h
<1>5. /\ n \in [Slots(c) -> Port \cup {kFreePort, kDeletedPort}]
      /\ n[i] = p
      /\ \A x \in Slots(c) \ {i} : n[x] = m[x]
  BY <1>4 DEF IsTable
<1>6. ~ IsEntry(m[i])
  BY <1>4 DEF IsEntry
<1>7. Entries(n, c) = Entries(m, c) \cup {i}
  BY <1>1, <1>4, <1>5 DEF Entries
<1>8. Ports(n, c) = Ports(m, c) \cup {p}
  <2>1. \A x \in Entries(m, c) : x # i /\ n[x] = m[x]
    BY <1>5, <1>6 DEF Entries
  <2>2. \A q : q \in Ports(n, c) <=> \E x \in Entries(m, c) \cup {i} : n[x] = q
    BY <1>7, Zenon DEF Ports
  <2>3. \A q : q \in Ports(m, c) <=> \E x \in Entries(m, c) : m[x] = q
    BY DEF Ports
  <2>4. ASSUME NEW q  PROVE q \in Ports(n, c) <=> q \in Ports(m, c) \/ q = p
    <3>1. n[i] = p
      BY <1>5
    <3>2. q \in Ports(n, c) => q \in Ports(m, c) \/ q = p
      BY ONLY <3>1, <2>1, <2>2, <2>3
    <3>3. q \in Ports(m, c) \/ q = p => q \in Ports(n, c)
      BY ONLY <3>1, <2>1, <2>2, <2>3
    <3> QED  BY <3>2, <3>3
  <2> QED  BY <2>4, Zenon
<1>9. OnePortPerSlot(n, c)
  <2> SUFFICES ASSUME NEW x \in Slots(c), NEW y \in Slots(c), IsEntry(n[x]), n[x] = n[y]
               PROVE  x = y
    BY DEF OnePortPerSlot
  <2>1. \A z \in Slots(c) : m[z] # p
    BY <1>1 DEF Ports, Entries
  <2> QED  BY <2>1, <1>5 DEF IsTable, OnePortPerSlot
<1>10. NoGaps(n, c)
  <2> SUFFICES ASSUME NEW q \in Port, NEW l \in Slots(c), n[Step(q % c, l, c)] = q,
                      NEW j \in 0 .. l - 1
               PROVE  n[Step(q % c, j, c)] # kFreePort
    BY DEF NoGaps
  <2>1. q % c \in Slots(c) /\ j \in Slots(c)
    BY <1>1, PortIsEntry, Home DEF Slots
  <2>2. Step(q % c, j, c) \in Slots(c) /\ Step(q % c, l, c) \in Slots(c)
    BY <1>1, <2>1, StepInto
  <2>3. n[i] # kFreePort
    BY <1>1, <1>5 DEF IsEntry
  <2>4. CASE Step(q % c, l, c) = i
    <3>1. q = p /\ l = k
      BY <1>1, <1>2, <1>3, <1>5, <2>1, <2>4, StepOnce DEF h
    <3>2. m[Step(q % c, j, c)] \notin S
      BY <3>1, <1>2 DEF EndsAt
    <3> QED  BY <3>2, <2>2, <2>3, <1>5
  <2>5. CASE Step(q % c, l, c) # i
    <3>1. m[Step(q % c, l, c)] = q
      BY <2>2, <2>5, <1>5
    <3>2. m[Step(q % c, j, c)] # kFreePort
      BY <3>1 DEF IsTable, NoGaps
    <3> QED  BY <3>2, <2>2, <2>3, <1>5
  <2> QED  BY <2>4, <2>5
<1> QED  BY <1>1, <1>4, <1>5, <1>7, <1>8, <1>9, <1>10, Zenon DEF IsTable

DeletedSlots(m, c) == {i \in Slots(c) : m[i] = kDeletedPort}

\* The entries in the slots I of table m are deleted, which makes table n.
DeletesAt(m, c, I, n) ==
  /\ IsTable(m, c) /\ I \subseteq Entries(m, c)
  /\ n = [i \in Slots(c) |-> IF i \in I THEN kDeletedPort ELSE m[i]]

\* What deleting through iterators does.
LEMMA DeleteEntries ==
  ASSUME NoMarker, NEW c, NEW m, NEW I, NEW n, DeletesAt(m, c, I, n)
  PROVE  /\ IsTable(n, c)
         /\ Entries(n, c) = Entries(m, c) \ I
         /\ DeletedSlots(n, c) = DeletedSlots(m, c) \cup I
         /\ \A i \in Slots(c) : n[i] = kFreePort <=> m[i] = kFreePort
         /\ Ports(n, c) = Ports(m, c) \ {m[i] : i \in I}
<1> USE DEF DeletesAt
<1>1. \A i \in Slots(c) : n[i] = IF i \in I THEN kDeletedPort ELSE m[i]
  OBVIOUS
<1>2. n \in [Slots(c) -> Port \cup {kFreePort, kDeletedPort}]
  BY DEF IsTable
<1>3. kDeletedPort # kFreePort
  BY DEF kDeletedPort, kFreePort
<1>4. \A i \in I : i \in Slots(c) /\ IsEntry(m[i])
  BY DEF Entries
<1>5. \A i \in Slots(c) : n[i] = kFreePort <=> m[i] = kFreePort
  BY <1>1, <1>3, <1>4 DEF IsEntry
<1>6. \A i \in Slots(c) : IsEntry(n[i]) <=> IsEntry(m[i]) /\ i \notin I
  BY <1>1 DEF IsEntry
<1>7. Entries(n, c) = Entries(m, c) \ I
  BY <1>6 DEF Entries
<1>8. DeletedSlots(n, c) = DeletedSlots(m, c) \cup I
  BY <1>1, <1>4 DEF DeletedSlots
<1>9. OnePortPerSlot(n, c)
  BY <1>1, <1>6 DEF IsTable, OnePortPerSlot
<1>10. Ports(n, c) = Ports(m, c) \ {m[i] : i \in I}
  <2>1. \A x \in Entries(n, c) : x \in Slots(c) /\ IsEntry(m[x]) /\ x \notin I /\ n[x] = m[x]
    BY <1>1, <1>6 DEF Entries
  <2>2. ASSUME NEW x \in Entries(m, c), NEW y \in I, m[x] = m[y]  PROVE x = y
    BY <2>2, <1>4 DEF Entries, IsTable, OnePortPerSlot
  <2>3. ASSUME NEW q \in Ports(n, c)  PROVE q \in Ports(m, c) \ {m[i] : i \in I}
    <3>1. PICK x \in Entries(n, c) : n[x] = q
      BY DEF Ports
    <3>2. x \in Entries(m, c) /\ m[x] = q /\ x \notin I
      BY <3>1, <2>1 DEF Entries
    <3> QED  BY <3>2, <2>2 DEF Ports
  <2>4. ASSUME NEW q \in Ports(m, c), q \notin {m[i] : i \in I}  PROVE q \in Ports(n, c)
    <3>1. PICK x \in Entries(m, c) : m[x] = q
      BY DEF Ports
    <3>2. x \notin I
      BY <3>1, <2>4
    <3>3. x \in Entries(n, c) /\ n[x] = q
      BY <3>1, <3>2, <1>1, <1>7 DEF Entries
    <3> QED  BY <3>3 DEF Ports
  <2> QED  BY <2>3, <2>4
<1>11. NoGaps(n, c)
  <2> SUFFICES ASSUME NEW q \in Port, NEW l \in Slots(c), n[Step(q % c, l, c)] = q,
                      NEW j \in 0 .. l - 1
               PROVE  n[Step(q % c, j, c)] # kFreePort
    BY Zenon DEF NoGaps
  <2>1. q % c \in Slots(c) /\ j \in Slots(c)
    BY PortAssumption, Home DEF Slots, IsTable
  <2>2. Step(q % c, j, c) \in Slots(c) /\ Step(q % c, l, c) \in Slots(c)
    BY <2>1, StepInto, Zenon DEF IsTable
  <2>3. m[Step(q % c, l, c)] = q
    BY <2>2, <1>1 DEF NoMarker
  <2>4. m[Step(q % c, j, c)] # kFreePort
    BY <2>3 DEF IsTable, NoGaps
  <2> QED  BY <2>2, <2>4, <1>5
<1> QED  BY <1>2, <1>5, <1>7, <1>8, <1>9, <1>10, <1>11 DEF IsTable

\* A new array is a table without entries.
LEMMA EmptyTable ==
  ASSUME NEW c \in Nat \ {0}
  PROVE  /\ IsTable(NewTable(c), c)
         /\ NewTable(c) \in [Slots(c) -> {kFreePort}]
         /\ Entries(NewTable(c), c) = {} /\ DeletedSlots(NewTable(c), c) = {}
         /\ Ports(NewTable(c), c) = {}
         /\ \E i \in Slots(c) : NewTable(c)[i] = kFreePort
<1> DEFINE m == NewTable(c)
<1>1. m \in [Slots(c) -> {kFreePort}] /\ \A i \in Slots(c) : m[i] = kFreePort
  BY DEF NewTable
<1> HIDE DEF m
<1>2. Entries(m, c) = {} /\ DeletedSlots(m, c) = {} /\ Ports(m, c) = {}
  BY <1>1 DEF Entries, DeletedSlots, Ports, IsEntry, kFreePort, kDeletedPort
<1>3. 0 \in Slots(c)
  BY DEF Slots
<1>4. NoGaps(m, c)
  <2> SUFFICES ASSUME NEW q \in Port, NEW l \in Slots(c), m[Step(q % c, l, c)] = q  PROVE FALSE
    BY DEF NoGaps
  <2>1. Step(q % c, l, c) \in Slots(c) /\ q # kFreePort
    BY PortAssumption, Home, StepInto
  <2> QED  BY <2>1, <1>1
<1>5. OnePortPerSlot(m, c)
  BY <1>1 DEF OnePortPerSlot, IsEntry
<1>6. m \in [Slots(c) -> Port \cup {kFreePort, kDeletedPort}]
  BY <1>1
<1> QED  BY <1>1, <1>2, <1>3, <1>4, <1>5, <1>6 DEF IsTable, m

\* A table whose counts leave a slot over has a free slot.
LEMMA FreeSlot ==
  ASSUME NEW c, NEW m, IsTable(m, c)
  PROVE  LET u == Cardinality(Entries(m, c))
             d == Cardinality(DeletedSlots(m, c))
         IN  /\ IsFiniteSet(Entries(m, c)) /\ IsFiniteSet(DeletedSlots(m, c))
             /\ u \in Nat /\ d \in Nat /\ u + d <= c
             /\ u + d < c => \E i \in Slots(c) : m[i] = kFreePort
<1> DEFINE E == Entries(m, c)
           D == DeletedSlots(m, c)
<1>1. IsFiniteSet(Slots(c)) /\ Cardinality(Slots(c)) = c
  <2>1. c \in Nat \ {0} /\ 0 \in Int /\ c - 1 \in Int
    BY DEF IsTable
  <2> QED  BY <2>1, FS_Interval DEF Slots
<1>2. E \subseteq Slots(c) /\ D \subseteq Slots(c) /\ E \cap D = {}
  BY DEF Entries, DeletedSlots, IsEntry
<1>3. ASSUME ~ \E i \in Slots(c) : m[i] = kFreePort  PROVE E \cup D = Slots(c)
  BY <1>2, <1>3 DEF Entries, DeletedSlots, IsEntry
<1> HIDE DEF E, D
<1>4. IsFiniteSet(E) /\ IsFiniteSet(D) /\ Cardinality(E) \in Nat /\ Cardinality(D) \in Nat
  BY <1>1, <1>2, FS_Subset, FS_CardinalityType
<1>5. IsFiniteSet(E \cup D) /\ Cardinality(E \cup D) = Cardinality(E) + Cardinality(D)
  <2>1. Cardinality(E \cap D) = 0
    BY <1>2, FS_EmptySet
  <2>2. /\ IsFiniteSet(E \cup D)
        /\ Cardinality(E \cup D) = Cardinality(E) + Cardinality(D) - Cardinality(E \cap D)
    BY <1>4, FS_Union, Zenon
  <2> QED  BY ONLY <2>1, <2>2, <1>4
<1>6. Cardinality(E \cup D) <= c
  BY <1>1, <1>2, FS_Subset
<1>7. ASSUME E \cup D = Slots(c)  PROVE ~ (Cardinality(E) + Cardinality(D) < c)
  <2>1. Cardinality(E) + Cardinality(D) = c
    BY <1>1, <1>5, <1>7, Zenon
  <2> QED  BY ONLY <2>1, <1>4
<1> QED  BY <1>3, <1>4, <1>5, <1>6, <1>7 DEF E, D

-----------------------------------------------------------------------------
(***************************************************************************)
(* The inductive invariant.  Between operations the table has no gaps and  *)
(* its counts are exact, so that a lookup finds what is there, and a slot  *)
(* is free, so that it ends when nothing is.  During a rehash the new      *)
(* table is such a table, too, and holds the ports of the slots visited.   *)
(***************************************************************************)
Visited == {i \in Entries(map, capacity) : i < index}

RehashInv ==
  /\ IsTable(newPorts, newCapacity)
  /\ newCapacity > used
  /\ Ports(newPorts, newCapacity) = {map[i] : i \in Visited}
  /\ Cardinality(Entries(newPorts, newCapacity)) = Cardinality(Visited)

IndInv ==
  /\ TypeOK
  /\ IsTable(map, capacity)
  /\ CountsAreExact
  /\ ~rehashing => \E i \in Slots(capacity) : map[i] = kFreePort
  /\ rehashing => RehashInv

\* The new table has a free slot.
LEMMA RehashProbesEnd ==
  ASSUME NoMarker, IndInv, rehashing
  PROVE  /\ \E i \in Slots(newCapacity) : newPorts[i] = kFreePort
         /\ DeletedSlots(newPorts, newCapacity) = {}
<1>1. \A i \in Slots(newCapacity) : newPorts[i] # kDeletedPort
  BY DEF IndInv, TypeOK, NoMarker, kFreePort, kDeletedPort
<1>2. DeletedSlots(newPorts, newCapacity) = {}
  BY <1>1 DEF DeletedSlots
<1>3. Cardinality(DeletedSlots(newPorts, newCapacity)) = 0
  BY <1>2, FS_EmptySet
<1>4. IsFiniteSet(Entries(map, capacity)) /\ used = Cardinality(Entries(map, capacity))
  BY FreeSlot DEF IndInv, CountsAreExact
<1>5. Cardinality(Visited) <= used
  BY <1>4, FS_Subset DEF Visited
<1>6. Cardinality(Entries(newPorts, newCapacity)) < newCapacity
  BY <1>4, <1>5, FreeSlot DEF IndInv, RehashInv, TypeOK
<1> QED  BY <1>2, <1>3, <1>6, FreeSlot DEF IndInv, RehashInv

\* The invariant is strong enough for ProbesEnd.
LEMMA ProbesEndFromInv ==
  ASSUME NoMarker, IndInv
  PROVE  ProbesEnd
BY RehashProbesEnd DEF ProbesEnd, IndInv

\* The constructor establishes the invariant.
LEMMA InitIndInv ==
  Init => IndInv
<1> SUFFICES ASSUME Init PROVE IndInv
  OBVIOUS
<1>1. TypeOK
  <2>1. map \in [Slots(capacity) -> {kFreePort}] /\ newPorts \in [Slots(newCapacity) -> {kFreePort}]
    BY EmptyTable, CapacityAssumption DEF Init
  <2>2. /\ map \in [Slots(capacity) -> Port \cup {kFreePort, kDeletedPort}]
        /\ newPorts \in [Slots(newCapacity) -> Port \cup {kFreePort}]
    BY <2>1
  <2>3. /\ owner \in {"PortMap", "MessageHandler"} /\ reply = NoReply /\ rehashing = FALSE
        /\ capacity \in Nat \ {0} /\ newCapacity \in Nat \ {0} /\ used = 0 /\ deleted = 0
        /\ index \in 0 .. capacity
    BY CapacityAssumption DEF Init
  <2> QED  BY <2>2, <2>3, Zenon DEF TypeOK
<1>2. IsTable(map, capacity) /\ CountsAreExact /\ \E i \in Slots(capacity) : map[i] = kFreePort
  <2>1. Entries(map, capacity) = {} /\ {i \in Slots(capacity) : map[i] = kDeletedPort} = {}
    BY EmptyTable, CapacityAssumption DEF Init, DeletedSlots
  <2> QED  BY <2>1, EmptyTable, CapacityAssumption, FS_EmptySet, ZenonT(20) DEF Init, CountsAreExact
<1> QED  BY <1>1, <1>2 DEF IndInv, Init

\* The arithmetic of MaintainInvariants.
LEMMA Balance ==
  ASSUME NEW c \in Nat \ {0}, NEW u \in Nat, NEW d \in Nat, u + d <= c
  PROVE  /\ 2 * c \in Nat \ {0} /\ 2 * c > u
         /\ u <= (c \div 4) * 3 => c > u
         /\ u <= (c \div 4) * 3 /\ c - u - d >= d => u + d < c
<1>1. c \div 4 \in Nat /\ 4 * (c \div 4) <= c
  OBVIOUS
<1> QED  BY <1>1

\* What an operation does once the entry is inserted or deleted.
LEMMA Rebalanced ==
  ASSUME NoMarker, IndInv, ~rehashing, IsTable(map', capacity), CountsAreExact',
         UNCHANGED <<owner, capacity>>, reply' \in (Asked \X BOOLEAN) \cup {NoReply},
         MaintainInvariants(used', deleted')
  PROVE  IndInv'
<1>1. /\ used' \in Nat /\ deleted' \in Nat /\ used' + deleted' <= capacity
      /\ used' + deleted' < capacity => \E i \in Slots(capacity) : map'[i] = kFreePort
  BY FreeSlot DEF CountsAreExact, DeletedSlots
<1>2. capacity \in Nat \ {0} /\ owner \in {"PortMap", "MessageHandler"}
  BY DEF IndInv, TypeOK
<1>3. map' \in [Slots(capacity') -> Port \cup {kFreePort, kDeletedPort}]
  BY DEF IsTable
<1>4. ASSUME NEW c \in Nat \ {0}, c > used', Rehash(c)  PROVE IndInv'
  <2>1. /\ rehashing' = TRUE /\ newCapacity' = c /\ newPorts' = NewTable(c) /\ index' = 0
    BY <1>4 DEF Rehash
  <2>2. /\ IsTable(newPorts', c) /\ newPorts' \in [Slots(c) -> {kFreePort}]
        /\ Ports(newPorts', c) = {} /\ Entries(newPorts', c) = {}
    BY <2>1, EmptyTable
  <2>3. Visited' = {}
    BY <2>1 DEF Visited, Entries, Slots
  <2>4. newPorts' \in [Slots(c) -> Port \cup {kFreePort}]
    BY <2>2
  <2>5. TypeOK'
    BY <1>1, <1>2, <1>3, <2>1, <2>4 DEF TypeOK
  <2>6. RehashInv'
    <3>1. {map'[i] : i \in Visited'} = {}
      BY <2>3
    <3> QED  BY <3>1, <2>1, <2>2, <2>3, <1>4 DEF RehashInv
  <2> QED  BY <2>1, <2>5, <2>6 DEF IndInv
<1>5. ASSUME UNCHANGED rehashVars, used' + deleted' < capacity  PROVE IndInv'
  <2>1. TypeOK'
    BY <1>1, <1>2, <1>3, <1>5 DEF IndInv, TypeOK, rehashVars
  <2> QED  BY <2>1, <1>1, <1>5 DEF IndInv, rehashVars
<1>6. \/ Rehash(2 * capacity)
      \/ used' <= (capacity \div 4) * 3 /\ Rehash(capacity)
      \/ /\ used' <= (capacity \div 4) * 3 /\ capacity - used' - deleted' >= deleted'
         /\ UNCHANGED rehashVars
  <2> DEFINE u == used'
             d == deleted'
  <2>1. u \in Nat /\ d \in Nat
    BY <1>1
  <2>2. MaintainInvariants(u, d)
    OBVIOUS
  <2> HIDE DEF u, d
  <2>3. \/ Rehash(2 * capacity)
        \/ u <= (capacity \div 4) * 3 /\ Rehash(capacity)
        \/ u <= (capacity \div 4) * 3 /\ capacity - u - d >= d /\ UNCHANGED rehashVars
    BY <1>2, <2>1, <2>2 DEF MaintainInvariants
  <2> QED  BY <2>3 DEF u, d
<1>7. /\ 2 * capacity \in Nat \ {0} /\ 2 * capacity > used'
      /\ used' <= (capacity \div 4) * 3 => capacity > used'
      /\ used' <= (capacity \div 4) * 3 /\ capacity - used' - deleted' >= deleted'
           => used' + deleted' < capacity
  BY ONLY <1>1, <1>2, Balance, Zenon
<1> QED  BY <1>2, <1>4, <1>5, <1>6, <1>7

-----------------------------------------------------------------------------
(* The steps.  Each keeps the invariant, and is a step of the table of     *)
(* ports.                                                                   *)

\* FindIndexOfPort is right about a port,
LEMMA FoundPort ==
  ASSUME NoMarker, IndInv, ~rehashing, NEW p \in Port
  PROVE  /\ Contains(p) <=> p \in Ports(map, capacity)
         /\ Contains(p) => FindIndexOfPort(p) \in Entries(map, capacity) /\ map[FindIndexOfPort(p)] = p
<1> DEFINE i == ProbeFor(map, capacity, p, {kFreePort, p})
<1>1. i \in Slots(capacity) /\ (map[i] = p <=> p \in Ports(map, capacity))
  BY Find DEF IndInv
<1>2. FindIndexOfPort(p) = IF map[i] = p THEN i ELSE -1
  BY PortAssumption DEF FindIndexOfPort, ILLEGAL_PORT, kFreePort
<1> HIDE DEF i
<1>3. Contains(p) <=> map[i] = p
  BY <1>1, <1>2 DEF Contains, Slots, IndInv, TypeOK
<1> QED  BY <1>1, <1>2, <1>3, PortIsEntry DEF Entries

\* and about a number that is neither a port's nor the marker of deleted
\* slots.
LEMMA NotFound ==
  ASSUME IndInv, ~rehashing, NEW p \in Asked, p \notin Port, p # kDeletedPort
  PROVE  ~Contains(p) /\ p \notin Ports(map, capacity)
<1>1. \A i \in Slots(capacity) : map[i] \in Port \cup {kFreePort, kDeletedPort}
  BY DEF IndInv, TypeOK
<1>2. p \notin Ports(map, capacity)
  BY <1>1 DEF Ports, Entries, IsEntry
<1>3. CASE p = ILLEGAL_PORT
  <2>1. FindIndexOfPort(p) = -1
    BY <1>3 DEF FindIndexOfPort
  <2> QED  BY <1>2, <2>1 DEF Contains
<1>4. CASE p # ILLEGAL_PORT
  <2> DEFINE S == {kFreePort, p}
             i == ProbeFor(map, capacity, p, S)
  <2>1. /\ \E x \in Slots(capacity) : map[x] \in S
        /\ p \in Nat /\ capacity \in Nat \ {0}
    BY AskedAssumption DEF IndInv, TypeOK
  <2> HIDE DEF S
  <2>2. PICK k \in Slots(capacity) : i = Step(p % capacity, k, capacity)
    BY <2>1, Probe, ZenonT(20)
  <2>3. i \in Slots(capacity)
    BY <2>1, <2>2, Home, StepInto
  <2>4. map[i] # p
    BY <1>1, <1>4, <2>3 DEF ILLEGAL_PORT, kFreePort
  <2>5. FindIndexOfPort(p) = IF p # ILLEGAL_PORT /\ map[i] = p THEN i ELSE -1
    BY DEF FindIndexOfPort, S
  <2>6. FindIndexOfPort(p) = -1
    BY <2>4, <2>5
  <2> QED  BY <1>2, <2>6 DEF Contains
<1> QED  BY <1>3, <1>4

\* In one: every number but the marker is found if it is an open port.
LEMMA Found ==
  ASSUME NoMarker, IndInv, ~rehashing, NEW p \in Asked, p # kDeletedPort
  PROVE  /\ Contains(p) <=> p \in Ports(map, capacity)
         /\ Contains(p) = (p \in Ports(map, capacity))
         /\ Contains(p) => FindIndexOfPort(p) \in Entries(map, capacity) /\ map[FindIndexOfPort(p)] = p
<1>1. Contains(p) \in BOOLEAN
  BY DEF Contains
<1>2. CASE p \in Port
  BY <1>1, <1>2, FoundPort
<1>3. CASE p \notin Port
  BY <1>1, <1>3, NotFound
<1> QED  BY <1>2, <1>3

\* A deleted slot that a search for the marker finds has no handler.
LEMMA MarkerFound ==
  ASSUME Contains(kDeletedPort)
  PROVE  ~IsEntry(map[FindIndexOfPort(kDeletedPort)])
<1> DEFINE i == ProbeFor(map, capacity, kDeletedPort, {kFreePort, kDeletedPort})
<1>1. FindIndexOfPort(kDeletedPort) = IF map[i] = kDeletedPort THEN i ELSE -1
  BY DEF FindIndexOfPort, ILLEGAL_PORT, kDeletedPort
<1> HIDE DEF i
<1>2. CASE map[i] = kDeletedPort
  BY <1>1, <1>2 DEF IsEntry
<1>3. CASE map[i] # kDeletedPort
  BY <1>1, <1>3 DEF Contains
<1> QED  BY <1>2, <1>3

\* CreatePort.
LEMMA CreateStep ==
  ASSUME NoMarker, IndInv, NEW p \in Port, CreatePort(p)
  PROVE  IndInv' /\ Table!Create(p)
<1> DEFINE S == {kFreePort, kDeletedPort}
           i == ProbeFor(map, capacity, p, S)
<1>1. /\ ~rehashing /\ ~Contains(p)
      /\ map' = [map EXCEPT ![i] = p]
      /\ used' = used + 1
      /\ deleted' = IF map[i] = kDeletedPort THEN deleted - 1 ELSE deleted
      /\ reply' = <<p, FALSE>>
      /\ MaintainInvariants(used', deleted')
      /\ UNCHANGED <<owner, capacity>>
  BY DEF CreatePort, CountReusedSlot
<1>2. p \notin Ports(map, capacity) /\ IsTable(map, capacity)
  BY <1>1, FoundPort DEF IndInv
<1>3. /\ NoMarker /\ p \in Port
      /\ S \subseteq {kFreePort, kDeletedPort} /\ kFreePort \in S
      /\ i = ProbeFor(map, capacity, p, S)
  OBVIOUS
<1>4. \E x \in Slots(capacity) : map[x] = kFreePort
  BY <1>1 DEF IndInv
<1> HIDE DEF S, i
<1>5. /\ i \in Slots(capacity) /\ map[i] \in S
      /\ IsTable(map', capacity)
      /\ Entries(map', capacity) = Entries(map, capacity) \cup {i}
      /\ Ports(map', capacity) = Ports(map, capacity) \cup {p}
  <2>1. map' = [map EXCEPT ![i] = p]
    BY <1>1
  <2>2. InsertsAt(map, capacity, p, S, i, map')
    BY ONLY <2>1, <1>2, <1>3, <1>4 DEF InsertsAt
  <2> QED  BY ONLY <2>2, <1>3, Insert
<1>6. /\ i \notin Entries(map, capacity)
      /\ DeletedSlots(map', capacity) = DeletedSlots(map, capacity) \ {i}
  <2>1. ~ IsEntry(map[i]) /\ map[i] \in S
    BY <1>5 DEF S, IsEntry
  <2>2. p # kDeletedPort /\ map'[i] = p /\ \A x \in Slots(capacity) \ {i} : map'[x] = map[x]
    BY <1>1, <1>2, <1>5 DEF NoMarker, IsTable
  <2>3. i \notin Entries(map, capacity)
    BY <2>1 DEF Entries
  <2>4. DeletedSlots(map', capacity) = DeletedSlots(map, capacity) \ {i}
    BY <2>2 DEF DeletedSlots
  <2> QED  BY <2>3, <2>4
<1>7. used' = Cardinality(Entries(map', capacity))
  <2>1. IsFiniteSet(Entries(map, capacity)) /\ used = Cardinality(Entries(map, capacity))
    BY <1>2, FreeSlot DEF IndInv, CountsAreExact
  <2> QED  BY <2>1, <1>1, <1>5, <1>6, FS_AddElement, Zenon
<1>8. deleted' = Cardinality(DeletedSlots(map', capacity))
  <2>1. /\ IsFiniteSet(DeletedSlots(map, capacity))
        /\ deleted = Cardinality(DeletedSlots(map, capacity))
    BY <1>2, FreeSlot DEF IndInv, CountsAreExact, DeletedSlots
  <2>2. i \in DeletedSlots(map, capacity) <=> map[i] = kDeletedPort
    BY <1>5 DEF DeletedSlots
  <2> QED  BY <2>1, <2>2, <1>1, <1>6, FS_RemoveElement, ZenonT(40)
<1>9. CountsAreExact'
  BY <1>1, <1>7, <1>8 DEF CountsAreExact, DeletedSlots
<1>10. IndInv'
  <2>1. p \in Asked
    BY AskedAssumption
  <2>2. reply' \in Asked \X BOOLEAN
    BY ONLY <1>1, <2>1, Zenon
  <2> QED  BY <1>1, <1>5, <1>9, <2>2, Rebalanced, Zenon
<1>11. Table!Create(p)
  BY <1>1, <1>2, <1>5, Zenon DEF Table!Create
<1> QED  BY <1>10, <1>11

\* TryLookup.
LEMMA LookupStep ==
  ASSUME NoMarker, IndInv, NEW p \in Asked, TryLookup(p)
  PROVE  IndInv' /\ Table!Lookup(p)
<1>1. ~rehashing /\ reply' = <<p, Contains(p)>>
  BY DEF TryLookup
<1>2. UNCHANGED <<owner, map, capacity, used, deleted, rehashing, newPorts, newCapacity, index>>
  BY DEF TryLookup, counts, rehashVars
<1>3. TypeOK'
  <2>1. Contains(p) \in BOOLEAN
    BY DEF Contains
  <2>2. reply' \in Asked \X BOOLEAN
    BY ONLY <1>1, <2>1, p \in Asked, ZenonT(20)
  <2> QED  BY <2>2, <1>2 DEF IndInv, TypeOK
<1>4. CountsAreExact'
  BY <1>2 DEF IndInv, CountsAreExact, Entries
<1>5. IndInv'
  BY <1>1, <1>2, <1>3, <1>4 DEF IndInv
<1>6. Table!Lookup(p)
  <2>1. CASE p # kDeletedPort
    <3>1. Contains(p) = (p \in Ports(map, capacity))
      BY <1>1, <2>1, Found
    <3> QED  BY <1>1, <1>2, <3>1 DEF Table!Lookup
  <2>2. CASE p = kDeletedPort
    <3>1. p \notin Ports(map, capacity)
      BY <2>2 DEF Ports, Entries, IsEntry
    <3>2. Contains(p) \in BOOLEAN
      BY DEF Contains
    <3>3. Ports(map', capacity') = Ports(map, capacity)
      BY <1>2
    <3>4. CASE Contains(p)
      <4>1. reply' = <<p, TRUE>>
        BY ONLY <1>1, <3>2, <3>4, Zenon
      <4> QED  BY ONLY <4>1, <2>2, <3>3, Zenon DEF Table!Lookup
    <3>5. CASE ~Contains(p)
      <4>1. Contains(p) = (p \in Ports(map, capacity))
        <5>1. Contains(p) = FALSE
          BY ONLY <3>2, <3>5, Zenon
        <5>2. (p \in Ports(map, capacity)) = FALSE
          BY ONLY <3>1, SMT
        <5> QED  BY ONLY <5>1, <5>2, Zenon
      <4> QED  BY ONLY <1>1, <4>1, <3>3, Zenon DEF Table!Lookup
    <3> QED  BY ONLY <3>4, <3>5, Zenon
  <2> QED  BY <2>1, <2>2
<1> QED  BY <1>5, <1>6

\* What closing the ports in the slots I does to the table and its counts.
LEMMA Closed ==
  ASSUME NoMarker, IndInv, NEW I, I \subseteq Entries(map, capacity), map' = Delete(I),
         used' = used - Cardinality(I), deleted' = deleted + Cardinality(I),
         capacity' = capacity
  PROVE  /\ IsTable(map', capacity) /\ CountsAreExact'
         /\ \A i \in Slots(capacity) : map'[i] = kFreePort <=> map[i] = kFreePort
         /\ Ports(map', capacity) = Ports(map, capacity) \ {map[i] : i \in I}
<1> DEFINE E == Entries(map, capacity)
           D == DeletedSlots(map, capacity)
<1>1. /\ IsTable(map', capacity)
      /\ Entries(map', capacity) = E \ I
      /\ DeletedSlots(map', capacity) = D \cup I
      /\ \A i \in Slots(capacity) : map'[i] = kFreePort <=> map[i] = kFreePort
      /\ Ports(map', capacity) = Ports(map, capacity) \ {map[i] : i \in I}
  <2>1. DeletesAt(map, capacity, I, map')
    BY DEF DeletesAt, Delete, IndInv
  <2> QED  BY ONLY <2>1, NoMarker, DeleteEntries DEF E, D
<1>2. /\ IsFiniteSet(E) /\ used = Cardinality(E)
      /\ IsFiniteSet(D) /\ deleted = Cardinality(D)
      /\ Cardinality(E) \in Nat /\ Cardinality(D) \in Nat
  BY FreeSlot DEF IndInv, CountsAreExact, DeletedSlots
<1>3. I \cap D = {} /\ D \cap I = {} /\ I \cap E = I /\ E \cap I = I
  BY DEF Entries, DeletedSlots, IsEntry
<1> HIDE DEF E, D
<1>4. IsFiniteSet(I) /\ Cardinality(I) \in Nat
  BY <1>2, <1>3, FS_Intersection, FS_CardinalityType, Zenon
<1>5. Cardinality(E \ I) = Cardinality(E) - Cardinality(I)
  <2>1. Cardinality(E \ I) = Cardinality(E) - Cardinality(E \cap I)
    BY <1>2, FS_Difference, Zenon
  <2> QED  BY ONLY <2>1, <1>3
<1>6. Cardinality(D \cup I) = Cardinality(D) + Cardinality(I)
  <2>1. Cardinality(D \cap I) = 0
    BY <1>3, FS_EmptySet, Zenon
  <2>2. Cardinality(D \cup I) = Cardinality(D) + Cardinality(I) - Cardinality(D \cap I)
    BY <1>2, <1>4, FS_Union, Zenon
  <2> QED  BY ONLY <2>1, <2>2, <1>2, <1>4
<1>7. CountsAreExact'
  BY <1>1, <1>2, <1>5, <1>6 DEF CountsAreExact, DeletedSlots
<1> QED  BY <1>1, <1>7

\* ClosePort, of an open port and of one that is not.
LEMMA CloseStep ==
  ASSUME NoMarker, IndInv, NEW p \in Asked, ClosePort(p)
  PROVE  IndInv' /\ Table!Close(p)
<1>1. /\ ~rehashing /\ reply' = <<p, Contains(p)>> /\ UNCHANGED <<owner, capacity>>
  BY DEF ClosePort
<1>2. /\ Contains(p) = (p \in Ports(map, capacity)) /\ Contains(p) \in BOOLEAN
      /\ Contains(p) => FindIndexOfPort(p) \in Entries(map, capacity) /\ map[FindIndexOfPort(p)] = p
  <2>1. CASE p # kDeletedPort
    BY <1>1, <2>1, Found DEF Contains
  <2>2. CASE p = kDeletedPort
    <3>1. ~Contains(p)
      BY <2>2, MarkerFound DEF ClosePort
    <3>2. p \notin Ports(map, capacity)
      BY <2>2 DEF Ports, Entries, IsEntry
    <3>3. Contains(p) \in BOOLEAN
      BY DEF Contains
    <3>4. Contains(p) = (p \in Ports(map, capacity))
      <4>1. Contains(p) = FALSE
        BY ONLY <3>1, <3>3, Zenon
      <4>2. (p \in Ports(map, capacity)) = FALSE
        BY ONLY <3>2, SMT
      <4> QED  BY ONLY <4>1, <4>2, Zenon
    <3> QED  BY ONLY <3>1, <3>3, <3>4, Zenon
  <2> QED  BY <2>1, <2>2
<1>3. reply' \in Asked \X BOOLEAN
  BY ONLY <1>1, <1>2, p \in Asked, Zenon
<1>4. CASE Contains(p)
  <2> DEFINE i == FindIndexOfPort(p)
  <2>1. i \in Entries(map, capacity) /\ map[i] = p
    BY <1>2, <1>4
  <2>2. /\ map' = Delete({i}) /\ used' = used - 1 /\ deleted' = deleted + 1
        /\ MaintainInvariants(used', deleted')
    BY <1>4 DEF ClosePort
  <2> HIDE DEF i
  <2>3. Cardinality({i}) = 1 /\ {map[x] : x \in {i}} = {p}
    <3>1. Cardinality({i}) = 1
      BY FS_Singleton, Zenon
    <3> QED  BY ONLY <2>1, <3>1
  <2>4. /\ IsTable(map', capacity) /\ CountsAreExact'
        /\ Ports(map', capacity) = Ports(map, capacity) \ {map[x] : x \in {i}}
    BY <1>1, <2>1, <2>2, <2>3, Closed
  <2>5. IndInv'
    BY <1>1, <1>3, <2>2, <2>4, Rebalanced
  <2>6. Table!Close(p)
    BY <1>1, <1>2, <2>3, <2>4 DEF Table!Close
  <2> QED  BY <2>5, <2>6
<1>5. CASE ~Contains(p)
  <2>1. UNCHANGED <<map, used, deleted, rehashing, newPorts, newCapacity, index>>
    BY <1>5 DEF ClosePort, rehashVars
  <2>2. TypeOK'
    BY <1>1, <1>3, <2>1 DEF IndInv, TypeOK
  <2>3. CountsAreExact'
    BY <1>1, <2>1 DEF IndInv, CountsAreExact, Entries
  <2>4. IndInv'
    BY <1>1, <2>1, <2>2, <2>3 DEF IndInv
  <2>5. Table!Close(p)
    BY <1>1, <1>2, <1>5, <2>1, ZenonT(20) DEF Table!Close
  <2> QED  BY <2>4, <2>5
<1> QED  BY <1>4, <1>5

\* ClosePorts, in the set of PortMap.
LEMMA ClosePortsInPortMapStep ==
  ASSUME NoMarker, IndInv, NEW I, I \subseteq Entries(map, capacity), ClosePortsInPortMap(I)
  PROVE  IndInv' /\ Table!CloseAll({map[i] : i \in I})
<1>1. /\ ~rehashing /\ map' = Delete(I) /\ reply' = NoReply
      /\ used' = used - Cardinality(I) /\ deleted' = deleted + Cardinality(I)
      /\ MaintainInvariants(used', deleted') /\ UNCHANGED <<owner, capacity>>
  BY DEF ClosePortsInPortMap
<1>2. /\ IsTable(map', capacity) /\ CountsAreExact'
      /\ Ports(map', capacity) = Ports(map, capacity) \ {map[i] : i \in I}
  BY <1>1, Closed
<1>3. IndInv'
  BY <1>1, <1>2, Rebalanced
<1>4. {map[i] : i \in I} \subseteq Ports(map, capacity)
  BY DEF Ports
<1>5. Table!CloseAll({map[i] : i \in I})
  BY <1>1, <1>2, <1>4 DEF Table!CloseAll, Table!NoReply, NoReply
<1> QED  BY <1>3, <1>5

\* ClosePorts, in the handler's set: no free slot is lost without Rebalance.
LEMMA ClosePortsInHandlerStep ==
  ASSUME NoMarker, IndInv, ClosePortsInHandler
  PROVE  IndInv' /\ Table!CloseAll(Ports(map, capacity))
<1> DEFINE E == Entries(map, capacity)
<1>1. /\ ~rehashing /\ map' = Delete(E) /\ reply' = NoReply
      /\ used' = 0 /\ deleted' = deleted + used
      /\ UNCHANGED <<owner, capacity, rehashing, newPorts, newCapacity, index>>
  BY DEF ClosePortsInHandler, rehashVars
<1>2. used \in Nat /\ used = Cardinality(E)
  BY DEF IndInv, TypeOK, CountsAreExact
<1>3. used' = used - Cardinality(E) /\ deleted' = deleted + Cardinality(E)
  BY ONLY <1>1, <1>2, SMTT(20)
<1>4. /\ IsTable(map', capacity) /\ CountsAreExact'
      /\ \A i \in Slots(capacity) : map'[i] = kFreePort <=> map[i] = kFreePort
      /\ Ports(map', capacity) = Ports(map, capacity) \ {map[i] : i \in E}
  BY <1>1, <1>3, Closed
<1>5. TypeOK'
  <2>1. map' \in [Slots(capacity) -> Port \cup {kFreePort, kDeletedPort}]
    BY <1>4 DEF IsTable
  <2>2. used' \in Nat /\ deleted' \in Nat
    BY <1>1 DEF IndInv, TypeOK
  <2> QED  BY <1>1, <2>1, <2>2 DEF IndInv, TypeOK
<1>6. IndInv'
  BY <1>1, <1>4, <1>5 DEF IndInv
<1>7. Table!CloseAll(Ports(map, capacity))
  BY <1>1, <1>4 DEF Table!CloseAll, Table!NoReply, NoReply, Ports
<1> QED  BY <1>6, <1>7

\* An iteration of Rehash: the owner of the set sees nothing of it.
LEMMA RehashEntryStep ==
  ASSUME NoMarker, IndInv, RehashEntry
  PROVE  IndInv' /\ UNCHANGED <<Ports(map, capacity), reply>>
<1>1. /\ rehashing /\ index < capacity /\ index' = index + 1
      /\ UNCHANGED <<owner, map, capacity, used, deleted, reply, rehashing, newCapacity>>
  BY DEF RehashEntry, counts
<1>2. index \in Slots(capacity) /\ index \in Nat /\ capacity \in Nat \ {0}
  BY <1>1 DEF IndInv, TypeOK, Slots
<1>3. RehashInv /\ OnePortPerSlot(map, capacity)
  BY <1>1 DEF IndInv, IsTable
<1>4. \A i \in Slots(capacity) : i \in Nat
  BY DEF Slots
<1>5. /\ newPorts' \in [Slots(newCapacity) -> Port \cup {kFreePort}]
      /\ RehashInv'
  <2>1. CASE IsEntry(map[index])
    <3> DEFINE p == map[index]
               S == {kFreePort}
               slot == ProbeFor(newPorts, newCapacity, p, S)
    <3>1. newPorts' = [newPorts EXCEPT ![slot] = p]
      BY <2>1 DEF RehashEntry
    <3>2. p \in Port
      BY <1>2, <2>1 DEF IndInv, TypeOK, IsEntry
    <3>3. p \notin Ports(newPorts, newCapacity)
      <4>1. \A i \in Visited : i \in Slots(capacity) /\ i # index
        BY <1>2, <1>4 DEF Visited, Entries
      <4>2. \A i \in Visited : map[i] # p
        BY <4>1, <1>2, <1>3, <2>1, Zenon DEF OnePortPerSlot
      <4> QED  BY <4>2, <1>3 DEF RehashInv
    <3>4. \E x \in Slots(newCapacity) : newPorts[x] = kFreePort
      BY <1>1, RehashProbesEnd
    <3>5. S \subseteq {kFreePort, kDeletedPort} /\ kFreePort \in S
      OBVIOUS
    <3>6. slot = ProbeFor(newPorts, newCapacity, p, S)
      OBVIOUS
    <3> HIDE DEF S, slot, p
    <3>7. InsertsAt(newPorts, newCapacity, p, S, slot, newPorts')
      BY <3>1, <3>2, <3>3, <3>4, <3>5, <3>6, <1>3 DEF InsertsAt, RehashInv
    <3>8. /\ slot \in Slots(newCapacity) /\ newPorts[slot] \in S
          /\ IsTable(newPorts', newCapacity)
          /\ Entries(newPorts', newCapacity) = Entries(newPorts, newCapacity) \cup {slot}
          /\ Ports(newPorts', newCapacity) = Ports(newPorts, newCapacity) \cup {p}
      BY ONLY <3>7, NoMarker, Insert
    <3>9. slot \notin Entries(newPorts, newCapacity)
      BY <3>8 DEF S, Entries, IsEntry
    <3>10. Visited' = Visited \cup {index} /\ index \notin Visited
      <4>1. Entries(map', capacity') = Entries(map, capacity) /\ index \in Entries(map, capacity)
        BY <1>1, <1>2, <2>1 DEF Entries
      <4>2. \A i \in Entries(map, capacity) : i < index + 1 <=> i < index \/ i = index
        BY <1>2, <1>4 DEF Entries
      <4>3. Visited' = {i \in Entries(map, capacity) : i < index + 1}
        BY <4>1, <1>1 DEF Visited
      <4>4. index \notin Visited
        BY <1>2 DEF Visited
      <4>5. Visited = {i \in Entries(map, capacity) : i < index}
        BY DEF Visited
      <4> QED  BY ONLY <4>1, <4>2, <4>3, <4>4, <4>5
    <3>11. Ports(newPorts', newCapacity) = {map[i] : i \in Visited'}
      BY <3>8, <3>10, <1>3 DEF RehashInv, p
    <3>12. Cardinality(Entries(newPorts', newCapacity)) = Cardinality(Visited')
      <4>1. IsFiniteSet(Entries(newPorts, newCapacity)) /\ IsFiniteSet(Entries(map, capacity))
        BY <1>3, FreeSlot DEF RehashInv, IndInv
      <4>2. IsFiniteSet(Visited)
        BY <4>1, FS_Subset DEF Visited
      <4>3. Cardinality(Visited') = Cardinality(Visited) + 1
        BY <4>2, <3>10, FS_AddElement
      <4>4. Cardinality(Entries(newPorts', newCapacity)) = Cardinality(Entries(newPorts, newCapacity)) + 1
        BY <4>1, <3>8, <3>9, FS_AddElement, Zenon
      <4> QED  BY ONLY <4>3, <4>4, <1>3 DEF RehashInv
    <3>13. newPorts' \in [Slots(newCapacity) -> Port \cup {kFreePort}]
      BY <3>1, <3>2, <3>8 DEF IndInv, TypeOK
    <3> QED  BY <1>1, <1>3, <3>8, <3>11, <3>12, <3>13 DEF RehashInv
  <2>2. CASE ~IsEntry(map[index])
    <3>1. newPorts' = newPorts
      BY <2>2 DEF RehashEntry
    <3>2. Visited' = Visited
      <4>1. Entries(map', capacity') = Entries(map, capacity) /\ index \notin Entries(map, capacity)
        BY <1>1, <2>2 DEF Entries
      <4>2. \A i \in Entries(map, capacity) : i < index + 1 <=> i < index
        BY <4>1, <1>2, <1>4 DEF Entries
      <4> QED  BY <4>1, <4>2, <1>1 DEF Visited
    <3> QED  BY <1>1, <1>3, <3>1, <3>2 DEF RehashInv, IndInv, TypeOK
  <2> QED  BY <2>1, <2>2
<1>6. TypeOK'
  BY <1>1, <1>2, <1>5 DEF IndInv, TypeOK
<1>7. CountsAreExact'
  BY <1>1 DEF IndInv, CountsAreExact, Entries
<1> QED  BY <1>1, <1>5, <1>6, <1>7 DEF IndInv

\* The new table takes the place of the old one with the same ports in it.
LEMMA RehashEndsStep ==
  ASSUME NoMarker, IndInv, RehashEnds
  PROVE  IndInv' /\ UNCHANGED <<Ports(map, capacity), reply>>
<1>1. /\ rehashing /\ index = capacity /\ rehashing' = FALSE
      /\ map' = newPorts /\ capacity' = newCapacity /\ deleted' = 0 /\ index' = 0
      /\ newCapacity' = 1 /\ newPorts' = NewTable(1) /\ UNCHANGED <<owner, used, reply>>
  BY DEF RehashEnds
<1>2. RehashInv
  BY <1>1 DEF IndInv
<1>3. Visited = Entries(map, capacity)
  BY <1>1 DEF Visited, Entries, Slots, IndInv, TypeOK
<1>4. Ports(map', capacity') = Ports(map, capacity)
  BY <1>1, <1>2, <1>3 DEF RehashInv, Ports
<1>5. IsTable(map', capacity')
  BY <1>1, <1>2 DEF RehashInv
<1>6. \E i \in Slots(capacity') : map'[i] = kFreePort
  BY <1>1, RehashProbesEnd
<1>7. CountsAreExact'
  <2>1. used' = Cardinality(Entries(map', capacity'))
    BY <1>1, <1>2, <1>3 DEF RehashInv, IndInv, CountsAreExact
  <2>2. Cardinality(DeletedSlots(map', capacity')) = 0
    BY <1>1, RehashProbesEnd, FS_EmptySet
  <2> QED  BY <1>1, <2>1, <2>2 DEF CountsAreExact, DeletedSlots
<1>8. TypeOK'
  <2>1. newPorts' \in [Slots(newCapacity') -> {kFreePort}]
    BY <1>1, EmptyTable
  <2>2. newPorts' \in [Slots(newCapacity') -> Port \cup {kFreePort}]
    BY <2>1
  <2>3. map' \in [Slots(capacity') -> Port \cup {kFreePort, kDeletedPort}]
    BY <1>5 DEF IsTable
  <2>4. /\ owner \in {"PortMap", "MessageHandler"} /\ used \in Nat
        /\ newCapacity \in Nat \ {0} /\ reply \in (Asked \X BOOLEAN) \cup {NoReply}
    BY DEF IndInv, TypeOK
  <2>5. capacity' \in Nat \ {0} /\ newCapacity' \in Nat \ {0} /\ index' \in 0 .. capacity'
    BY ONLY <1>1, <2>4
  <2> QED  BY ONLY <1>1, <2>2, <2>3, <2>4, <2>5, Zenon DEF TypeOK
<1> QED  BY <1>1, <1>4, <1>5, <1>6, <1>7, <1>8 DEF IndInv

\* Every step keeps the invariant and is a step, or none, of the table of ports.
LEMMA NextStep ==
  ASSUME NoMarker, IndInv, [Next]_vars
  PROVE  IndInv' /\ [Table!Next]_(Table!vars)
<1>1. ASSUME NEW p \in Port, CreatePort(p)  PROVE IndInv' /\ Table!Next
  BY <1>1, CreateStep DEF Table!Next
<1>2. ASSUME NEW p \in Asked, TryLookup(p)  PROVE IndInv' /\ Table!Next
  BY <1>2, LookupStep DEF Table!Next
<1>3. ASSUME NEW p \in Asked, ClosePort(p)  PROVE IndInv' /\ Table!Next
  BY <1>3, CloseStep DEF Table!Next
<1>4. ASSUME NEW I \in SUBSET Entries(map, capacity), ClosePortsInPortMap(I)
      PROVE  IndInv' /\ Table!Next
  <2>1. IndInv' /\ Table!CloseAll({map[i] : i \in I})
    BY <1>4, ClosePortsInPortMapStep
  <2>2. {map[i] : i \in I} \in SUBSET Ports(map, capacity)
    BY DEF Ports
  <2> QED  BY <2>1, <2>2 DEF Table!Next
<1>5. ASSUME ClosePortsInHandler  PROVE IndInv' /\ Table!Next
  BY <1>5, ClosePortsInHandlerStep DEF Table!Next
<1>6. ASSUME RehashEntry \/ RehashEnds  PROVE IndInv' /\ UNCHANGED Table!vars
  BY <1>6, RehashEntryStep, RehashEndsStep DEF Table!vars
<1>7. ASSUME UNCHANGED vars  PROVE IndInv' /\ UNCHANGED Table!vars
  <2>1. UNCHANGED <<owner, map, capacity, used, deleted, reply, rehashing, newPorts, newCapacity, index>>
    BY <1>7 DEF vars, counts, rehashVars
  <2>2. TypeOK'
    BY <2>1, SMTT(20) DEF IndInv, TypeOK
  <2>3. CountsAreExact' /\ (rehashing => RehashInv')
    BY <2>1 DEF IndInv, CountsAreExact, RehashInv, Visited, Entries
  <2> QED  BY <2>1, <2>2, <2>3 DEF IndInv, Table!vars
<1> QED  BY <1>1, <1>2, <1>3, <1>4, <1>5, <1>6, <1>7 DEF Next

-----------------------------------------------------------------------------
(***************************************************************************)
(* The invariant holds always, if AllocatePort never draws the marker of   *)
(* deleted slots.                                                          *)
(***************************************************************************)
THEOREM Invariance ==
  ASSUME NoMarker
  PROVE  Spec => []IndInv
<1>1. IndInv /\ [Next]_vars => IndInv'
  BY NextStep
<1> QED  BY <1>1, InitIndInv, PTL DEF Spec

(***************************************************************************)
(* Type correctness: in particular no slot index leaves the tables.        *)
(***************************************************************************)
THEOREM TypeCorrect ==
  ASSUME NoMarker
  PROVE  Spec => []TypeOK
<1>1. IndInv => TypeOK
  BY DEF IndInv
<1> QED  BY <1>1, Invariance, PTL

(***************************************************************************)
(* used_ and deleted_ are exact, always.                                   *)
(***************************************************************************)
THEOREM CountsAreAlwaysExact ==
  ASSUME NoMarker
  PROVE  Spec => []CountsAreExact
<1>1. IndInv => CountsAreExact
  BY DEF IndInv
<1> QED  BY <1>1, Invariance, PTL

(***************************************************************************)
(* Every table that FindIndexOfPort, Insert and Rehash probe has a free    *)
(* slot: their loops end.                                                  *)
(***************************************************************************)
THEOREM ProbesAlwaysEnd ==
  ASSUME NoMarker
  PROVE  Spec => []ProbesEnd
<1>1. IndInv => ProbesEnd
  BY ProbesEndFromInv
<1> QED  BY <1>1, Invariance, PTL

(***************************************************************************)
(* PortSet implements the table of ports: for every number that a caller   *)
(* may look up or close, ILLEGAL_PORT and numbers of no port included.     *)
(***************************************************************************)
THEOREM Refinement ==
  ASSUME NoMarker
  PROVE  Spec => ImplementsPortTable
<1>1. Init => Table!Init
  BY EmptyTable, CapacityAssumption DEF Init, Table!Init, NoReply, Table!NoReply
<1>2. IndInv /\ [Next]_vars => [Table!Next]_(Table!vars)
  BY NextStep
<1> QED  BY <1>1, <1>2, Invariance, PTL DEF Spec, ImplementsPortTable, Table!Spec
=============================================================================
