-------------------------- MODULE GroupLocksProofs --------------------------
(***************************************************************************)
(* The slots and the lock of an isolate group are exact, for any number of *)
(* threads, slots and nested scopes.                                       *)
(***************************************************************************)
EXTENDS GroupLocks, FiniteSetTheorems, TLAPS

(* A leaf that names no prover is tried with the SMT solver, then Zenon.   *)
USE SMTT(30), Z3T(30), ZenonT(20)

-----------------------------------------------------------------------------
(* Counting. *)

\* A new member is one more.
LEMMA Add ==
  ASSUME NEW S, IsFiniteSet(S), NEW x, x \notin S
  PROVE  /\ IsFiniteSet(S \cup {x}) /\ Cardinality(S) \in Nat
         /\ Cardinality(S \cup {x}) = Cardinality(S) + 1
BY FS_AddElement, FS_CardinalityType, Zenon

\* A member that goes is one less.
LEMMA Remove ==
  ASSUME NEW S, IsFiniteSet(S), NEW x \in S
  PROVE  /\ IsFiniteSet(S \ {x}) /\ Cardinality(S) \in Nat /\ Cardinality(S) > 0
         /\ Cardinality(S \ {x}) = Cardinality(S) - 1
<1>1. IsFiniteSet(S \ {x}) /\ Cardinality(S \ {x}) = Cardinality(S) - 1
  BY FS_RemoveElement, Zenon
<1>2. Cardinality(S) \in Nat /\ Cardinality(S \ {x}) \in Nat
  BY <1>1, FS_CardinalityType, Zenon
<1> QED  BY <1>1, <1>2

LEMMA MoreThanOne ==
  \A k \in Nat : k >= 1 /\ k # 1 => k > 1
OBVIOUS

-----------------------------------------------------------------------------
(* The inductive invariant. *)

Holders == {t \in Mutator : pc[t] \notin {"out", "slotWait"} \/ (exitFrame # 0 /\ op = t)}
Waiters == {t \in Mutator : pc[t] = "slotWait"}
Awake == Waiters \ slotSleep

\* Which threads may be where, and who owns an operation.
PcInv ==
  /\ \A t \in Helper : pc[t] \notin {"out", "slotWait", "entering", "leaving"}
  /\ \A t \in Thread : pc[t] \in {"stopping", "operating"} => op = t
  /\ \A t \in Thread :
       op = t => pc[t] \in {"stopping", "operating", "leaving", "out", "slotWait", "entering"}
  /\ \A t \in Thread : exitFrame # 0 /\ op = t => pc[t] # "slotWait"
  /\ slotSleep \subseteq Waiters

SlotInv ==
  /\ active = Cardinality(Holders)
  /\ waiting = Cardinality(Waiters)
  /\ slotSleep # {} => MaxActive - active <= Cardinality(Awake)

\* The writer's outermost scope is a write scope.
LockInv ==
  /\ LockIsExact
  /\ writer # NoThread => scopes[writer] # <<>> /\ scopes[writer][1] = "write"

\* Who is blocked for the lock has no scope of it yet.
BlockInv ==
  \A t \in Thread :
    pc[t] \in {"read", "write"} => scopes[t] = <<>> /\ writer # t /\ MaxScopes > 0

IInv == TypeOK /\ PcInv /\ SlotInv /\ LockInv /\ BlockInv

\* The sets that are counted are finite.
LEMMA Finite ==
  /\ IsFiniteSet(Holders) /\ IsFiniteSet(Waiters) /\ IsFiniteSet(Awake)
  /\ Cardinality(Holders) \in Nat /\ Cardinality(Waiters) \in Nat /\ Cardinality(Awake) \in Nat
<1>1. Holders \subseteq Mutator /\ Waiters \subseteq Mutator /\ Awake \subseteq Mutator
  BY DEF Holders, Waiters, Awake
<1>2. IsFiniteSet(Holders) /\ IsFiniteSet(Waiters) /\ IsFiniteSet(Awake)
  BY <1>1, GroupConstants, FS_Subset, Zenon
<1> QED  BY <1>2, FS_CardinalityType, Zenon

\* So are the read scopes.
LEMMA FiniteReads ==
  IsFiniteSet(Reads) /\ Cardinality(Reads) \in Nat
<1>1. IsFiniteSet(Thread)
  BY GroupConstants, FS_Union, Zenon DEF Thread
<1>2. 1 \in Int /\ MaxScopes \in Int
  BY GroupConstants
<1>3. IsFiniteSet(1 .. MaxScopes)
  BY <1>2, FS_Interval, Zenon
<1>4. IsFiniteSet(Thread \X (1 .. MaxScopes))
  BY <1>1, <1>3, FS_Product, Zenon
<1>5. Reads \subseteq Thread \X (1 .. MaxScopes)
  BY DEF Reads
<1>6. IsFiniteSet(Reads)
  BY <1>4, <1>5, FS_Subset, Zenon
<1> QED  BY <1>6, FS_CardinalityType, Zenon

-----------------------------------------------------------------------------
(* Initially. *)

LEMMA InitInv == Init => IInv
<1> SUFFICES ASSUME Init  PROVE IInv
  OBVIOUS
<1>1. TypeOK
  BY GroupConstants DEF Init, TypeOK, PCs, Thread, NoThread
<1>2. Holders = {} /\ Waiters = {} /\ PcInv
  <2>1. exitFrame = 0 /\ slotSleep = {} /\ \A t \in Thread : op # t
    BY GroupConstants DEF Init, Thread, NoThread
  <2>2. /\ \A t \in Mutator : pc[t] = "out"
        /\ \A t \in Thread : pc[t] \in {"out", "in"}
        /\ \A t \in Helper : pc[t] = "in"
    BY GroupConstants DEF Init, Thread
  <2>3. Holders = {} /\ Waiters = {}
    BY <2>1, <2>2 DEF Holders, Waiters
  <2> QED  BY <2>1, <2>2, <2>3 DEF PcInv
<1>3. SlotInv
  BY <1>2, FS_EmptySet DEF Init, SlotInv
<1>4. LockInv
  <2>1. Reads = {} /\ \A t \in Thread : Scopes(t, "read") = 1 .. Len(scopes[t])
    BY DEF Init, Reads, Scopes
  <2>2. Cardinality(Reads) = 0
    BY <2>1, FS_EmptySet, Zenon
  <2> QED  BY <2>1, <2>2 DEF Init, LockInv, LockIsExact, Reads
<1>5. BlockInv
  BY DEF Init, BlockInv
<1> QED  BY <1>1, <1>2, <1>3, <1>4, <1>5 DEF IInv

-----------------------------------------------------------------------------
(* The slots. *)

\* A step that nobody's slot takes part in.
LEMMA SlotsKept ==
  ASSUME SlotInv, UNCHANGED slotVars, Holders' = Holders, Waiters' = Waiters
  PROVE  SlotInv'
BY DEF SlotInv, slotVars, Awake

\* A thread inside the group moves about in it, requests an operation or ends
\* one.
LEMMA MoveInside ==
  ASSUME IInv, NEW t \in Thread, NEW p \in PCs, Goto(t, p),
         pc[t] \notin {"out", "slotWait"}, p \notin {"out", "slotWait"},
         UNCHANGED slotVars,
         \A u \in Thread \ {t} : (exitFrame' # 0 /\ op' = u) <=> (exitFrame # 0 /\ op = u)
  PROVE  SlotInv' /\ slotSleep' \subseteq Waiters'
<1>1. Holders' = Holders /\ Waiters' = Waiters
  BY DEF IInv, TypeOK, Goto, Holders, Waiters, Thread
<1> QED  BY <1>1, SlotsKept DEF IInv, PcInv, slotVars

\* A mutator that looks for a slot takes a free one, or sleeps when there is
\* none.
LEMMA TakeSlot ==
  ASSUME IInv, NEW t \in Mutator, ~KeepsSlot(t), UNCHANGED opVars,
         NEW woken \in {0, 1}, t \notin slotSleep, IncreaseMutatorCount(t, woken),
         pc[t] = IF woken = 1 THEN "slotWait" ELSE "out"
  PROVE  /\ SlotInv' /\ slotSleep' \subseteq Waiters'
         /\ active' \in 0 .. MaxActive /\ waiting' \in Nat
<1> USE GroupConstants
<1>0. t \notin Holders /\ op' = op /\ exitFrame' = exitFrame /\ ~(exitFrame # 0 /\ op = t)
  BY DEF Holders, KeepsSlot, OwnsSafepoint, opVars
<1>1. CASE active = MaxActive
  <2>1. /\ waiting' = waiting - woken + 1 /\ active' = active
        /\ slotSleep' = slotSleep \cup {t} /\ Goto(t, "slotWait")
    BY <1>1 DEF IncreaseMutatorCount
  <2>2. Holders' = Holders /\ Waiters' = Waiters \cup {t}
    BY <1>0, <2>1 DEF IInv, TypeOK, Goto, Holders, Waiters, Thread
  <2>3. Cardinality(Waiters') = waiting - woken + 1
    <3>1. CASE woken = 1
      <4>1. t \in Waiters
        BY <3>1 DEF Waiters
      <4>2. Waiters' = Waiters
        BY <2>2, <4>1
      <4> QED  BY <4>2, <3>1, Finite DEF IInv, SlotInv
    <3>2. CASE woken = 0
      <4>1. t \notin Waiters
        BY <3>2 DEF Waiters
      <4>2. Cardinality(Waiters \cup {t}) = Cardinality(Waiters) + 1
        BY <4>1, Finite, Add, Zenon
      <4> QED  BY <4>2, <2>2, <3>2, Finite DEF IInv, SlotInv
    <3> QED  BY <3>1, <3>2
  <2>4. Cardinality(Awake') \in Nat /\ Cardinality(Waiters') \in Nat
    <3>1. Awake' \subseteq Mutator /\ Waiters' \subseteq Mutator
      BY DEF Awake, Waiters
    <3> QED  BY <3>1, FS_Subset, FS_CardinalityType, Zenon
  <2>5. SlotInv' /\ waiting' \in Nat
    BY <2>1, <2>2, <2>3, <2>4, <1>1, Finite DEF IInv, SlotInv
  <2>6. slotSleep' \subseteq Waiters'
    BY <2>1, <2>2 DEF IInv, PcInv
  <2> QED  BY <2>1, <2>5, <2>6 DEF IInv, TypeOK
<1>2. CASE active # MaxActive
  <2>1. /\ waiting' = waiting - woken /\ active' = active + 1
        /\ slotSleep' = slotSleep /\ Goto(t, "entering")
    BY <1>2 DEF IncreaseMutatorCount
  <2>2. Holders' = Holders \cup {t} /\ Waiters' = Waiters \ {t} /\ Awake' = Awake \ {t}
    BY <1>0, <2>1 DEF IInv, TypeOK, Goto, Holders, Waiters, Awake, Thread
  <2>3. Cardinality(Holders') = active + 1
    <3>1. Cardinality(Holders \cup {t}) = Cardinality(Holders) + 1
      BY <1>0, Finite, Add, Zenon
    <3> QED  BY <3>1, <2>2 DEF IInv, SlotInv
  <2>4. /\ Cardinality(Waiters') = waiting - woken
        /\ Cardinality(Awake') = Cardinality(Awake) - woken
        /\ Cardinality(Waiters') \in Nat
    <3>1. CASE woken = 1
      <4>1. t \in Waiters /\ t \in Awake
        BY <3>1 DEF Waiters, Awake
      <4>2. /\ Cardinality(Waiters \ {t}) = Cardinality(Waiters) - 1 /\ Cardinality(Waiters) > 0
            /\ Cardinality(Awake \ {t}) = Cardinality(Awake) - 1
        BY <4>1, Finite, Remove, Zenon
      <4> QED  BY <4>2, <2>2, <3>1, Finite DEF IInv, SlotInv
    <3>2. CASE woken = 0
      <4>1. t \notin Waiters /\ t \notin Awake
        BY <3>2 DEF Waiters, Awake
      <4>2. Waiters' = Waiters /\ Awake' = Awake
        BY <4>1, <2>2
      <4> QED  BY <4>2, <3>2, Finite DEF IInv, SlotInv
    <3> QED  BY <3>1, <3>2
  <2>5. SlotInv'
    <3>1. ASSUME slotSleep' # {}
          PROVE  MaxActive - active' <= Cardinality(Awake')
      <4>1. MaxActive - active <= Cardinality(Awake)
        BY <3>1, <2>1 DEF IInv, SlotInv
      <4> QED  BY <4>1, <2>1, <2>4, Finite DEF IInv, TypeOK
    <3> QED  BY <3>1, <2>1, <2>3, <2>4 DEF SlotInv
  <2>6. slotSleep' \subseteq Waiters'
    BY <2>1, <2>2 DEF IInv, PcInv
  <2>7. active' \in 0 .. MaxActive /\ waiting' \in Nat
    BY <1>2, <2>1, <2>4 DEF IInv, TypeOK
  <2> QED  BY <2>5, <2>6, <2>7
<1> QED  BY <1>1, <1>2

\* A mutator that gives up its slot wakes one that sleeps.
LEMMA GiveUpSlot ==
  ASSUME IInv, NEW t \in Mutator, pc[t] = "leaving", ~KeepsSlot(t), UNCHANGED opVars,
         DecreaseMutatorCount, Goto(t, "out")
  PROVE  /\ SlotInv' /\ slotSleep' \subseteq Waiters'
         /\ active' \in 0 .. MaxActive
<1> USE GroupConstants
<1>1. t \in Holders /\ Holders' = Holders \ {t} /\ Waiters' = Waiters
  BY DEF KeepsSlot, OwnsSafepoint, opVars, IInv, TypeOK, Goto, Holders, Waiters, Thread
<1>2. Cardinality(Holders') = Cardinality(Holders) - 1 /\ Cardinality(Holders) > 0
  <2>1. Cardinality(Holders \ {t}) = Cardinality(Holders) - 1 /\ Cardinality(Holders) > 0
    BY <1>1, Finite, Remove, Zenon
  <2> QED  BY <2>1, <1>1
<1>3. active' = active - 1 /\ waiting' = waiting /\ NotifySlot
  BY DEF DecreaseMutatorCount
<1>6. active' \in 0 .. MaxActive
  <2>1. active \in 0 .. MaxActive /\ active > 0
    BY <1>2 DEF IInv, TypeOK, SlotInv
  <2> QED  BY <1>3, <2>1
<1>4. CASE slotSleep = {}
  <2>1. slotSleep' = {}
    BY <1>3, <1>4 DEF NotifySlot
  <2> QED  BY <1>1, <1>2, <1>3, <1>6, <2>1 DEF IInv, SlotInv
<1>5. CASE slotSleep # {}
  <2>1. waiting > 0
    <3>1. PICK u \in slotSleep : u \in Waiters
      BY <1>5 DEF IInv, PcInv
    <3>2. Cardinality(Waiters) > 0
      BY <3>1, Finite, Remove, Zenon
    <3> QED  BY <3>2 DEF IInv, SlotInv
  <2>2. PICK u \in slotSleep : slotSleep' = slotSleep \ {u}
    BY <1>3, <1>5, <2>1 DEF IInv, TypeOK, NotifySlot
  <2>3. u \notin Awake /\ Awake' = Awake \cup {u}
    BY <1>1, <2>2 DEF Awake, IInv, PcInv
  <2>4. Cardinality(Awake') = Cardinality(Awake) + 1
    <3>1. Cardinality(Awake \cup {u}) = Cardinality(Awake) + 1
      BY <2>3, Finite, Add, Zenon
    <3> QED  BY <3>1, <2>3
  <2>5. slotSleep' \subseteq Waiters'
    BY <1>1, <2>2 DEF IInv, PcInv
  <2>6. MaxActive - active <= Cardinality(Awake)
    BY <1>5 DEF IInv, SlotInv
  <2>7. active' = Cardinality(Holders') /\ waiting' = Cardinality(Waiters')
    BY <1>1, <1>2, <1>3 DEF IInv, SlotInv
  <2>8. MaxActive - active' <= Cardinality(Awake')
    <3>1. active \in Int /\ Cardinality(Awake) \in Int /\ MaxActive \in Int
      BY Finite DEF IInv, TypeOK
    <3> QED  BY ONLY <1>3, <2>4, <2>6, <3>1
  <2> QED  BY <1>6, <2>5, <2>7, <2>8 DEF SlotInv
<1> QED  BY <1>4, <1>5

-----------------------------------------------------------------------------
(* The lock. *)

LEMMA FiniteScopes ==
  ASSUME TypeOK, NEW t \in Thread, NEW scope
  PROVE  IsFiniteSet(Scopes(t, scope)) /\ Cardinality(Scopes(t, scope)) \in Nat
<1>1. 1 \in Int /\ Len(scopes[t]) \in Int
  BY DEF TypeOK
<1>2. IsFiniteSet(1 .. Len(scopes[t]))
  BY <1>1, FS_Interval, Zenon
<1>3. Scopes(t, scope) \subseteq 1 .. Len(scopes[t])
  BY DEF Scopes
<1>4. IsFiniteSet(Scopes(t, scope))
  BY <1>2, <1>3, FS_Subset, Zenon
<1> QED  BY <1>4, FS_CardinalityType, Zenon

\* One scope more on a thread's stack.
LEMMA PushScope ==
  ASSUME TypeOK, NEW t \in Thread, NEW scope \in Scope,
         Push(t, scope), Len(scopes[t]) < MaxScopes
  PROVE  LET n == Len(scopes[t]) + 1 IN
         /\ scopes' \in [Thread -> Seq(Scope)]
         /\ \A u \in Thread : Len(scopes'[u]) <= MaxScopes
         /\ \A u \in Thread : u # t => scopes'[u] = scopes[u]
         /\ Len(scopes'[t]) = n /\ scopes'[t][n] = scope /\ scopes'[t] # <<>>
         /\ scopes[t] # <<>> => scopes'[t][1] = scopes[t][1]
         /\ n \in 1 .. MaxScopes /\ n \notin 1 .. Len(scopes[t])
         /\ Scopes(t, scope)' = Scopes(t, scope) \cup {n}
         /\ \A s \in Scope \ {scope} : Scopes(t, s)' = Scopes(t, s)
         /\ \A u \in Thread \ {t}, s \in Scope : Scopes(u, s)' = Scopes(u, s)
<1> DEFINE n == Len(scopes[t]) + 1
<1> USE GroupConstants
<1>1. scopes[t] \in Seq(Scope) /\ Len(scopes[t]) \in Nat /\ MaxScopes \in Nat
  BY DEF TypeOK
<1>2. scopes'[t] = Append(scopes[t], scope) /\ \A u \in Thread : u # t => scopes'[u] = scopes[u]
  BY DEF TypeOK, Push
<1>3. scopes' \in [Thread -> Seq(Scope)]
  BY <1>1 DEF TypeOK, Push
<1>4. /\ Len(scopes'[t]) = n /\ scopes'[t][n] = scope
      /\ \A i \in 1 .. Len(scopes[t]) : scopes'[t][i] = scopes[t][i]
  BY <1>1, <1>2
<1>5. scopes'[t] # <<>> /\ n \in 1 .. MaxScopes /\ n \notin 1 .. Len(scopes[t])
  BY <1>1, <1>4
<1>6. scopes[t] # <<>> => scopes'[t][1] = scopes[t][1]
  BY <1>1, <1>4
<1>7. \A u \in Thread : Len(scopes'[u]) <= MaxScopes
  <2>1. \A u \in Thread : u # t => Len(scopes'[u]) <= MaxScopes
    BY <1>2 DEF TypeOK
  <2>2. Len(scopes'[t]) <= MaxScopes
    BY <1>1, <1>4
  <2> QED  BY <2>1, <2>2
<1>8. 1 .. n = (1 .. Len(scopes[t])) \cup {n}
  BY <1>1
<1>9. Scopes(t, scope)' = Scopes(t, scope) \cup {n}
  BY <1>4, <1>8 DEF Scopes
<1>10. \A s \in Scope \ {scope} : Scopes(t, s)' = Scopes(t, s)
  BY <1>4, <1>8 DEF Scopes
<1>11. \A u \in Thread \ {t}, s \in Scope : Scopes(u, s)' = Scopes(u, s)
  BY <1>2 DEF Scopes
<1> QED  BY <1>2, <1>3, <1>4, <1>5, <1>6, <1>7, <1>9, <1>10, <1>11

\* One scope less on it.
LEMMA PopScope ==
  ASSUME TypeOK, NEW t \in Thread, NEW scope \in Scope, HasScope(t, scope)
  PROVE  LET n == Len(scopes[t]) IN
         /\ scopes' \in [Thread -> Seq(Scope)]
         /\ \A u \in Thread : Len(scopes'[u]) <= MaxScopes
         /\ \A u \in Thread : u # t => scopes'[u] = scopes[u]
         /\ Len(scopes'[t]) = n - 1
         /\ n > 1 => scopes'[t][1] = scopes[t][1] /\ scopes'[t] # <<>>
         /\ n \in 1 .. MaxScopes /\ n \in Scopes(t, scope)
         /\ 1 .. (n - 1) = (1 .. n) \ {n}
         /\ Scopes(t, scope)' = Scopes(t, scope) \ {n}
         /\ \A s \in Scope \ {scope} : Scopes(t, s)' = Scopes(t, s) /\ n \notin Scopes(t, s)
         /\ \A u \in Thread \ {t}, s \in Scope : Scopes(u, s)' = Scopes(u, s)
<1> DEFINE n == Len(scopes[t])
<1> USE GroupConstants
<1>1. /\ scopes[t] \in Seq(Scope) /\ n \in Nat \ {0} /\ MaxScopes \in Nat /\ n <= MaxScopes
      /\ scopes[t][n] = scope
  BY DEF TypeOK, HasScope
<1>2. /\ scopes'[t] = SubSeq(scopes[t], 1, n - 1)
      /\ \A u \in Thread : u # t => scopes'[u] = scopes[u]
  BY DEF TypeOK, HasScope, Pop
<1>3. SubSeq(scopes[t], 1, n - 1) \in Seq(Scope)
  BY <1>1
<1>4. scopes' \in [Thread -> Seq(Scope)]
  BY <1>3 DEF TypeOK, HasScope, Pop
<1>5. Len(scopes'[t]) = n - 1 /\ \A i \in 1 .. (n - 1) : scopes'[t][i] = scopes[t][i]
  BY <1>1, <1>2
<1>6. n > 1 => scopes'[t][1] = scopes[t][1] /\ scopes'[t] # <<>>
  BY <1>1, <1>5
<1>7. \A u \in Thread : Len(scopes'[u]) <= MaxScopes
  <2>1. Len(scopes'[t]) <= MaxScopes
    BY <1>1, <1>5
  <2>2. \A u \in Thread : u # t => Len(scopes'[u]) <= MaxScopes
    BY <1>2 DEF TypeOK
  <2> QED  BY <2>1, <2>2
<1>8. 1 .. (n - 1) = (1 .. n) \ {n} /\ n \in 1 .. n /\ n \in 1 .. MaxScopes
  BY <1>1
<1>9. Scopes(t, scope)' = Scopes(t, scope) \ {n} /\ n \in Scopes(t, scope)
  BY <1>1, <1>5, <1>8 DEF Scopes
<1>10. \A s \in Scope \ {scope} : Scopes(t, s)' = Scopes(t, s) /\ n \notin Scopes(t, s)
  BY <1>1, <1>5, <1>8, Zenon DEF Scopes
<1>11. \A u \in Thread \ {t}, s \in Scope : Scopes(u, s)' = Scopes(u, s)
  BY <1>2 DEF Scopes
<1> QED  BY <1>2, <1>4, <1>5, <1>6, <1>7, <1>8, <1>9, <1>10, <1>11

\* A read scope, when there is no writer.
LEMMA PushRead ==
  ASSUME IInv, NEW t \in Thread, Len(scopes[t]) < MaxScopes,
         writer = NoThread, Push(t, "read"), state' = state + 1, UNCHANGED writer
  PROVE  LockInv'
<1> DEFINE n == Len(scopes[t]) + 1
<1>1. "read" \in Scope /\ TypeOK /\ LockIsExact
  BY DEF Scope, IInv, LockInv
<1>2. /\ \A u \in Thread : u # t => scopes'[u] = scopes[u]
      /\ Len(scopes'[t]) = n /\ n \in 1 .. MaxScopes /\ n \notin 1 .. Len(scopes[t])
      /\ Scopes(t, "read")' = Scopes(t, "read") \cup {n}
      /\ \A u \in Thread \ {t} : Scopes(u, "read")' = Scopes(u, "read")
  BY <1>1, PushScope
<1>3. Reads' = Reads \cup {<<t, n>>} /\ <<t, n>> \notin Reads
  BY <1>2 DEF Reads, Scopes
<1>4. Cardinality(Reads \cup {<<t, n>>}) = Cardinality(Reads) + 1
  BY <1>3, FiniteReads, Add, Zenon
<1>5. state' = Cardinality(Reads')
  BY <1>1, <1>3, <1>4 DEF LockIsExact
<1>6. Len(scopes[t]) \in Nat /\ 1 .. n = (1 .. Len(scopes[t])) \cup {n}
  BY <1>1 DEF TypeOK
<1>7. \A u \in Thread : Scopes(u, "read")' = 1 .. Len(scopes'[u])
  BY <1>1, <1>2, <1>6, Zenon DEF LockIsExact
<1> QED  BY <1>5, <1>7 DEF LockInv, LockIsExact

\* A scope of the writer, for reading or for writing.
LEMMA PushMore ==
  ASSUME IInv, NEW t \in Thread, Len(scopes[t]) < MaxScopes, writer = t, UNCHANGED writer,
         \/ Push(t, "free") /\ state' = state
         \/ Push(t, "write") /\ state' = state - 1
  PROVE  LockInv'
<1> DEFINE n == Len(scopes[t]) + 1
<1>0. t # NoThread
  BY GroupConstants DEF Thread
<1>1. /\ TypeOK /\ state = -Cardinality(Scopes(t, "write")) /\ state < 0
      /\ \A u \in Thread : u # t => scopes[u] = <<>>
      /\ Scopes(t, "read") = {} /\ scopes[t] # <<>> /\ scopes[t][1] = "write"
  BY <1>0 DEF IInv, LockInv, LockIsExact
<1>2. CASE Push(t, "free") /\ state' = state
  <2>1. "free" \in Scope /\ "write" \in Scope \ {"free"} /\ "read" \in Scope \ {"free"}
    BY DEF Scope
  <2>2. /\ \A u \in Thread : u # t => scopes'[u] = scopes[u]
        /\ scopes'[t] # <<>> /\ scopes'[t][1] = scopes[t][1]
        /\ Scopes(t, "write")' = Scopes(t, "write") /\ Scopes(t, "read")' = Scopes(t, "read")
    BY <1>1, <1>2, <2>1, PushScope
  <2> QED  BY <1>0, <1>1, <1>2, <2>2, ZenonT(20) DEF LockInv, LockIsExact, Scopes
<1>3. CASE Push(t, "write") /\ state' = state - 1
  <2>1. "write" \in Scope /\ "read" \in Scope \ {"write"}
    BY DEF Scope
  <2>2. /\ \A u \in Thread : u # t => scopes'[u] = scopes[u]
        /\ scopes'[t] # <<>> /\ scopes'[t][1] = scopes[t][1]
        /\ n \notin 1 .. Len(scopes[t])
        /\ Scopes(t, "write")' = Scopes(t, "write") \cup {n} /\ Scopes(t, "read")' = Scopes(t, "read")
    BY <1>1, <1>3, <2>1, PushScope
  <2>3. n \notin Scopes(t, "write")
    BY <2>2 DEF Scopes
  <2>4. Cardinality(Scopes(t, "write") \cup {n}) = Cardinality(Scopes(t, "write")) + 1
    BY <1>1, <2>3, FiniteScopes, Add, Zenon
  <2>5. Cardinality(Scopes(t, "write")) \in Nat
    BY <1>1, FiniteScopes, Zenon
  <2>6. state' = -(Cardinality(Scopes(t, "write")) + 1) /\ state' < 0
    BY <1>1, <1>3, <2>5
  <2>7. state' = -Cardinality(Scopes(t, "write")')
    BY <2>2, <2>4, <2>6, Zenon
  <2>8. writer' = t /\ \A u \in Thread : u # t => scopes'[u] = <<>>
    BY <1>1, <2>2
  <2> QED  BY <1>0, <1>1, <2>2, <2>6, <2>7, <2>8 DEF LockInv, LockIsExact, Scopes
<1> QED  BY <1>2, <1>3

\* Without a read scope on it a stack is empty when there is no writer.
LEMMA NoScopeLeft ==
  ASSUME TypeOK, LockIsExact, writer = NoThread, state = 0, NEW t \in Thread
  PROVE  scopes[t] = <<>>
<1>1. Reads = {}
  <2>1. Cardinality(Reads) = 0
    BY DEF LockIsExact
  <2> QED  BY <2>1, FiniteReads, FS_EmptySet, Zenon
<1>2. Scopes(t, "read") = 1 .. Len(scopes[t])
  BY DEF LockIsExact
<1>3. scopes[t] \in Seq(Scope) /\ Len(scopes[t]) \in Nat /\ Len(scopes[t]) <= MaxScopes /\ MaxScopes \in Nat
  BY GroupConstants DEF TypeOK
<1>4. SUFFICES ASSUME Len(scopes[t]) > 0  PROVE FALSE
  BY <1>3
<1>5. 1 \in Scopes(t, "read") /\ 1 \in 1 .. MaxScopes
  BY <1>2, <1>3, <1>4
<1>6. <<t, 1>> \in Reads
  BY <1>5 DEF Reads
<1> QED  BY <1>1, <1>6

\* A free lock gets a writer.
LEMMA PushWrite ==
  ASSUME IInv, NEW t \in Thread, Len(scopes[t]) < MaxScopes, writer # t, state = 0,
         Push(t, "write"), state' = -1, writer' = t
  PROVE  LockInv'
<1>0. t # NoThread /\ TypeOK /\ LockIsExact
  BY GroupConstants DEF Thread, IInv, LockInv
<1>1. writer = NoThread
  BY <1>0 DEF LockIsExact
<1>2. \A u \in Thread : scopes[u] = <<>>
  BY <1>0, <1>1, NoScopeLeft
<1>3. "write" \in Scope /\ "read" \in Scope \ {"write"}
  BY DEF Scope
<1>4. /\ \A u \in Thread : u # t => scopes'[u] = <<>>
      /\ scopes'[t] # <<>> /\ scopes'[t][1] = "write"
      /\ Scopes(t, "write")' = {1} /\ Scopes(t, "read")' = {}
  <2>1. Len(scopes[t]) = 0 /\ Scopes(t, "write") = {} /\ Scopes(t, "read") = {}
    BY <1>2 DEF Scopes
  <2> QED  BY <1>0, <1>2, <1>3, <2>1, PushScope
<1>5. Cardinality(Scopes(t, "write")') = 1
  BY <1>4, FS_Singleton, Zenon
<1> QED  BY <1>0, <1>4, <1>5 DEF LockInv, LockIsExact, Scopes

\* A read scope is left.
LEMMA PopRead ==
  ASSUME IInv, NEW t \in Thread, HasScope(t, "read"), state' = state - 1, UNCHANGED writer
  PROVE  LockInv'
<1> DEFINE n == Len(scopes[t])
<1>1. "read" \in Scope /\ TypeOK /\ LockIsExact
  BY DEF Scope, IInv, LockInv
<1>2. /\ \A u \in Thread : u # t => scopes'[u] = scopes[u]
      /\ Len(scopes'[t]) = n - 1 /\ n \in 1 .. MaxScopes /\ n \in Scopes(t, "read")
      /\ 1 .. (n - 1) = (1 .. n) \ {n}
      /\ Scopes(t, "read")' = Scopes(t, "read") \ {n}
      /\ \A u \in Thread \ {t} : Scopes(u, "read")' = Scopes(u, "read")
  BY <1>1, PopScope
<1>3. writer = NoThread
  <2>1. scopes[t] # <<>>
    BY DEF HasScope
  <2> QED  BY <1>1, <1>2, <2>1 DEF LockIsExact
<1>4. Reads' = Reads \ {<<t, n>>} /\ <<t, n>> \in Reads
  BY <1>2 DEF Reads
<1>5. Cardinality(Reads \ {<<t, n>>}) = Cardinality(Reads) - 1
  BY <1>4, FiniteReads, Remove, Zenon
<1>6. state' = Cardinality(Reads')
  BY <1>1, <1>3, <1>4, <1>5 DEF LockIsExact
<1>7. \A u \in Thread : Scopes(u, "read")' = 1 .. Len(scopes'[u])
  BY <1>1, <1>2, <1>3, Zenon DEF LockIsExact
<1> QED  BY <1>3, <1>6, <1>7 DEF LockInv, LockIsExact

\* The writer leaves a read scope.
LEMMA PopFree ==
  ASSUME IInv, NEW t \in Thread, HasScope(t, "free"), UNCHANGED <<state, writer>>
  PROVE  LockInv'
<1> DEFINE n == Len(scopes[t])
<1>1. /\ TypeOK /\ LockIsExact /\ t # NoThread
      /\ "free" \in Scope /\ "read" \in Scope \ {"free"} /\ "write" \in Scope \ {"free"}
  BY GroupConstants DEF Scope, IInv, LockInv, Thread
<1>2. /\ \A u \in Thread : u # t => scopes'[u] = scopes[u]
      /\ n > 1 => scopes'[t][1] = scopes[t][1] /\ scopes'[t] # <<>>
      /\ n \in 1 .. MaxScopes /\ n \in 1 .. Len(scopes[t]) /\ n \notin Scopes(t, "read")
      /\ Scopes(t, "write")' = Scopes(t, "write") /\ Scopes(t, "read")' = Scopes(t, "read")
  <2>1. n \in Scopes(t, "free")
    BY <1>1, PopScope
  <2>2. n \in 1 .. Len(scopes[t])
    BY <2>1 DEF Scopes
  <2> QED  BY <1>1, <2>2, PopScope
<1>3. writer = t
  <2>1. writer # NoThread
    BY <1>1, <1>2 DEF LockIsExact
  <2>2. scopes[t] # <<>>
    BY DEF HasScope
  <2> QED  BY <1>1, <2>1, <2>2 DEF LockIsExact
<1>4. /\ state = -Cardinality(Scopes(t, "write")) /\ state < 0
      /\ \A u \in Thread : u # t => scopes[u] = <<>>
      /\ Scopes(t, "read") = {} /\ scopes[t][1] = "write"
  BY <1>1, <1>3 DEF IInv, LockInv, LockIsExact
<1>5. n > 1
  <2>1. scopes[t][n] = "free"
    BY DEF HasScope
  <2>2. n # 1
    BY <1>4, <2>1
  <2>3. n \in Nat /\ n >= 1
    BY <1>2, GroupConstants
  <2> QED  BY <2>2, <2>3, MoreThanOne, Zenon
<1> QED  BY <1>1, <1>2, <1>3, <1>4, <1>5, ZenonT(20) DEF LockInv, LockIsExact, Scopes

\* The writer leaves a write scope; with the last one the lock is free.
LEMMA PopWrite ==
  ASSUME IInv, NEW t \in Thread, HasScope(t, "write"), state' = state + 1,
         \/ state' < 0 /\ UNCHANGED writer
         \/ state' = 0 /\ writer' = NoThread
  PROVE  LockInv'
<1> DEFINE n == Len(scopes[t])
<1> DEFINE W == Scopes(t, "write")
<1>1. /\ TypeOK /\ LockIsExact /\ t # NoThread
      /\ "write" \in Scope /\ "read" \in Scope \ {"write"}
  BY GroupConstants DEF Scope, IInv, LockInv, Thread
<1>2. /\ \A u \in Thread : u # t => scopes'[u] = scopes[u]
      /\ n > 1 => scopes'[t][1] = scopes[t][1] /\ scopes'[t] # <<>>
      /\ Len(scopes'[t]) = n - 1
      /\ n \in 1 .. MaxScopes /\ n \in W /\ n \notin Scopes(t, "read")
      /\ Scopes(t, "write")' = W \ {n} /\ Scopes(t, "read")' = Scopes(t, "read")
      /\ scopes' \in [Thread -> Seq(Scope)]
  BY <1>1, PopScope
<1>3. writer = t
  <2>1. n \in 1 .. Len(scopes[t])
    BY <1>2 DEF Scopes
  <2>2. writer # NoThread
    BY <1>1, <1>2, <2>1 DEF LockIsExact
  <2>3. scopes[t] # <<>>
    BY DEF HasScope
  <2> QED  BY <1>1, <2>2, <2>3 DEF LockIsExact
<1>4. /\ state = -Cardinality(W) /\ state < 0
      /\ \A u \in Thread : u # t => scopes[u] = <<>>
      /\ Scopes(t, "read") = {} /\ scopes[t][1] = "write"
  BY <1>1, <1>3 DEF IInv, LockInv, LockIsExact
<1>5. /\ IsFiniteSet(W \ {n}) /\ Cardinality(W) \in Nat
      /\ Cardinality(W \ {n}) = Cardinality(W) - 1
  BY <1>1, <1>2, FiniteScopes, Remove, Zenon
<1>6. state' = -Cardinality(W \ {n})
  BY <1>4, <1>5
<1>7. n \in Nat /\ n >= 1 /\ 1 \in 1 .. n
  BY <1>2, GroupConstants
<1>8. 1 \in W
  BY <1>4, <1>7 DEF Scopes
<1>9. CASE state' < 0 /\ UNCHANGED writer
  <2>1. n # 1
    <3>1. SUFFICES ASSUME W \ {n} = {}  PROVE FALSE
      BY <1>2, <1>7 DEF Scopes
    <3>2. Cardinality(W \ {n}) = 0
      BY <3>1, FS_EmptySet, Zenon
    <3> QED  BY <3>2, <1>6, <1>9
  <2>2. n > 1
    BY <1>7, <2>1, MoreThanOne, Zenon
  <2> QED  BY <1>1, <1>2, <1>3, <1>4, <1>6, <1>9, <2>2, ZenonT(20) DEF LockInv, LockIsExact, Scopes
<1>10. CASE state' = 0 /\ writer' = NoThread
  <2>1. W \ {n} = {}
    <3>1. Cardinality(W \ {n}) = 0
      BY <1>5, <1>6, <1>10
    <3> QED  BY <3>1, <1>5, FS_EmptySet, Zenon
  <2>2. n = 1
    BY <1>8, <2>1, Zenon
  <2>3. scopes'[t] = <<>>
    BY <1>2, <2>2
  <2>4. \A u \in Thread : scopes'[u] = <<>>
    BY <1>2, <1>4, <2>3
  <2>5. Reads' = {} /\ \A u \in Thread : Scopes(u, "read")' = 1 .. Len(scopes'[u])
    BY <2>4 DEF Reads, Scopes
  <2>6. Cardinality(Reads') = 0
    BY <2>5, FS_EmptySet, Zenon
  <2> QED  BY <1>10, <2>5, <2>6 DEF LockInv, LockIsExact, Reads, Scopes
<1> QED  BY <1>9, <1>10

\* A step that does not touch the lock.
LEMMA LockKept ==
  ASSUME LockInv, UNCHANGED <<state, writer, scopes>>
  PROVE  LockInv'
BY DEF LockInv, LockIsExact, Scopes, Reads

-----------------------------------------------------------------------------
(* The steps. *)

\* A step of the slots, or a move, leaves the lock alone.
LEMMA MoveInv ==
  ASSUME IInv, NEW t \in Thread, NEW p \in PCs \ {"read", "write"}, Goto(t, p), UNCHANGED lockVars
  PROVE  LockInv' /\ BlockInv' /\ pc' \in [Thread -> PCs]
<1>1. LockInv'
  BY LockKept DEF IInv, lockVars
<1>2. BlockInv'
  BY DEF IInv, TypeOK, BlockInv, Goto, lockVars
<1>3. pc' \in [Thread -> PCs]
  BY DEF IInv, TypeOK, Goto
<1> QED  BY <1>1, <1>2, <1>3

\* Whoever enters an isolate gets a slot or sleeps until there is one.
LEMMA EnterInv ==
  ASSUME IInv, NEW t \in Thread, EnterIsolate(t) \/ SlotWaitReturns(t)
  PROVE  IInv'
<1> USE GroupConstants
<1>1. CASE EnterIsolate(t) /\ KeepsSlot(t)
  <2>1. t \in Mutator /\ pc[t] = "out" /\ Goto(t, "entering") /\ UNCHANGED <<slotVars, lockVars, opVars>>
    BY <1>1 DEF EnterIsolate
  <2>2. LockInv' /\ BlockInv' /\ pc' \in [Thread -> PCs]
    BY <2>1, MoveInv DEF PCs
  <2>3. Holders' = Holders /\ Waiters' = Waiters
    BY <1>1, <2>1 DEF IInv, TypeOK, Goto, Holders, Waiters, Thread, KeepsSlot, OwnsSafepoint, opVars
  <2>4. SlotInv'
    BY <2>1, <2>3, SlotsKept DEF IInv
  <2>5. TypeOK'
    BY <2>1, <2>2 DEF IInv, TypeOK, slotVars, lockVars, opVars
  <2>6. PcInv'
    BY <1>1, <2>1, <2>3 DEF IInv, TypeOK, PcInv, Goto, slotVars, Thread, KeepsSlot, OwnsSafepoint, opVars
  <2> QED  BY <2>2, <2>4, <2>5, <2>6 DEF IInv
<1>2. CASE (EnterIsolate(t) /\ ~KeepsSlot(t)) \/ SlotWaitReturns(t)
  <2>1. PICK woken \in {0, 1} :
          /\ IncreaseMutatorCount(t, woken) /\ t \notin slotSleep
          /\ pc[t] = IF woken = 1 THEN "slotWait" ELSE "out"
    BY <1>2 DEF EnterIsolate, SlotWaitReturns, IInv, PcInv, Waiters
  <2>2. UNCHANGED <<lockVars, opVars>> /\ ~KeepsSlot(t) /\ t \in Mutator
    BY <1>2 DEF EnterIsolate, SlotWaitReturns, IInv, PcInv, Thread, KeepsSlot, OwnsSafepoint
  <2>3. PICK p \in {"slotWait", "entering"} : Goto(t, p)
    BY <2>1 DEF IncreaseMutatorCount
  <2>4. LockInv' /\ BlockInv' /\ pc' \in [Thread -> PCs]
    BY <2>2, <2>3, MoveInv DEF PCs
  <2>5. /\ SlotInv' /\ slotSleep' \subseteq Waiters'
        /\ active' \in 0 .. MaxActive /\ waiting' \in Nat
    BY <2>1, <2>2, TakeSlot
  <2>6. TypeOK'
    <3>1. slotSleep' \subseteq Mutator
      BY <2>5 DEF Waiters
    <3> QED  BY <2>2, <2>4, <2>5, <3>1 DEF IInv, TypeOK, lockVars, opVars
  <2>7. PcInv'
    BY <2>1, <2>2, <2>3, <2>5 DEF IInv, TypeOK, PcInv, Goto, Thread, KeepsSlot, OwnsSafepoint, opVars
  <2> QED  BY <2>4, <2>5, <2>6, <2>7 DEF IInv
<1> QED  BY <1>1, <1>2 DEF SlotWaitReturns

\* Whoever leaves an isolate gives up its slot, but for the owner of an
\* operation with frames on its stack.
LEMMA ReleaseInv ==
  ASSUME IInv, NEW t \in Thread, ReleaseSlot(t)
  PROVE  IInv'
<1> USE GroupConstants
<1>1. pc[t] = "leaving" /\ Goto(t, "out") /\ UNCHANGED <<lockVars, opVars>> /\ t \in Mutator
  BY DEF ReleaseSlot, IInv, PcInv, Thread
<1>2. LockInv' /\ BlockInv' /\ pc' \in [Thread -> PCs]
  BY <1>1, MoveInv DEF PCs
<1>3. /\ SlotInv' /\ slotSleep' \subseteq Waiters'
      /\ active' \in 0 .. MaxActive /\ waiting' = waiting
  <2>1. CASE KeepsSlot(t)
    <3>1. UNCHANGED slotVars
      BY <2>1 DEF ReleaseSlot
    <3>2. Holders' = Holders /\ Waiters' = Waiters
      BY <1>1, <2>1 DEF IInv, TypeOK, Goto, Holders, Waiters, Thread, KeepsSlot, OwnsSafepoint, opVars
    <3> QED  BY <3>1, <3>2, SlotsKept DEF IInv, TypeOK, PcInv, slotVars
  <2>2. CASE ~KeepsSlot(t)
    <3>1. DecreaseMutatorCount
      BY <2>2 DEF ReleaseSlot
    <3> QED  BY <1>1, <2>2, <3>1, GiveUpSlot DEF DecreaseMutatorCount
  <2> QED  BY <2>1, <2>2
<1>4. TypeOK'
  <2>1. slotSleep' \subseteq Mutator
    BY <1>3 DEF Waiters
  <2> QED  BY <1>1, <1>2, <1>3, <2>1 DEF IInv, TypeOK, lockVars, opVars
<1>5. PcInv'
  BY <1>1, <1>3 DEF IInv, TypeOK, PcInv, Goto, Thread, opVars
<1> QED  BY <1>2, <1>3, <1>4, <1>5 DEF IInv

\* A thread in the group goes to a safepoint, comes back, or requests, runs or
\* ends an operation.
LEMMA OperationInv ==
  ASSUME IInv, NEW t \in Thread,
         \/ ExitSafepoint(t) \/ ExitIsolate(t) \/ Park(t)
         \/ RequestOperation(t) \/ RunOperation(t) \/ EndOperation(t)
  PROVE  IInv'
<1> USE GroupConstants
<1>1. PICK p \in {"in", "leaving", "parked", "stopping", "operating"} :
        /\ Goto(t, p) /\ UNCHANGED <<slotVars, lockVars>>
        /\ pc[t] \notin {"out", "slotWait"}
        /\ \A u \in Thread \ {t} : op' = u <=> op = u
        /\ op' \in {op, t, NoThread}
        /\ p = "leaving" => t \in Mutator
        /\ p \in {"stopping", "operating"} => op' = t
        /\ op' = t => p \in {"stopping", "operating", "leaving"}
  BY DEF ExitSafepoint, ExitIsolate, Park, RequestOperation, RunOperation, EndOperation,
         opVars, IInv, TypeOK, PcInv, Thread
<1>7. exitFrame' \in {0, 1} /\ (op' = op => exitFrame' = exitFrame)
  <2>1. CASE RequestOperation(t)
    <3>1. op = NoThread /\ op' = t /\ t # NoThread
      BY <2>1 DEF RequestOperation, Thread
    <3> QED  BY <2>1, <3>1 DEF RequestOperation
  <2>2. CASE EndOperation(t)
    <3>1. op = t /\ op' = NoThread /\ t # NoThread
      BY <2>2 DEF EndOperation, IInv, PcInv, Thread
    <3> QED  BY <2>2, <3>1 DEF EndOperation
  <2>3. CASE UNCHANGED opVars
    BY <2>3 DEF opVars, IInv, TypeOK
  <2> QED  BY <2>1, <2>2, <2>3 DEF ExitSafepoint, ExitIsolate, Park, RunOperation
<1>8. \A u \in Thread \ {t} : (exitFrame' # 0 /\ op' = u) <=> (exitFrame # 0 /\ op = u)
  BY <1>1, <1>7
<1>2. p \in PCs \ {"read", "write"} /\ p \notin {"out", "slotWait"}
  BY DEF PCs
<1>3. LockInv' /\ BlockInv' /\ pc' \in [Thread -> PCs]
  BY <1>1, <1>2, MoveInv
<1>4. SlotInv' /\ slotSleep' \subseteq Waiters'
  BY <1>1, <1>2, <1>8, MoveInside
<1>5. TypeOK'
  BY <1>1, <1>3, <1>7 DEF IInv, TypeOK, slotVars, lockVars
<1>6. PcInv'
  <2>1. pc'[t] = p /\ \A u \in Thread \ {t} : pc'[u] = pc[u]
    BY <1>1 DEF IInv, TypeOK, Goto
  <2>2. \A u \in Helper : pc'[u] \notin {"out", "slotWait", "entering", "leaving"}
    BY <1>1, <2>1 DEF IInv, PcInv, Thread
  <2>3. \A u \in Thread : exitFrame' # 0 /\ op' = u => pc'[u] # "slotWait"
    BY <1>2, <1>8, <2>1 DEF IInv, PcInv
  <2>4. \A u \in Thread : pc'[u] \in {"stopping", "operating"} => op' = u
    BY <1>1, <2>1 DEF IInv, PcInv
  <2>5. \A u \in Thread :
          op' = u => pc'[u] \in {"stopping", "operating", "leaving", "out", "slotWait", "entering"}
    BY <1>1, <2>1 DEF IInv, PcInv
  <2> QED  BY <1>4, <2>2, <2>3, <2>4, <2>5 DEF PcInv
<1> QED  BY <1>3, <1>4, <1>5, <1>6 DEF IInv

\* A thread that has got the lock, at once or after waiting.
LEMMA TryInv ==
  ASSUME IInv, NEW t \in Thread, NEW p \in {"in", "operating", "locked"},
         TryEnterRead(t, p) \/ TryEnterWrite(t, p),
         Len(scopes[t]) < MaxScopes, pc[t] \in {"in", "operating", "read", "write"},
         p = "operating" <=> op = t, UNCHANGED <<slotVars, opVars>>
  PROVE  IInv'
<1> USE GroupConstants
<1>1. Goto(t, p) /\ p \in PCs /\ t # NoThread
  BY DEF TryEnterRead, TryEnterWrite, PCs, Thread
<1>2. SlotInv' /\ slotSleep' \subseteq Waiters'
  BY <1>1, MoveInside DEF opVars
<1>3. LockInv' /\ lockSleep' = lockSleep /\ state' \in Int /\ writer' \in {writer, t}
  <2>1. CASE writer = t
    BY <2>1, PushMore DEF TryEnterRead, TryEnterWrite, IInv, TypeOK
  <2>2. CASE TryEnterRead(t, p) /\ writer # t
    <3>1. writer = NoThread
      BY <2>2 DEF TryEnterRead, IInv, LockInv, LockIsExact, TypeOK
    <3> QED  BY <2>2, <3>1, PushRead DEF TryEnterRead, IInv, TypeOK
  <2>3. CASE TryEnterWrite(t, p) /\ writer # t
    BY <2>3, PushWrite DEF TryEnterWrite, IInv, TypeOK
  <2> QED  BY <2>1, <2>2, <2>3
<1>4. PICK scope \in Scope : Push(t, scope)
  BY DEF TryEnterRead, TryEnterWrite, Scope
<1>5. /\ scopes' \in [Thread -> Seq(Scope)]
      /\ \A u \in Thread : Len(scopes'[u]) <= MaxScopes
      /\ \A u \in Thread : u # t => scopes'[u] = scopes[u]
  BY <1>4, PushScope DEF IInv
<1>6. pc' \in [Thread -> PCs] /\ TypeOK'
  BY <1>1, <1>3, <1>5, ZenonT(20) DEF IInv, TypeOK, Goto, slotVars, opVars
<1>7. PcInv'
  BY <1>1, <1>2 DEF IInv, TypeOK, PcInv, Goto, Thread, opVars
<1>8. BlockInv'
  BY <1>1, <1>3, <1>5 DEF IInv, TypeOK, BlockInv, Goto
<1> QED  BY <1>2, <1>3, <1>6, <1>7, <1>8 DEF IInv

\* Whoever asks for the lock gets it or blocks, without a scope of it.
LEMMA LockInvStep ==
  ASSUME IInv, NEW t \in Thread,
         EnterRead(t) \/ EnterWrite(t) \/ BlockedEnterRead(t) \/ BlockedEnterWrite(t)
  PROVE  IInv'
<1> USE GroupConstants
<1>0. UNCHANGED <<slotVars, opVars>> /\ t # NoThread
  BY DEF EnterRead, EnterWrite, BlockedEnterRead, BlockedEnterWrite, Thread
<1>1. CASE \/ EnterRead(t) /\ TryEnterRead(t, pc[t])
           \/ EnterWrite(t) /\ TryEnterWrite(t, pc[t])
  <2>1. /\ pc[t] \in {"in", "operating"} /\ Len(scopes[t]) < MaxScopes
        /\ pc[t] = "operating" <=> op = t
    BY <1>1 DEF EnterRead, EnterWrite, IInv, PcInv
  <2> QED  BY <1>0, <1>1, <2>1, TryInv
<1>2. CASE \/ BlockedEnterRead(t) /\ TryEnterRead(t, "locked")
           \/ BlockedEnterWrite(t) /\ TryEnterWrite(t, "locked")
  <2>1. pc[t] \in {"read", "write"} /\ op # t
    BY <1>2 DEF BlockedEnterRead, BlockedEnterWrite, IInv, PcInv
  <2>2. Len(scopes[t]) < MaxScopes
    BY <2>1 DEF IInv, BlockInv
  <2> QED  BY <1>0, <1>2, <2>1, <2>2, TryInv
<1>3. CASE \/ EnterRead(t) /\ writer # t /\ state < 0 /\ Block(t, "read")
           \/ EnterWrite(t) /\ writer # t /\ state # 0 /\ Block(t, "write")
  <2>1. writer # t /\ scopes[t] = <<>> /\ MaxScopes > 0
    <3>1. scopes[t] = <<>>
      <4>1. CASE EnterRead(t) /\ state < 0 /\ writer # t
        <5>1. writer # NoThread
          BY <4>1, FiniteReads DEF IInv, LockInv, LockIsExact
        <5> QED  BY <4>1, <5>1 DEF IInv, LockInv, LockIsExact
      <4>2. CASE EnterWrite(t) /\ writer # t
        BY <4>2 DEF EnterWrite
      <4> QED  BY <1>3, <4>1, <4>2
    <3>2. Len(scopes[t]) < MaxScopes
      BY <1>3 DEF EnterRead, EnterWrite
    <3> QED  BY <1>3, <3>1, <3>2
  <2>2. PICK p \in {"read", "write"} : Goto(t, p) /\ UNCHANGED lockVars
    BY <1>3 DEF Block
  <2>3. pc[t] = "in" /\ op # t
    BY <1>3, <2>1 DEF EnterRead, EnterWrite, IInv, PcInv
  <2>4. p \in PCs /\ p \notin {"out", "slotWait"}
    BY DEF PCs
  <2>5. SlotInv' /\ slotSleep' \subseteq Waiters'
    BY <1>0, <2>2, <2>3, <2>4, MoveInside DEF opVars
  <2>6. LockInv'
    BY <2>2, LockKept DEF IInv, lockVars
  <2>7. TypeOK'
    BY <1>0, <2>2, <2>4 DEF IInv, TypeOK, Goto, slotVars, lockVars, opVars
  <2>8. PcInv'
    BY <1>0, <2>2, <2>3, <2>5 DEF IInv, TypeOK, PcInv, Goto, Thread, opVars
  <2>9. BlockInv'
    BY <2>1, <2>2 DEF IInv, TypeOK, BlockInv, Goto, lockVars
  <2> QED  BY <2>5, <2>6, <2>7, <2>8, <2>9, SMTT(20) DEF IInv
<1>4. CASE LockWait(t)
  <2>1. UNCHANGED <<pc, state, writer, scopes, slotVars, op, exitFrame>> /\ lockSleep' = lockSleep \cup {t}
    BY <1>0, <1>4 DEF LockWait, opVars
  <2>2. LockInv'
    BY <2>1, LockKept DEF IInv
  <2>3. Holders' = Holders /\ Waiters' = Waiters
    BY <2>1 DEF Holders, Waiters
  <2>4. SlotInv'
    BY <2>1, <2>3, SlotsKept DEF IInv
  <2>5. TypeOK' /\ PcInv' /\ BlockInv'
    BY <2>1, <2>3 DEF IInv, TypeOK, PcInv, BlockInv, slotVars
  <2> QED  BY <2>2, <2>4, <2>5 DEF IInv
<1> QED  BY <1>1, <1>2, <1>3, <1>4 DEF EnterRead, EnterWrite, BlockedEnterRead, BlockedEnterWrite

\* A scope is left.
LEMMA LeaveInv ==
  ASSUME IInv, NEW t \in Thread, LeaveScope(t)
  PROVE  IInv'
<1>1. PICK scope \in Scope : HasScope(t, scope)
  BY DEF LeaveScope, LeaveRead, LeaveFree, LeaveWrite, Scope
<1>2. UNCHANGED <<pc, slotVars, op, exitFrame>>
  BY DEF LeaveScope, LeaveRead, LeaveFree, LeaveWrite, opVars
<1>3. LockInv'
  BY PopRead, PopFree, PopWrite DEF LeaveScope, LeaveRead, LeaveFree, LeaveWrite
<1>4. /\ state' \in Int /\ writer' \in {writer, NoThread} /\ lockSleep' \in {lockSleep, {}}
  BY DEF LeaveScope, LeaveRead, LeaveFree, LeaveWrite, IInv, TypeOK
<1>5. /\ scopes' \in [Thread -> Seq(Scope)]
      /\ \A u \in Thread : Len(scopes'[u]) <= MaxScopes
      /\ \A u \in Thread : u # t => scopes'[u] = scopes[u]
  BY <1>1, PopScope DEF IInv
<1>6. Holders' = Holders /\ Waiters' = Waiters
  BY <1>2 DEF Holders, Waiters
<1>7. SlotInv'
  BY <1>2, <1>6, SlotsKept DEF IInv
<1>8. TypeOK' /\ PcInv'
  BY <1>2, <1>4, <1>5, <1>6 DEF IInv, TypeOK, PcInv, slotVars
<1>9. BlockInv'
  <2>1. pc[t] \notin {"read", "write"}
    BY <1>1 DEF HasScope
  <2> QED  BY <1>2, <1>4, <1>5, <2>1, GroupConstants DEF IInv, BlockInv, Thread
<1> QED  BY <1>3, <1>7, <1>8, <1>9 DEF IInv

\* A wait that returns without a notification wakes a mutator too many.
LEMMA WakeupInv ==
  ASSUME IInv, NEW t \in Thread, SpuriousWakeup(t)
  PROVE  IInv'
<1>1. /\ UNCHANGED <<pc, active, waiting, state, writer, scopes, op, exitFrame>>
      /\ slotSleep' = slotSleep \ {t} /\ lockSleep' = lockSleep \ {t}
  BY DEF SpuriousWakeup, opVars
<1>2. LockInv'
  BY <1>1, LockKept DEF IInv
<1>3. Holders' = Holders /\ Waiters' = Waiters /\ Awake \subseteq Awake' /\ Awake' \subseteq Mutator
  BY <1>1 DEF Holders, Waiters, Awake
<1>4. Cardinality(Awake) <= Cardinality(Awake') /\ Cardinality(Awake') \in Nat
  <2>1. IsFiniteSet(Awake')
    BY <1>3, GroupConstants, FS_Subset, Zenon
  <2> QED  BY <1>3, <2>1, FS_Subset, FS_CardinalityType, Zenon
<1>5. SlotInv'
  <2>1. ASSUME slotSleep' # {}
        PROVE  MaxActive - active' <= Cardinality(Awake')
    <3>1. MaxActive - active <= Cardinality(Awake)
      BY <1>1, <2>1 DEF IInv, SlotInv
    <3> QED  BY <1>1, <1>4, <3>1, Finite, GroupConstants DEF IInv, TypeOK
  <2> QED  BY <1>1, <1>3, <2>1 DEF IInv, SlotInv
<1>6. TypeOK' /\ PcInv' /\ BlockInv'
  BY <1>1, <1>3 DEF IInv, TypeOK, PcInv, BlockInv
<1> QED  BY <1>2, <1>5, <1>6 DEF IInv

\* Nothing at all happens.
LEMMA StutterInv == IInv /\ UNCHANGED vars => IInv'
<1> SUFFICES ASSUME IInv, UNCHANGED vars  PROVE IInv'
  OBVIOUS
<1>1. UNCHANGED <<pc, slotVars, state, writer, lockSleep, scopes, op, exitFrame>>
  BY DEF vars, lockVars, opVars
<1>2. Holders' = Holders /\ Waiters' = Waiters
  BY <1>1 DEF Holders, Waiters
<1>3. SlotInv' /\ LockInv'
  BY <1>1, <1>2, SlotsKept, LockKept DEF IInv
<1>4. TypeOK' /\ PcInv' /\ BlockInv'
  BY <1>1, <1>2 DEF IInv, TypeOK, PcInv, BlockInv, slotVars
<1> QED  BY <1>3, <1>4 DEF IInv

-----------------------------------------------------------------------------
(* The theorems. *)

\* The slots and the lock keep to the inductive invariant.
THEOREM Invariance == Spec => []IInv
<1>1. IInv /\ [Next]_vars => IInv'
  <2> SUFFICES ASSUME IInv, [Next]_vars  PROVE IInv'
    OBVIOUS
  <2>1. ASSUME NEW t \in Thread, EnterIsolate(t) \/ SlotWaitReturns(t)
        PROVE  IInv'
    BY <2>1, EnterInv
  <2>2. ASSUME NEW t \in Thread,
               \/ ExitSafepoint(t) \/ ExitIsolate(t) \/ Park(t)
               \/ RequestOperation(t) \/ RunOperation(t) \/ EndOperation(t)
        PROVE  IInv'
    BY <2>2, OperationInv
  <2>3. ASSUME NEW t \in Thread, ReleaseSlot(t)  PROVE IInv'
    BY <2>3, ReleaseInv
  <2>4. ASSUME NEW t \in Thread,
               EnterRead(t) \/ EnterWrite(t) \/ BlockedEnterRead(t) \/ BlockedEnterWrite(t)
        PROVE  IInv'
    BY <2>4, LockInvStep
  <2>5. ASSUME NEW t \in Thread, LeaveScope(t)  PROVE IInv'
    BY <2>5, LeaveInv
  <2>6. ASSUME NEW t \in Thread, SpuriousWakeup(t)  PROVE IInv'
    BY <2>6, WakeupInv
  <2>7. CASE UNCHANGED vars
    BY <2>7, StutterInv
  <2> QED  BY <2>1, <2>2, <2>3, <2>4, <2>5, <2>6, <2>7 DEF Next
<1> QED  BY <1>1, InitInv, PTL DEF Spec

\* Every variable of the slots and of the lock has its type; active_mutators_
\* never exceeds max_active_mutators_.
THEOREM TypeCorrect == Spec => []TypeOK
<1>1. IInv => TypeOK
  BY DEF IInv
<1> QED  BY <1>1, Invariance, PTL

\* IncreaseMutatorCount and DecreaseMutatorCount count the mutators inside and
\* those that wait, for any number of mutators and of slots, whether or not the
\* owner of an operation has frames on its stack when it leaves its isolate.
THEOREM SlotsAreAlwaysExact == Spec => []SlotsAreExact
<1>1. IInv => SlotsAreExact
  BY DEF IInv, SlotInv, SlotsAreExact, Holders, Waiters
<1> QED  BY <1>1, Invariance, PTL

\* The one notification of DecreaseMutatorCount is enough: no mutator sleeps
\* while a slot is free that nobody woken is going to take.
THEOREM NoSlotIsEverIdle == Spec => []NoIdleSlot
<1>1. IInv => NoIdleSlot
  BY DEF IInv, SlotInv, NoIdleSlot, Awake, Waiters
<1> QED  BY <1>1, Invariance, PTL

\* SafepointRwLock lets one writer in alone or readers only, whatever scopes
\* are nested, and its state_ counts them.
THEOREM LockIsAlwaysExact == Spec => []LockIsExact
<1>1. IInv => LockIsExact
  BY DEF IInv, LockInv
<1> QED  BY <1>1, Invariance, PTL
=============================================================================
