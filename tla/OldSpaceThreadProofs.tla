------------------------ MODULE OldSpaceThreadProofs ------------------------
(***************************************************************************)
(* The inductive invariant of the old space, the lemmas about stacks of    *)
(* steps and about the steps of a thread, and the steps of threads up to   *)
(* the start of a concurrent mark: they keep the invariant.                *)
(***************************************************************************)
EXTENDS OldSpace, FiniteSetTheorems, SequenceTheorems, TLAPS

(* A leaf that names no prover is tried with the SMT solver, then Zenon.   *)
USE SMTT(30), Z3T(30), ZenonT(20)

-----------------------------------------------------------------------------
(* What a thread does, in order. *)

\* What a thread does outside an operation it owns.
Outside == {"run", "request", "sweepCheck", "sweepAsleep", "markCheck",
            "markAsleep", "finalizeCheck"}

\* What may follow x in what a thread has to do.
Fits(x, y) ==
  /\ x # "run"
  /\ x \in Outside \ {"run", "request"} => y = "run"
  /\ x \in {"request", "stopping"} =>
       y \in {"pause", "collect", "afterScavenge", "iterate", "finalize", "start", "abort"}
  /\ x = "release" => y \in {"run", "finalizeCheck", "markCheck"}
  /\ x \in {"afterScavenge", "retry", "start", "startWait", "iterate", "iterAssist",
            "iterWait", "iterating"} => y = "release"
  /\ x = "finalize" => y \in {"release", "iterWait"}
  /\ x \in {"collect", "account"} => y \in {"release", "iterWait", "retry", "sweepWait"}
  /\ x \in {"collecting", "rootsWait"} => y = "account"
  /\ x \in {"starting", "startTasks"} => y = "rootsWait"
  /\ x = "mainRoots" => y = "startTasks"
  /\ x = "abort" => y = "pause"
  /\ x \in {"pause", "pauseWait"} => y \in {"cards", "resume"}
  /\ x = "cards" => y = "resume"
  /\ x = "resume" => y \in {"afterScavenge", "pause", "release"}
  /\ x = "sweepWait" => y \in {"resume", "collect", "release"}

\* Only the innermost wait for the sweeper is one of a scavenge.
Stack(s) ==
  /\ s \in Seq(Doing) /\ s # <<>> /\ s[Len(s)] = "run"
  /\ \A k \in 1 .. Len(s) - 1 :
       Fits(s[k], s[k + 1]) /\ (k > 1 /\ s[k] = "sweepWait" => s[k + 1] # "resume")

-----------------------------------------------------------------------------
(* The inductive invariant. *)

\* A thread between PauseConcurrentMarking and ResumeConcurrentMarking.
Pausing(s) ==
  \/ s[1] \in {"pauseWait", "cards", "resume"}
  \/ s[1] = "sweepWait" /\ s[2] = "resume"

DriverPCs == {"collecting", "starting", "startTasks", "mainRoots", "rootsWait",
              "account", "iterating"}
RootPCs == {"startTasks", "mainRoots", "rootsWait"}

\* The owner is the one thread that counts as a task.
Driving == owner # NoThread /\ Now(owner) \in DriverPCs

\* Marker tasks that have not marked all roots, and the thread that holds them.
Rooting(i) == mt[i] \in {"counted", "roots"} \/ (mt[i] = "started" /\ slices < RootSlices)

HoldsRoots(s) ==
  \A i \in MarkerTask :
    /\ Rooting(i) => s[1] \in RootPCs
    /\ mt[i] = "counted" => s[1] # "rootsWait"

\* What the stack s of a thread t says of the tasks.
ThreadInv(t, s) ==
  /\ Stack(s)
  /\ s[1] \notin Outside <=> owner = t
  /\ Pausing(s) => paused /\ (s[1] # "pauseWait" => Live = Yielded)
  /\ s[1] \in {"collecting", "iterating"} => Live = {} /\ sw = "none"
  /\ s[1] = "starting" => phase = "done"
  /\ s[1] = "startWait" => phase \notin {"marking", "awaitingFinalization"}

SpaceTypes ==
  /\ phase \in Phase
  /\ tasks \in Nat /\ markers \in Nat /\ active \in Nat
  /\ paused \in BOOLEAN /\ marker \in BOOLEAN
  /\ slices \in 0 .. RootSlices
  /\ mt \in [MarkerTask -> MarkerPC] /\ sw \in SweeperPC

Types ==
  /\ todo \in [Thread -> Seq(Doing)]
  /\ owner \in Thread \cup {NoThread} /\ irq \subseteq Thread
  /\ SpaceTypes
  /\ sleep \subseteq Thread /\ shut \in {"no", "wait", "asleep", "gone"}

Threads == \A t \in Thread : ThreadInv(t, todo[t])

Counting ==
  /\ markers = Cardinality(Live)
  /\ active = Cardinality(Live \ Yielded)
  /\ tasks = markers + (IF sw = "none" THEN 0 ELSE 1) + (IF Driving THEN 1 ELSE 0)

Phases ==
  /\ phase = "marking" <=> Live # {}
  /\ phase = "sweepingLarge" <=> sw = "started"
  /\ phase = "sweepingRegular" <=> sw \in {"regular", "left"}
  /\ marker <=> phase \in {"marking", "awaitingFinalization"} /\ shut # "gone"

\* The owner of an operation has stopped the others; marking is paused, or
\* has its roots marked, only in an operation.
Holding ==
  /\ owner # NoThread =>
       /\ Now(owner) # "stopping" => \A t \in Thread \ {owner} : AtSafepoint(t)
       /\ HoldsRoots(todo[owner])
       /\ paused => Pausing(todo[owner])
  /\ owner = NoThread => ~paused /\ \A i \in MarkerTask : ~Rooting(i)
  /\ shut # "no" => \A t \in Thread : Now(t) = "run"
  /\ shut = "gone" => Live = {} /\ sw = "none"

IInv == Types /\ Threads /\ Counting /\ Phases /\ Holding /\ NoLostWakeup

-----------------------------------------------------------------------------
(* Stacks. *)

\* The bottom of a stack is "run", and nothing else is.
LEMMA StackTop ==
  ASSUME NEW s, Stack(s)
  PROVE  /\ s \in Seq(Doing) /\ Len(s) \in Nat /\ Len(s) >= 1
         /\ s[1] \in Doing /\ Head(s) = s[1]
         /\ s[1] = "run" => Len(s) = 1 /\ Tail(s) = <<>>
         /\ s[1] # "run" => Len(s) >= 2 /\ s[2] \in Doing /\ Fits(s[1], s[2])
<1>1. s \in Seq(Doing) /\ s # <<>> /\ Len(s) \in Nat /\ Len(s) >= 1
  BY DEF Stack
<1>2. s[1] \in Doing /\ Head(s) = s[1]
  BY <1>1
<1>3. ASSUME Len(s) >= 2 PROVE s[2] \in Doing /\ Fits(s[1], s[2])
  BY <1>1, <1>3 DEF Stack
<1>4. Len(s) = 1 => s[1] = "run"
  BY <1>1 DEF Stack
<1>5. Len(s) >= 2 => s[1] # "run"
  BY <1>3 DEF Fits
<1>6. Len(s) = 1 => Tail(s) = <<>>
  <2>1. Tail(s) \in Seq(Doing) /\ Len(Tail(s)) = Len(s) - 1
    BY <1>1, HeadTailProperties
  <2>2. Len(s) = 1 => Len(Tail(s)) = 0
    BY <2>1
  <2> QED BY <2>1, <2>2, EmptySeq, Zenon
<1>7. Len(s) = 1 \/ Len(s) >= 2
  <2>1. \A n \in Nat : n >= 1 => n = 1 \/ n >= 2
    OBVIOUS
  <2> QED BY <1>1, <2>1, Zenon
<1>8. (s[1] = "run" => Len(s) = 1) /\ (s[1] # "run" => Len(s) >= 2)
  BY <1>4, <1>5, <1>7, Zenon
<1> QED BY <1>1, <1>2, <1>3, <1>6, <1>8

\* What is left when the top is done.
LEMMA Popped ==
  ASSUME NEW s, Stack(s), s[1] # "run"
  PROVE  /\ Stack(Tail(s)) /\ Tail(s)[1] = s[2] /\ Tail(s) = <<>> \o Tail(s)
         /\ s[2] = "sweepWait" => Tail(s)[2] # "resume"
<1>1. s \in Seq(Doing) /\ Len(s) \in Nat /\ Len(s) >= 2
  BY StackTop
<1> DEFINE r == Tail(s)
<1>2. /\ r \in Seq(Doing) /\ Len(r) = Len(s) - 1 /\ r # <<>>
      /\ \A k \in 1 .. Len(r) : r[k] = s[k + 1]
  <2>1. s # <<>>
    BY DEF Stack
  <2>2. /\ r \in Seq(Doing) /\ Len(r) = Len(s) - 1
        /\ \A k \in 1 .. Len(r) : r[k] = s[k + 1]
    BY <1>1, <2>1, HeadTailProperties
  <2>3. Len(s) - 1 # 0
    <3>1. \A n \in Nat : n >= 2 => n - 1 # 0
      OBVIOUS
    <3> QED BY <1>1, <3>1, Zenon
  <2>4. r # <<>>
    BY <2>2, <2>3, EmptySeq, Zenon
  <2> QED BY <2>2, <2>4
<1>3. r[Len(r)] = "run"
  BY <1>1, <1>2 DEF Stack
<1>4. ASSUME NEW k \in 1 .. Len(r) - 1
      PROVE  Fits(r[k], r[k + 1]) /\ (r[k] = "sweepWait" => r[k + 1] # "resume")
  <2>1. /\ k + 1 \in 1 .. Len(s) - 1 /\ k + 1 > 1 /\ r[k] = s[k + 1]
        /\ r[k + 1] = s[(k + 1) + 1]
    BY <1>1, <1>2
  <2> QED BY <2>1 DEF Stack
<1>5. Stack(r)
  BY <1>2, <1>3, <1>4 DEF Stack
<1>6. r[1] = s[2]
  BY <1>1, <1>2
<1>7. s[2] = "sweepWait" => r[2] # "resume"
  <2>1. Len(r) = 1 => r[1] = "run"
    BY <1>3
  <2>2. Len(r) >= 2 => (r[1] = "sweepWait" => r[2] # "resume")
    BY <1>1, <1>2, <1>4
  <2> QED BY <1>1, <1>2, <1>6, <2>1, <2>2
<1>8. r = <<>> \o r
  BY <1>2
<1> QED BY <1>5, <1>6, <1>7, <1>8, Zenon

\* Steps p put in place of the top of s.
LEMMA Replaced ==
  ASSUME NEW s, Stack(s), NEW p \in Seq(Doing), p # <<>>,
         \A k \in 1 .. Len(p) - 1 :
           Fits(p[k], p[k + 1]) /\ (k > 1 /\ p[k] = "sweepWait" => p[k + 1] # "resume"),
         s[1] = "run" => p[Len(p)] = "run",
         s[1] # "run" => /\ Fits(p[Len(p)], s[2])
                         /\ (Len(p) > 1 /\ p[Len(p)] = "sweepWait" => s[2] # "resume")
  PROVE  /\ Stack(p \o Tail(s)) /\ (p \o Tail(s))[1] = p[1]
         /\ Len(p) > 1 => (p \o Tail(s))[2] = p[2]
         /\ Len(p) = 1 /\ s[1] # "run" => (p \o Tail(s))[2] = s[2]
<1>1. CASE s[1] = "run"
  <2>1. Tail(s) = <<>>
    BY <1>1, StackTop
  <2>2. p \o Tail(s) = p
    BY <2>1, ConcatEmptySeq, Zenon
  <2>3. Stack(p)
    BY <1>1 DEF Stack
  <2> QED BY <1>1, <2>2, <2>3, Zenon
<1>2. CASE s[1] # "run"
  <2> DEFINE r == Tail(s)
             q == p \o r
  <2>1. Stack(r) /\ r[1] = s[2] /\ (s[2] = "sweepWait" => r[2] # "resume")
    BY <1>2, Popped, Zenon
  <2>2. /\ r \in Seq(Doing) /\ r # <<>> /\ Len(r) \in Nat /\ Len(r) >= 1
        /\ Len(p) \in Nat /\ Len(p) >= 1
    BY <2>1 DEF Stack
  <2>3. /\ q \in Seq(Doing) /\ Len(q) = Len(p) + Len(r) /\ q # <<>>
        /\ \A k \in 1 .. Len(p) : q[k] = p[k]
        /\ \A k \in 1 .. Len(r) : q[Len(p) + k] = r[k]
    BY <2>2
  <2> HIDE DEF q, r
  <2>4. q[Len(q)] = "run"
    <3>1. r[Len(r)] = "run"
      BY <2>1 DEF Stack
    <3> QED BY <2>2, <2>3, <3>1
  <2>5. ASSUME NEW k \in 1 .. Len(q) - 1
        PROVE  Fits(q[k], q[k + 1]) /\ (k > 1 /\ q[k] = "sweepWait" => q[k + 1] # "resume")
    <3>1. CASE k \in 1 .. Len(p) - 1
      <4>1. q[k] = p[k] /\ q[k + 1] = p[k + 1]
        BY <2>2, <2>3, <3>1
      <4> QED BY <3>1, <4>1
    <3>2. CASE k = Len(p)
      <4>1. q[k] = p[Len(p)] /\ q[k + 1] = s[2]
        BY <2>1, <2>2, <2>3, <3>2
      <4> QED BY <1>2, <2>2, <3>2, <4>1
    <3>3. CASE k > Len(p)
      <4>1. PICK j \in 1 .. Len(r) - 1 : k = Len(p) + j
        <5>1. k - Len(p) \in 1 .. Len(r) - 1 /\ k = Len(p) + (k - Len(p))
          BY <2>2, <2>3, <3>3
        <5> QED BY <5>1, Zenon
      <4>2. q[k] = r[j] /\ q[k + 1] = r[j + 1]
        BY <2>2, <2>3, <4>1
      <4>3. Fits(r[j], r[j + 1]) /\ (j > 1 /\ r[j] = "sweepWait" => r[j + 1] # "resume")
        BY <2>1, <4>1 DEF Stack
      <4>4. r[j] = "sweepWait" => r[j + 1] # "resume"
        BY <2>1, <2>2, <4>1, <4>3
      <4> QED BY <4>2, <4>3, <4>4
    <3> QED BY <2>2, <2>3, <3>1, <3>2, <3>3
  <2>6. Stack(q)
    BY <2>3, <2>4, <2>5 DEF Stack
  <2>7. q[1] = p[1] /\ (Len(p) > 1 => q[2] = p[2]) /\ (Len(p) = 1 => q[2] = s[2])
    BY <2>1, <2>2, <2>3
  <2> QED BY <1>2, <2>6, <2>7, Zenon DEF q, r
<1> QED BY <1>1, <1>2, Zenon

-----------------------------------------------------------------------------
(* Threads inside and outside an operation. *)

\* Where a thread waits for tasks_lock_.
WaitPCs == {"collect", "startWait", "iterWait", "pauseWait", "cards", "sweepWait",
            "sweepAsleep", "markAsleep"}

\* A thread that sleeps in such a wait is at one.
LEMMA SleepersWait ==
  ASSUME NoLostWakeup, NEW t \in sleep
  PROVE  Now(t) \in WaitPCs
BY DEF NoLostWakeup, WaitPCs

\* What any thread knows.
LEMMA AnyThread ==
  ASSUME IInv, NEW t \in Thread
  PROVE  /\ t # NoThread /\ Stack(todo[t]) /\ Now(t) = todo[t][1] /\ Now(t) \in Doing
         /\ Now(t) \notin Outside <=> owner = t
         /\ Now(t) # "run" => todo[t][2] \in Doing /\ Fits(Now(t), todo[t][2])
         /\ Now(t) # "run" => shut = "no"
         /\ Now(t) \notin WaitPCs => t \notin sleep
<1>1. Stack(todo[t]) /\ (todo[t][1] \notin Outside <=> owner = t)
  BY Zenon DEF IInv, Threads, ThreadInv
<1>2. t # NoThread
  BY OldSpaceConstants
<1>3. /\ Now(t) = todo[t][1] /\ Now(t) \in Doing
      /\ Now(t) # "run" => todo[t][2] \in Doing /\ Fits(Now(t), todo[t][2])
  BY <1>1, StackTop DEF Now
<1>4. Now(t) # "run" => shut = "no"
  BY Zenon DEF IInv, Holding
<1>5. Now(t) \notin WaitPCs => t \notin sleep
  BY SleepersWait, Zenon DEF IInv
<1> QED BY <1>1, <1>2, <1>3, <1>4, <1>5

\* The owner of an operation.
LEMMA Inside ==
  ASSUME IInv, NEW t \in Thread, Now(t) \notin Outside
  PROVE  /\ owner = t /\ owner # NoThread /\ shut = "no" /\ Now(t) # "run"
         /\ Now(t) # "stopping" => \A u \in Thread \ {t} : AtSafepoint(u)
         /\ HoldsRoots(todo[t])
         /\ paused <=> Pausing(todo[t])
<1>1. owner = t /\ owner # NoThread /\ shut = "no" /\ Now(t) # "run"
  BY AnyThread DEF Outside
<1>2. /\ Now(t) # "stopping" => \A u \in Thread \ {t} : AtSafepoint(u)
      /\ HoldsRoots(todo[t])
      /\ paused => Pausing(todo[t])
  BY <1>1, Zenon DEF IInv, Holding
<1>3. Pausing(todo[t]) => paused
  BY Zenon DEF IInv, Threads, ThreadInv
<1> QED BY <1>1, <1>2, <1>3

\* A thread outside says nothing of the tasks.
LEMMA OutsideSays ==
  ASSUME NEW t, NEW s, Stack(s), s[1] \in Outside, owner # t
  PROVE  ThreadInv(t, s) /\ ~Pausing(s) /\ s[1] \notin DriverPCs
BY DEF ThreadInv, Pausing, Outside, DriverPCs

\* Only what the owner does says anything of the tasks.
LEMMA ThreadsFollowOwner ==
  ASSUME IInv, UNCHANGED todo, UNCHANGED owner,
         owner # NoThread => ThreadInv(owner, todo[owner])'
  PROVE  Threads'
<1> SUFFICES ASSUME NEW t \in Thread PROVE ThreadInv(t, todo[t])'
  BY DEF Threads
<1>1. Stack(todo[t]) /\ (todo[t][1] \in Outside <=> owner # t) /\ t # NoThread
  BY AnyThread
<1>2. CASE owner = t
  BY <1>1, <1>2
<1>3. CASE owner # t
  BY <1>1, <1>3 DEF ThreadInv, Pausing, Outside
<1> QED BY <1>2, <1>3

\* A thread that moves inside an operation, into it or out of it.
LEMMA OthersKeep ==
  ASSUME IInv, NEW t \in Thread, NEW s, todo' = [todo EXCEPT ![t] = s],
         owner \in {t, NoThread}, owner' \in {t, NoThread},
         ThreadInv(t, todo[t])'
  PROVE  Threads'
<1> SUFFICES ASSUME NEW u \in Thread, u # t PROVE ThreadInv(u, todo[u])'
  BY DEF Threads
<1>1. Stack(todo[u]) /\ (todo[u][1] \in Outside <=> owner # u) /\ u # NoThread
  BY AnyThread
<1>2. todo'[u] = todo[u]
  BY DEF IInv, Types
<1> QED BY <1>1, <1>2 DEF ThreadInv, Pausing, Outside

-----------------------------------------------------------------------------
(* Steps of a thread that leave the tasks alone. *)

\* A thread that goes on to s may sleep there, for the phase to change.
SleepsFor(s) ==
  \/ s[1] = "sweepAsleep" /\ Sweeping
  \/ s[1] = "markAsleep" /\ phase = "marking"
Sleeps(t, s) == sleep' = sleep \/ (sleep' = sleep \cup {t} /\ SleepsFor(s))

\* A thread goes on to s, and nothing it counts or waits for changes.
LEMMA Moves ==
  ASSUME IInv, NEW t \in Thread, NEW s, todo' = [todo EXCEPT ![t] = s],
         UNCHANGED <<spaceVars, taskVars, shut>>, Sleeps(t, s),
         irq' \subseteq Thread, owner' \in Thread \cup {NoThread},
         \A u \in Thread \ {t} : owner' = u <=> owner = u,
         Stack(s), s[1] \notin Outside <=> owner' = t,
         t \notin sleep, shut = "no",
         Now(t) \notin DriverPCs, s[1] \notin DriverPCs,
         Pausing(s) <=> Pausing(todo[t]),
         Pausing(s) /\ s[1] # "pauseWait" => Live = Yielded,
         s[1] = "startWait" => phase \notin {"marking", "awaitingFinalization"},
         owner' = t /\ s[1] # "stopping" => \A u \in Thread \ {t} : AtSafepoint(u),
         owner' \notin {t, NoThread} => Now(owner) = "stopping"
  PROVE  IInv'
<1>0. Types /\ Threads /\ Counting /\ Phases /\ Holding /\ NoLostWakeup
  BY DEF IInv
<1>a. /\ UNCHANGED <<phase, tasks, markers, active, paused, marker>>
      /\ UNCHANGED <<slices, mt, sw, shut>>
  BY DEF spaceVars, counters, taskVars
<1>b. /\ todo'[t] = s /\ Now(t)' = s[1] /\ s \in Seq(Doing)
      /\ \A u \in Thread \ {t} : todo'[u] = todo[u] /\ Now(u)' = Now(u)
  BY <1>0, StackTop DEF Types, Now
<1>c. UNCHANGED <<Live, Yielded>>
  BY <1>a DEF Live, Yielded
<1>d. NoThread \notin Thread
  BY OldSpaceConstants
<1>1. Types'
  <2>1. todo' \in [Thread -> Seq(Doing)]
    BY <1>0, <1>b DEF Types
  <2>2. sleep' \subseteq Thread
    BY <1>0 DEF Types, Sleeps
  <2> QED BY <1>0, <1>a, <2>1, <2>2 DEF Types, SpaceTypes
<1>2. Threads'
  <2> SUFFICES ASSUME NEW u \in Thread PROVE ThreadInv(u, todo[u])'
    BY DEF Threads
  <2>1. CASE u = t
    <3>1. Pausing(s) => paused
      BY <1>0, Zenon DEF Threads, ThreadInv
    <3>2. s[1] \notin {"collecting", "iterating", "starting"}
      BY DEF DriverPCs
    <3> QED BY <1>a, <1>b, <1>c, <2>1, <3>1, <3>2 DEF ThreadInv, Pausing
  <2>2. CASE u # t
    <3>1. ThreadInv(u, todo[u]) /\ todo'[u] = todo[u] /\ (owner' = u <=> owner = u)
      BY <1>0, <1>b, <2>2, Zenon DEF Threads
    <3> QED BY <1>a, <1>c, <3>1 DEF ThreadInv, Pausing
  <2> QED BY <2>1, <2>2
<1>e. /\ owner = t => owner' \in {t, NoThread}
      /\ owner \notin {t, NoThread} => owner' = owner
      /\ owner = NoThread => owner' \in {t, NoThread}
  BY <1>0 DEF Types
<1>3. Counting'
  <2>1. Driving' = Driving
    BY <1>b, <1>d, <1>e DEF Driving
  <2> QED BY <1>0, <1>a, <1>c, <2>1 DEF Counting
<1>4. Phases'
  BY <1>0, <1>a, <1>c DEF Phases
<1>5. Holding'
  <2>1. \A i \in MarkerTask : Rooting(i)' = Rooting(i) /\ mt'[i] = mt[i]
    BY <1>a DEF Rooting
  <2>2. owner = t => \A i \in MarkerTask : ~Rooting(i)
    <3>1. owner = t => HoldsRoots(todo[t]) /\ todo[t][1] = Now(t)
      BY <1>d, Inside, AnyThread
    <3>2. Now(t) \notin RootPCs
      BY DEF DriverPCs, RootPCs
    <3> QED BY <3>1, <3>2 DEF HoldsRoots
  <2>3. owner \in {t, NoThread} => \A i \in MarkerTask : ~Rooting(i) /\ mt[i] # "counted"
    BY <1>0, <2>2 DEF Holding, Rooting
  <2>4. owner = t => (paused <=> Pausing(todo[t]))
    BY Inside, AnyThread
  <2>5. /\ owner = NoThread => ~paused
        /\ Pausing(todo[t]) => owner = t
    <3>1. owner # t => todo[t][1] \in Outside
      BY AnyThread
    <3> QED BY <1>0, <3>1 DEF Holding, Pausing, Outside
  <2>6. CASE owner' = t
    <3>1. HoldsRoots(todo[t])'
      BY <1>d, <1>e, <2>1, <2>3, <2>6 DEF HoldsRoots
    <3>2. (paused => Pausing(todo[t]))'
      BY <1>a, <1>b, <1>d, <1>e, <2>4, <2>5, <2>6 DEF Pausing
    <3>3. Now(t)' # "stopping" => \A u \in Thread \ {t} : AtSafepoint(u)'
      BY <1>b, <2>6 DEF AtSafepoint
    <3> QED BY <1>a, <1>d, <2>6, <3>1, <3>2, <3>3 DEF Holding
  <2>7. CASE owner' = NoThread
    <3>1. \A i \in MarkerTask : ~Rooting(i)'
      BY <1>0, <1>d, <1>e, <2>1, <2>3, <2>7 DEF Types
    <3>2. ~paused'
      BY <1>0, <1>a, <1>b, <1>d, <1>e, <2>4, <2>5, <2>7 DEF Types, Pausing, Outside
    <3> QED BY <1>a, <2>7, <3>1, <3>2 DEF Holding
  <2>8. CASE owner' \notin {t, NoThread}
    <3>1. owner' = owner /\ owner \in Thread \ {t} /\ Now(owner) = "stopping"
      BY <1>0, <1>e, <2>8 DEF Types
    <3>2. todo'[owner] = todo[owner] /\ Now(owner)' = "stopping"
      BY <1>b, <3>1
    <3>3. HoldsRoots(todo[owner]) /\ (paused => Pausing(todo[owner]))
      BY <1>0, <2>8, <3>1 DEF Holding
    <3>4. HoldsRoots(todo[owner])' /\ (paused => Pausing(todo[owner]))'
      BY <1>a, <2>1, <3>1, <3>2, <3>3 DEF HoldsRoots, Pausing
    <3> QED BY <1>a, <2>8, <3>1, <3>2, <3>4 DEF Holding
  <2> QED BY <2>6, <2>7, <2>8
<1>6. NoLostWakeup'
  <2>1. \A u \in sleep : u \in Thread /\ Now(u)' = Now(u)
    BY <1>0, <1>b DEF Types
  <2>2. \A u \in sleep' : u \in sleep \/ (u = t /\ SleepsFor(s))
    BY DEF Sleeps
  <2>3. \A u \in sleep' :
          \/ Now(u)' \in {"collect", "startWait", "iterWait"} /\ tasks > 0
          \/ Now(u)' = "pauseWait" /\ active # 0
          \/ Now(u)' = "cards" /\ phase = "sweepingLarge"
          \/ Now(u)' \in {"sweepWait", "sweepAsleep"} /\ Sweeping
          \/ Now(u)' = "markAsleep" /\ phase = "marking"
    BY <1>0, <1>b, <2>1, <2>2 DEF NoLostWakeup, SleepsFor
  <2> QED BY <1>0, <1>a, <2>3 DEF NoLostWakeup, Sweeping
<1> QED BY <1>1, <1>2, <1>3, <1>4, <1>5, <1>6 DEF IInv

\* Nothing changes but who sleeps.
LEMMA WaitInv ==
  ASSUME IInv, NEW t \in Thread, Wait(t),
         \/ Now(t) \in {"collect", "startWait", "iterWait"} /\ tasks > 0
         \/ Now(t) = "pauseWait" /\ active # 0
         \/ Now(t) = "cards" /\ phase = "sweepingLarge"
         \/ Now(t) = "sweepWait" /\ Sweeping
  PROVE  IInv'
<1>0. Types /\ Threads /\ Counting /\ Phases /\ Holding /\ NoLostWakeup
  BY DEF IInv
<1>a. /\ UNCHANGED <<todo, owner, irq, phase, tasks, markers, active, paused, marker>>
      /\ UNCHANGED <<slices, mt, sw, shut>> /\ sleep' = sleep \cup {t}
  BY DEF Wait, spaceVars, counters, taskVars
<1>1. Types'
  BY <1>0, <1>a DEF Types, SpaceTypes
<1>2. Threads'
  BY <1>0, <1>a DEF Threads, ThreadInv, Pausing, Live, Yielded
<1>3. Counting' /\ Phases'
  BY <1>0, <1>a DEF Counting, Phases, Driving, Now, Live, Yielded
<1>4. Holding'
  BY <1>0, <1>a DEF Holding, HoldsRoots, Rooting, Pausing, AtSafepoint, Now, Live
<1>5. NoLostWakeup'
  BY <1>0, <1>a DEF NoLostWakeup, Now, Sweeping
<1> QED BY <1>1, <1>2, <1>3, <1>4, <1>5 DEF IInv

\* The owner of an operation goes on in it.
LEMMA InsideMoves ==
  ASSUME IInv, NEW t \in Thread, NEW p, Become(t, p),
         UNCHANGED <<owner, irq, spaceVars, taskVars, waitVars>>,
         Now(t) \notin Outside \cup DriverPCs, t \notin sleep,
         Now(t) = "stopping" => \A u \in Thread \ {t} : AtSafepoint(u),
         NEW s, s = p \o Tail(todo[t]), Stack(s),
         s[1] \notin Outside \cup DriverPCs,
         Pausing(s) <=> Pausing(todo[t]),
         Pausing(s) /\ s[1] # "pauseWait" => Live = Yielded,
         s[1] = "startWait" => phase \notin {"marking", "awaitingFinalization"}
  PROVE  IInv'
<1>1. /\ owner = t /\ shut = "no"
      /\ \A u \in Thread \ {t} : AtSafepoint(u)
  BY Inside
<1>2. todo' = [todo EXCEPT ![t] = s]
  BY DEF Become
<1>3. /\ UNCHANGED <<spaceVars, taskVars, shut>> /\ Sleeps(t, s)
      /\ owner' = owner /\ irq' = irq
  BY DEF waitVars, Sleeps
<1>4. owner' \in Thread \cup {NoThread} /\ irq' \subseteq Thread
  BY <1>3 DEF IInv, Types
<1>5. \A u \in Thread \ {t} : owner' = u <=> owner = u
  BY <1>3
<1>6. s[1] \notin Outside <=> owner' = t
  BY <1>1, <1>3, Zenon
<1> QED BY ONLY IInv, t \in Thread, Stack(s), <1>1, <1>2, <1>3, <1>4, <1>5, <1>6,
              t \notin sleep, Now(t) \notin Outside \cup DriverPCs,
              s[1] \notin Outside \cup DriverPCs,
              Pausing(s) <=> Pausing(todo[t]),
              Pausing(s) /\ s[1] # "pauseWait" => Live = Yielded,
              s[1] = "startWait" => phase \notin {"marking", "awaitingFinalization"}, Moves, Zenon

\* The owner returns to what it was doing before, in the operation.
LEMMA InsideReturns ==
  ASSUME IInv, NEW t \in Thread, Return(t),
         UNCHANGED <<owner, irq, spaceVars, taskVars, waitVars>>,
         Now(t) \notin Outside \cup DriverPCs \cup {"release", "pause", "resume"},
         t \notin sleep,
         Now(t) = "stopping" => \A u \in Thread \ {t} : AtSafepoint(u),
         Now(t) = "pauseWait" => Live = Yielded
  PROVE  IInv'
<1> DEFINE s == Tail(todo[t])
<1>1. /\ Stack(todo[t]) /\ Now(t) = todo[t][1] /\ Now(t) \in Doing
      /\ Fits(Now(t), todo[t][2]) /\ Now(t) # "run"
  BY AnyThread, Inside
<1>2. /\ Stack(s) /\ s[1] = todo[t][2] /\ s = <<>> \o Tail(todo[t])
      /\ s[1] = "sweepWait" => s[2] # "resume"
  BY <1>1, Popped, Zenon
<1>3. /\ s[1] \notin Outside \cup DriverPCs
      /\ s[1] \in {"cards", "resume"} <=> Pausing(todo[t])
      /\ s[1] \notin {"pauseWait", "startWait"}
  BY <1>1, <1>2, ZenonT(20) DEF Fits, Doing, Outside, DriverPCs, Pausing
<1>4. Pausing(s) <=> Pausing(todo[t])
  BY <1>2, <1>3, Zenon DEF Pausing
<1>5. Pausing(s) => Live = Yielded
  <2>1. Pausing(todo[t]) /\ todo[t][1] # "pauseWait" => Live = Yielded
    BY Zenon DEF IInv, Threads, ThreadInv
  <2> QED BY <1>1, <1>4, <2>1
<1>6. Become(t, <<>>)
  BY DEF Return
<1> HIDE DEF s
<1> QED BY <1>2, <1>3, <1>4, <1>5, <1>6, InsideMoves, ZenonT(20)

\* Steps that may stand above y.
Chain(p, y) ==
  /\ p \in Seq(Doing) /\ p # <<>>
  /\ \A k \in 1 .. Len(p) - 1 : Fits(p[k], p[k + 1])
  /\ \A k \in 2 .. Len(p) - 1 : p[k] = "sweepWait" => p[k + 1] # "resume"
  /\ Fits(p[Len(p)], y)
  /\ Len(p) > 1 /\ p[Len(p)] = "sweepWait" => y # "resume"

\* A single step stands above what it fits (Become with one step).
LEMMA ChainOfOne ==
  ASSUME NEW x \in Doing, NEW y, Fits(x, y)
  PROVE  Chain(<<x>>, y) /\ <<x>>[1] = x
<1> DEFINE p == <<x>>
<1>1. p \in Seq(Doing) /\ p # <<>> /\ Len(p) = 1 /\ p[1] = x
  OBVIOUS
<1> HIDE DEF p
<1>2. Chain(p, y) /\ p[1] = x
  BY <1>1 DEF Chain
<1> QED BY <1>2 DEF p

\* The owner turns to steps p of the operation, outside a scavenge.
LEMMA InsideReplaces ==
  ASSUME IInv, NEW t \in Thread, NEW p, Become(t, p),
         UNCHANGED <<owner, irq, spaceVars, taskVars, waitVars>>,
         Now(t) \notin Outside \cup DriverPCs
                       \cup {"stopping", "pauseWait", "cards", "resume", "sweepWait"},
         t \notin sleep, Chain(p, todo[t][2]),
         p[1] \notin Outside \cup DriverPCs \cup {"pauseWait", "cards", "resume"},
         p[1] = "sweepWait" =>
           IF Len(p) = 1 THEN todo[t][2] # "resume" ELSE p[2] # "resume",
         p[1] = "startWait" => phase \notin {"marking", "awaitingFinalization"}
  PROVE  IInv'
<1> DEFINE s == p \o Tail(todo[t])
<1>1. Stack(todo[t]) /\ Now(t) = todo[t][1] /\ Now(t) # "run"
  BY AnyThread, Inside
<1>2. /\ Stack(s) /\ s[1] = p[1] /\ (Len(p) > 1 => s[2] = p[2])
      /\ Len(p) = 1 => s[2] = todo[t][2]
  <2>1. p \in Seq(Doing) /\ p # <<>> /\ Len(p) \in Nat
    BY DEF Chain
  <2>2. \A k \in 1 .. Len(p) - 1 :
          Fits(p[k], p[k + 1]) /\ (k > 1 /\ p[k] = "sweepWait" => p[k + 1] # "resume")
    BY <2>1 DEF Chain
  <2>3. /\ Fits(p[Len(p)], todo[t][2])
        /\ Len(p) > 1 /\ p[Len(p)] = "sweepWait" => todo[t][2] # "resume"
    BY DEF Chain
  <2> QED BY <1>1, <2>1, <2>2, <2>3, Replaced, Zenon
<1>3. ~Pausing(todo[t])
  BY <1>1 DEF Pausing
<1>4. ~Pausing(s)
  <2>1. Len(p) = 1 \/ Len(p) > 1
    <3>1. Len(p) \in Nat \ {0}
      BY EmptySeq, Zenon DEF Chain
    <3>2. \A n \in Nat \ {0} : n = 1 \/ n > 1
      OBVIOUS
    <3> QED BY <3>1, <3>2, Zenon
  <2> QED BY <1>2, <2>1, Zenon DEF Pausing
<1> HIDE DEF s
<1> QED BY <1>2, <1>3, <1>4, InsideMoves, ZenonT(20) DEF s

\* The other threads have stopped: the operation begins.
LEMMA SafepointThreadsInv ==
  ASSUME IInv, NEW t \in Thread, SafepointThreads(t)
  PROVE  IInv'
<1>1. t \notin sleep
  BY AnyThread DEF SafepointThreads, WaitPCs
<1> QED BY <1>1, InsideReturns DEF SafepointThreads, Outside, DriverPCs

\* What follows a scavenge in CollectNewSpaceGarbage and NotifyIdle.
LEMMA AfterScavengeInv ==
  ASSUME IInv, NEW t \in Thread, AfterScavenge(t)
  PROVE  IInv'
<1>1. Now(t) = "afterScavenge" /\ UNCHANGED <<owner, irq, spaceVars, taskVars, waitVars>>
  BY DEF AfterScavenge
<1>2. t \notin sleep
  BY <1>1, AnyThread DEF WaitPCs
<1>3. todo[t][2] = "release"
  BY <1>1, AnyThread DEF Fits
<1>4. PICK p \in {<<>>, <<"collect">>, <<"finalize">>, <<"start">>} : Become(t, p)
  BY DEF AfterScavenge, CallsFor
<1>5. CASE p = <<>>
  BY <1>1, <1>2, <1>4, <1>5, InsideReturns DEF Return, Outside, DriverPCs
<1>6. CASE p # <<>>
  <2>0. PICK x \in {"collect", "finalize", "start"} : p = <<x>>
    BY <1>4, <1>6
  <2>1. Chain(p, "release") /\ p[1] \in {"collect", "finalize", "start"}
    BY <2>0 DEF Chain, Fits, Doing, Outside
  <2> QED BY <1>1, <1>2, <1>3, <1>4, <2>1, InsideReplaces DEF Outside, DriverPCs
<1> QED BY <1>5, <1>6

\* The attempts of AllocateOld after its first collection.
LEMMA RetryAllocationInv ==
  ASSUME IInv, NEW t \in Thread, RetryAllocation(t)
  PROVE  IInv'
<1>1. Now(t) = "retry" /\ UNCHANGED <<owner, irq, spaceVars, taskVars, waitVars>>
  BY DEF RetryAllocation
<1>2. t \notin sleep
  BY <1>1, AnyThread DEF WaitPCs
<1>3. todo[t][2] = "release"
  BY <1>1, AnyThread DEF Fits
<1>4. PICK p \in {<<>>, <<"sweepWait">>, <<"sweepWait", "collect", "sweepWait">>} :
        Become(t, p)
  BY DEF RetryAllocation
<1>5. CASE p = <<>>
  BY ZenonT(20), <1>1, <1>2, <1>4, <1>5, InsideReturns DEF Return, Outside, DriverPCs
<1>6. CASE p # <<>>
  <2>1. Chain(p, "release") /\ p[1] = "sweepWait" /\ (Len(p) # 1 => p[2] # "resume")
    BY <1>4, <1>6 DEF Chain, Fits, Doing, Outside
  <2> QED BY <1>1, <1>2, <1>3, <1>4, <2>1, InsideReplaces DEF Outside, DriverPCs
<1> QED BY <1>5, <1>6

\* CollectOldSpaceGarbage has lost the race to finalize, or collects.
LEMMA FinalizeInv ==
  ASSUME IInv, NEW t \in Thread, Finalize(t)
  PROVE  IInv'
<1>1. Now(t) = "finalize" /\ UNCHANGED <<owner, irq, spaceVars, taskVars, waitVars>>
  BY DEF Finalize
<1>2. t \notin sleep
  BY <1>1, AnyThread DEF WaitPCs
<1>3. todo[t][2] \in {"release", "iterWait"}
  BY <1>1, AnyThread DEF Fits
<1>4. CASE Become(t, <<>>)
  BY <1>1, <1>2, <1>4, InsideReturns DEF Return, Outside, DriverPCs
<1>5. CASE Become(t, <<"collect">>)
  <2>1. Chain(<<"collect">>, todo[t][2])
    BY <1>3 DEF Chain, Fits, Doing, Outside
  <2> QED BY ZenonT(20), <1>1, <1>2, <1>5, <2>1, InsideReplaces DEF Outside, DriverPCs
<1> QED BY <1>4, <1>5 DEF Finalize

\* PageSpace::CollectGarbage finds marking under way, or waits for pending tasks.
LEMMA StartInv ==
  ASSUME IInv, NEW t \in Thread, Start(t)
  PROVE  IInv'
<1>1. Now(t) = "start" /\ UNCHANGED <<owner, irq, spaceVars, taskVars, waitVars>>
  BY DEF Start
<1>2. t \notin sleep
  BY ZenonT(20), <1>1, AnyThread DEF WaitPCs
<1>3. todo[t][2] = "release"
  BY <1>1, AnyThread DEF Fits
<1>4. CASE Become(t, <<>>)
  BY <1>1, <1>2, <1>4, InsideReturns DEF Return, Outside, DriverPCs
<1>5. CASE phase \notin {"marking", "awaitingFinalization"} /\ Become(t, <<"startWait">>)
  <2>1. Chain(<<"startWait">>, todo[t][2])
    BY <1>3 DEF Chain, Fits, Doing, Outside
  <2> QED BY ZenonT(20), <1>1, <1>2, <1>5, <2>1, InsideReplaces DEF Outside, DriverPCs
<1> QED BY <1>4, <1>5 DEF Start

\* GCIncrementalCompactor::Abort pauses the marking if there is any.
LEMMA AbortInv ==
  ASSUME IInv, NEW t \in Thread, Abort(t)
  PROVE  IInv'
<1>1. Now(t) = "abort" /\ UNCHANGED <<owner, irq, spaceVars, taskVars, waitVars>>
  BY DEF Abort
<1>2. t \notin sleep
  BY ZenonT(20), <1>1, AnyThread DEF WaitPCs
<1>3. todo[t][2] = "pause"
  BY <1>1, AnyThread DEF Fits
<1>4. CASE Become(t, <<>>)
  BY <1>1, <1>2, <1>4, InsideReturns DEF Return, Outside, DriverPCs
<1>5. CASE Become(t, <<"pause", "resume">>)
  <2>1. Chain(<<"pause", "resume">>, todo[t][2])
    BY <1>3 DEF Chain, Fits, Doing, Outside
  <2> QED BY <1>1, <1>2, <1>5, <2>1, InsideReplaces DEF Outside, DriverPCs
<1> QED BY <1>4, <1>5 DEF Abort

\* Sets of marker tasks are finite.
LEMMA TasksFinite ==
  /\ IsFiniteSet(Live) /\ Cardinality(Live) \in Nat
  /\ IsFiniteSet(Live \ Yielded) /\ Cardinality(Live \ Yielded) \in Nat
  /\ Cardinality(Live) = 0 <=> Live = {}
  /\ Cardinality(Live \ Yielded) = 0 <=> Live = Yielded
<1>1. Live \subseteq MarkerTask /\ Live \ Yielded \subseteq MarkerTask /\ Yielded \subseteq Live
  BY DEF Live, Yielded
<1>2. IsFiniteSet(Live) /\ IsFiniteSet(Live \ Yielded)
  BY <1>1, FS_Subset, OldSpaceConstants
<1>3. Cardinality(Live) \in Nat /\ Cardinality(Live \ Yielded) \in Nat
  BY <1>2, FS_CardinalityType
<1>4. Cardinality(Live) = 0 <=> Live = {}
  BY <1>2, FS_EmptySet
<1>5. Cardinality(Live \ Yielded) = 0 <=> Live \ Yielded = {}
  BY <1>2, FS_EmptySet
<1>6. Live \ Yielded = {} <=> Live = Yielded
  BY <1>1
<1> QED BY <1>2, <1>3, <1>4, <1>5, <1>6

\* A scavenge waits until every marker task has yielded.
LEMMA PauseWaitInv ==
  ASSUME IInv, NEW t \in Thread, PauseWait(t)
  PROVE  IInv'
<1>1. CASE active # 0 /\ Wait(t)
  BY <1>1, WaitInv DEF PauseWait
<1>2. CASE /\ t \notin sleep /\ active = 0 /\ Become(t, <<>>)
           /\ UNCHANGED <<owner, irq, spaceVars, taskVars, waitVars>>
  <2>1. Live = Yielded
    BY <1>2, TasksFinite DEF IInv, Counting
  <2> QED BY <1>2, <2>1, InsideReturns DEF PauseWait, Return, Outside, DriverPCs
<1> QED BY <1>1, <1>2 DEF PauseWait, WaitWhile

\* A scavenge waits for the sweeping of large pages before it visits cards.
LEMMA VisitRememberedCardsInv ==
  ASSUME IInv, NEW t \in Thread, VisitRememberedCards(t)
  PROVE  IInv'
<1>1. Now(t) = "cards"
  BY DEF VisitRememberedCards
<1>2. todo[t][2] = "resume" /\ Stack(todo[t]) /\ todo[t][1] = "cards"
  BY <1>1, AnyThread DEF Fits
<1>3. CASE phase = "sweepingLarge" /\ Wait(t)
  BY <1>1, <1>3, WaitInv
<1>4. CASE /\ t \notin sleep /\ Become(t, <<>>)
           /\ UNCHANGED <<owner, irq, spaceVars, taskVars, waitVars>>
  BY <1>1, <1>4, InsideReturns DEF Return, Outside, DriverPCs
<1>5. CASE /\ t \notin sleep /\ Become(t, <<"sweepWait">>)
           /\ UNCHANGED <<owner, irq, spaceVars, taskVars, waitVars>>
  <2> DEFINE p == <<"sweepWait">>
             s == p \o Tail(todo[t])
  <2>1. p \in Seq(Doing) /\ p # <<>> /\ Len(p) = 1 /\ p[1] = "sweepWait"
    BY DEF Doing
  <2>2. Fits("sweepWait", "resume")
    BY DEF Fits, Outside
  <2>3. Stack(s) /\ s[1] = "sweepWait" /\ s[2] = "resume"
    <3>1. \A k \in 1 .. Len(p) - 1 :
            Fits(p[k], p[k + 1]) /\ (k > 1 /\ p[k] = "sweepWait" => p[k + 1] # "resume")
      BY <2>1
    <3>2. Fits(p[Len(p)], todo[t][2]) /\ ~(Len(p) > 1)
      BY <1>2, <2>1, <2>2
    <3> HIDE DEF p
    <3> QED BY <1>2, <2>1, <3>1, <3>2, Replaced, Zenon
  <2>4. Pausing(s) /\ Pausing(todo[t]) /\ s[1] \notin Outside \cup DriverPCs
    BY <1>2, <2>3, Zenon DEF Pausing, Outside, DriverPCs
  <2>5. Live = Yielded
    BY <1>2, <2>4, Zenon DEF IInv, Threads, ThreadInv
  <2> HIDE DEF s
  <2> QED BY <1>1, <1>5, <2>3, <2>4, <2>5, InsideMoves, Zenon DEF s, Outside, DriverPCs
<1> QED BY <1>3, <1>4, <1>5 DEF VisitRememberedCards, WaitWhile

\* An operation waits for the sweeper.
LEMMA WaitForSweeperTasksAtSafepointInv ==
  ASSUME IInv, NEW t \in Thread, WaitForSweeperTasksAtSafepoint(t)
  PROVE  IInv'
<1>1. CASE Sweeping /\ Wait(t)
  BY <1>1, WaitInv DEF WaitForSweeperTasksAtSafepoint
<1>2. CASE /\ t \notin sleep /\ Become(t, <<>>)
           /\ UNCHANGED <<owner, irq, spaceVars, taskVars, waitVars>>
  BY <1>2, InsideReturns DEF WaitForSweeperTasksAtSafepoint, Return, Outside, DriverPCs
<1> QED BY <1>1, <1>2 DEF WaitForSweeperTasksAtSafepoint, WaitWhile

\* HeapIterationScope finalizes the marking it has helped to end.
LEMMA IterateAfterAssistInv ==
  ASSUME IInv, NEW t \in Thread, IterateAfterAssist(t)
  PROVE  IInv'
<1>1. Now(t) = "iterAssist" /\ UNCHANGED <<owner, irq, spaceVars, taskVars, waitVars>>
  BY DEF IterateAfterAssist
<1>2. t \notin sleep
  BY ZenonT(20), <1>1, AnyThread DEF WaitPCs
<1>3. todo[t][2] = "release"
  BY <1>1, AnyThread DEF Fits
<1>4. CASE Become(t, <<"finalize", "iterWait">>)
  <2>1. Chain(<<"finalize", "iterWait">>, todo[t][2])
    BY <1>3 DEF Chain, Fits, Doing, Outside
  <2> QED BY ZenonT(20), <1>1, <1>2, <1>4, <2>1, InsideReplaces DEF Outside, DriverPCs
<1>5. CASE Become(t, <<"iterWait">>)
  <2>1. Chain(<<"iterWait">>, todo[t][2])
    BY <1>3 DEF Chain, Fits, Doing, Outside
  <2> QED BY ZenonT(20), <1>1, <1>2, <1>5, <2>1, InsideReplaces DEF Outside, DriverPCs
<1> QED BY <1>4, <1>5 DEF IterateAfterAssist

\* HeapIterationScope waits for the tasks.
LEMMA IterateWaitInv ==
  ASSUME IInv, NEW t \in Thread, IterateWait(t)
  PROVE  IInv'
<1>1. Now(t) = "iterWait"
  BY DEF IterateWait
<1>2. todo[t][2] = "release"
  BY <1>1, AnyThread DEF Fits
<1>3. CASE tasks > 0 /\ Wait(t)
  BY <1>1, <1>3, WaitInv
<1>4. CASE /\ t \notin sleep /\ Become(t, <<"iterate">>)
           /\ UNCHANGED <<owner, irq, spaceVars, taskVars, waitVars>>
  <2>1. Chain(<<"iterate">>, todo[t][2])
    BY <1>2 DEF Chain, Fits, Doing, Outside
  <2> QED BY ZenonT(20), <1>1, <1>4, <2>1, InsideReplaces DEF Outside, DriverPCs
<1> QED BY <1>3, <1>4 DEF IterateWait, WaitWhile

-----------------------------------------------------------------------------
(* Steps outside an operation, into one and out of it. *)

\* A thread goes on outside an operation, while no other thread is stopped.
LEMMA OutsideMoves ==
  ASSUME IInv, NEW t \in Thread, NEW p, Become(t, p), UNCHANGED owner,
         irq' \subseteq Thread, UNCHANGED <<spaceVars, taskVars, shut>>,
         Now(t) \in Outside, t \notin sleep, shut = "no",
         owner # NoThread => Now(owner) = "stopping",
         NEW s, s = p \o Tail(todo[t]), Stack(s), s[1] \in Outside, Sleeps(t, s)
  PROVE  IInv'
<1>1. owner # t /\ Stack(todo[t]) /\ Now(t) = todo[t][1]
  BY AnyThread
<1>2. todo' = [todo EXCEPT ![t] = s]
  BY DEF Become
<1>3. owner' \in Thread \cup {NoThread} /\ owner' = owner /\ owner' # t
  BY <1>1 DEF IInv, Types
<1>4. ~Pausing(s) /\ ~Pausing(todo[t]) /\ s[1] \notin DriverPCs /\ Now(t) \notin DriverPCs
  BY <1>1, OutsideSays, Zenon
<1>5. s[1] # "startWait"
  BY Zenon DEF Outside
<1> QED BY <1>1, <1>2, <1>3, <1>4, <1>5, Moves, ZenonT(30)

\* Steps in order.
Linked(p) ==
  /\ p \in Seq(Doing) /\ p # <<>>
  /\ \A k \in 1 .. Len(p) - 1 : Fits(p[k], p[k + 1]) /\ p[k] # "sweepWait"

\* Steps that follow each other.
LEMMA Joined ==
  ASSUME NEW p, NEW q, Linked(p), Linked(q), Fits(p[Len(p)], q[1]), p[Len(p)] # "sweepWait"
  PROVE  /\ Linked(p \o q) /\ (p \o q)[1] = p[1]
         /\ (p \o q)[Len(p \o q)] = q[Len(q)]
<1>1. /\ p \in Seq(Doing) /\ q \in Seq(Doing)
      /\ Len(p) \in Nat /\ Len(p) >= 1 /\ Len(q) \in Nat /\ Len(q) >= 1
  BY DEF Linked
<1> DEFINE r == p \o q
<1>2. /\ r \in Seq(Doing) /\ Len(r) = Len(p) + Len(q) /\ r # <<>>
      /\ \A k \in 1 .. Len(p) : r[k] = p[k]
      /\ \A k \in 1 .. Len(q) : r[Len(p) + k] = q[k]
  BY <1>1
<1> HIDE DEF r
<1>3. ASSUME NEW k \in 1 .. Len(r) - 1 PROVE Fits(r[k], r[k + 1]) /\ r[k] # "sweepWait"
  <2>1. CASE k \in 1 .. Len(p) - 1
    <3>1. r[k] = p[k] /\ r[k + 1] = p[k + 1]
      BY <1>1, <1>2, <2>1
    <3> QED BY <2>1, <3>1 DEF Linked
  <2>2. CASE k = Len(p)
    <3>1. r[k] = p[Len(p)] /\ r[k + 1] = q[1]
      BY <1>1, <1>2, <2>2
    <3> QED BY <3>1
  <2>3. CASE k > Len(p)
    <3>1. PICK j \in 1 .. Len(q) - 1 : k = Len(p) + j
      <4>1. k - Len(p) \in 1 .. Len(q) - 1 /\ k = Len(p) + (k - Len(p))
        BY <1>1, <1>2, <2>3
      <4> QED BY <4>1, ZenonT(20)
    <3>2. r[k] = q[j] /\ r[k + 1] = q[j + 1]
      BY <1>1, <1>2, <3>1
    <3> QED BY <3>1, <3>2 DEF Linked
  <2> QED BY <1>1, <1>2, <2>1, <2>2, <2>3
<1>4. Linked(r) /\ r[1] = p[1] /\ r[Len(r)] = q[Len(q)]
  <2>1. Linked(r)
    BY <1>2, <1>3 DEF Linked
  <2>2. r[1] = p[1] /\ r[Len(r)] = q[Len(q)]
    BY <1>1, <1>2
  <2> QED BY <2>1, <2>2
<1> QED BY <1>4 DEF r

\* The steps of an operation, and what follows them.
LEMMA OperationFits ==
  ASSUME NEW calls, Linked(calls), Fits("request", calls[1]),
         Fits(calls[Len(calls)], "release"), calls[Len(calls)] # "sweepWait",
         NEW r, Linked(r), Fits("release", r[1])
  PROVE  /\ LET p == Operation(calls)
            IN  Linked(p) /\ p[1] = "request" /\ p[Len(p)] = "release"
         /\ LET p == Operation(calls) \o r
            IN  Linked(p) /\ p[1] = "request" /\ p[Len(p)] = r[Len(r)]
<1>1. \A x \in Doing : Linked(<<x>>) /\ Len(<<x>>) = 1 /\ <<x>>[1] = x
  BY DEF Linked
<1>2. "request" \in Doing /\ "release" \in Doing
  BY DEF Doing
<1> DEFINE a == <<"request">> \o calls
           b == a \o <<"release">>
<1>3. Linked(a) /\ a[1] = "request" /\ a[Len(a)] = calls[Len(calls)]
  <2> DEFINE e == <<"request">>
  <2>1. Linked(e) /\ e[1] = "request" /\ e[Len(e)] = "request"
    BY <1>1, <1>2
  <2> HIDE DEF e
  <2>2. Fits(e[Len(e)], calls[1]) /\ e[Len(e)] # "sweepWait"
    BY <2>1
  <2>3. /\ Linked(e \o calls) /\ (e \o calls)[1] = "request"
        /\ (e \o calls)[Len(e \o calls)] = calls[Len(calls)]
    BY <2>1, <2>2, Joined, ZenonT(20)
  <2> QED BY <2>3 DEF e
<1> HIDE DEF a
<1>4. Linked(b) /\ b[1] = "request" /\ b[Len(b)] = "release"
  <2> DEFINE e == <<"release">>
  <2>1. Linked(e) /\ e[1] = "release" /\ e[Len(e)] = "release"
    BY <1>1, <1>2
  <2> HIDE DEF e
  <2>2. Linked(a \o e) /\ (a \o e)[1] = "request" /\ (a \o e)[Len(a \o e)] = "release"
    BY <1>3, <2>1, Joined, Zenon
  <2> QED BY <2>2 DEF e
<1>5. b = Operation(calls)
  <2>1. calls \in Seq(Doing) /\ <<"request">> \in Seq(Doing) /\ <<"release">> \in Seq(Doing)
    BY <1>1, <1>2 DEF Linked
  <2> QED BY <2>1, ConcatAssociative DEF a, Operation
<1> HIDE DEF b
<1>6. Linked(b \o r) /\ (b \o r)[1] = "request" /\ (b \o r)[Len(b \o r)] = r[Len(r)]
  BY <1>4, Joined, ZenonT(20)
<1> QED BY <1>4, <1>5, <1>6

\* The calls that threads make in operations.
LEMMA CallsFit ==
  ASSUME NEW calls \in Operations \cup {Evacuate, <<"finalize">>, <<"start">>}
  PROVE  /\ Linked(calls) /\ Fits("request", calls[1])
         /\ Fits(calls[Len(calls)], "release") /\ calls[Len(calls)] # "sweepWait"
<1>1. /\ Linked(Scavenge) /\ Scavenge[1] = "pause" /\ Scavenge[Len(Scavenge)] = "resume"
  BY DEF Scavenge, Linked, Fits, Doing, Outside
<1>2. \A x \in Doing : Linked(<<x>>) /\ Len(<<x>>) = 1 /\ <<x>>[1] = x
  BY DEF Linked
<1>3. \A x \in {"afterScavenge", "iterate", "finalize", "start"} :
        x \in Doing /\ Fits("request", x) /\ Fits(x, "release")
  BY DEF Doing, Fits, Outside
<1>4. CASE calls \in {<<"afterScavenge">>, <<"iterate">>, <<"finalize">>, <<"start">>}
  <2>1. PICK x \in {"afterScavenge", "iterate", "finalize", "start"} : calls = <<x>>
    BY <1>4
  <2>2. x # "sweepWait"
    OBVIOUS
  <2> QED BY <1>2, <1>3, <2>1, <2>2
<1>5. CASE calls = <<"collect", "retry">>
  BY <1>5 DEF Linked, Fits, Doing, Outside
<1>6. CASE calls = Scavenge \o <<"afterScavenge">>
  <2>1. Fits("resume", "afterScavenge") /\ Fits("request", "pause")
    BY DEF Fits, Outside
  <2> QED BY <1>1, <1>2, <1>3, <1>6, <2>1, Joined
<1>7. CASE calls = Evacuate
  <2>1. /\ Fits("abort", "pause") /\ Fits("request", "abort") /\ Fits("resume", "release")
        /\ "abort" \in Doing
    BY DEF Fits, Doing, Outside
  <2> DEFINE e == <<"abort">>
  <2>2. Linked(e) /\ e[1] = "abort" /\ e[Len(e)] = "abort"
    BY <1>2, <2>1
  <2>3. calls = e \o Scavenge
    BY <1>7 DEF Evacuate
  <2> HIDE DEF e
  <2>4. Linked(calls) /\ calls[1] = "abort" /\ calls[Len(calls)] = "resume"
    BY <1>1, <2>1, <2>2, <2>3, Joined, ZenonT(20)
  <2> QED BY <2>1, <2>4
<1> QED BY <1>4, <1>5, <1>6, <1>7 DEF Operations

\* A running thread turns to steps p.
LEMMA RunMoves ==
  ASSUME IInv, NEW t \in Thread, MayRun(t), NEW p, Become(t, p), UNCHANGED owner,
         irq' \subseteq Thread, UNCHANGED <<spaceVars, taskVars, waitVars>>,
         Linked(p), p[Len(p)] = "run", p[1] \in Outside
  PROVE  IInv'
<1> DEFINE s == p \o Tail(todo[t])
<1>1. Stack(todo[t]) /\ Now(t) = "run" /\ todo[t][1] = "run" /\ t \notin sleep
  BY AnyThread DEF MayRun, WaitPCs
<1>2. Stack(s) /\ s[1] = p[1]
  <2>1. \A k \in 1 .. Len(p) - 1 :
          Fits(p[k], p[k + 1]) /\ (k > 1 /\ p[k] = "sweepWait" => p[k + 1] # "resume")
    BY Zenon DEF Linked
  <2>2. p \in Seq(Doing) /\ p # <<>> /\ p[Len(p)] = "run"
    BY DEF Linked
  <2> QED BY <1>1, <2>1, <2>2, Replaced, Zenon
<1> HIDE DEF s
<1>3. shut = "no" /\ (owner # NoThread => Now(owner) = "stopping") /\ Now(t) \in Outside
  BY <1>1 DEF MayRun, Outside
<1>4. UNCHANGED <<spaceVars, taskVars, shut>> /\ Sleeps(t, s)
  BY DEF waitVars, Sleeps
<1> QED BY <1>1, <1>2, <1>3, <1>4, OutsideMoves, Zenon DEF s

\* A running thread asks for a collection, a scavenge or an iteration.
LEMMA CollectGarbageInv ==
  ASSUME IInv, NEW t \in Thread, CollectGarbage(t) \/ CheckConcurrentMarking(t)
  PROVE  IInv'
<1>1. /\ MayRun(t) /\ UNCHANGED owner /\ UNCHANGED irq
      /\ UNCHANGED <<spaceVars, taskVars, waitVars>>
  BY Zenon DEF CollectGarbage, CheckConcurrentMarking
<1>2. PICK calls \in Operations \cup {<<"finalize">>, <<"start">>} :
        Become(t, Operation(calls) \o <<"run">>)
  BY DEF CollectGarbage, CheckConcurrentMarking, CallsFor
<1> DEFINE r == <<"run">>
           p == Operation(calls) \o r
<1>3. Linked(r) /\ r[1] = "run" /\ r[Len(r)] = "run" /\ Fits("release", "run")
  BY DEF Linked, Doing, Fits, Outside
<1>4. Become(t, p)
  BY <1>2
<1> HIDE DEF r
<1>5. Linked(p) /\ p[1] = "request" /\ p[Len(p)] = "run"
  BY <1>3, CallsFit, OperationFits, ZenonT(20)
<1> HIDE DEF p
<1>6. irq' \subseteq Thread /\ "request" \in Outside
  BY <1>1 DEF IInv, Types, Outside
<1> QED BY <1>1, <1>4, <1>5, <1>6, RunMoves

\* A running thread handles kVMInterrupt.
LEMMA HandleInterruptsInv ==
  ASSUME IInv, NEW t \in Thread, HandleInterrupts(t)
  PROVE  IInv'
<1>1. /\ MayRun(t) /\ UNCHANGED owner /\ irq' \subseteq Thread
      /\ UNCHANGED <<spaceVars, taskVars, waitVars>>
  BY DEF HandleInterrupts, IInv, Types
<1> DEFINE r == <<"finalizeCheck", "run">>
           p == Operation(Evacuate) \o r
<1>2. /\ Linked(r) /\ r[1] = "finalizeCheck" /\ r[Len(r)] = "run"
      /\ Fits("release", "finalizeCheck") /\ <<>> \o r = r
      /\ "finalizeCheck" \in Outside /\ "request" \in Outside
  BY DEF Linked, Doing, Fits, Outside
<1>3. Become(t, <<>> \o r) \/ Become(t, p)
  BY Zenon DEF HandleInterrupts
<1> HIDE DEF r
<1>4. CASE Become(t, <<>> \o r)
  BY <1>1, <1>2, <1>4, RunMoves
<1>5. CASE Become(t, p)
  <2>1. Linked(p) /\ p[1] = "request" /\ p[Len(p)] = "run"
    BY <1>2, CallsFit, OperationFits, ZenonT(20)
  <2> HIDE DEF p
  <2> QED BY <1>1, <1>2, <1>5, <2>1, RunMoves
<1> QED BY <1>3, <1>4, <1>5

\* A running thread starts to wait for the sweeper or for the marker.
LEMMA WaitForTasksInv ==
  ASSUME IInv, NEW t \in Thread, WaitForTasks(t)
  PROVE  IInv'
<1>1. /\ MayRun(t) /\ UNCHANGED owner /\ UNCHANGED irq
      /\ UNCHANGED <<spaceVars, taskVars, waitVars>>
  BY DEF WaitForTasks
<1>2. PICK x \in {"sweepCheck", "markCheck"} : Become(t, <<x, "run">>)
  BY DEF WaitForTasks
<1> DEFINE p == <<x, "run">>
<1>3. Linked(p) /\ p[1] \in Outside /\ p[Len(p)] = "run" /\ Become(t, p)
  BY <1>2 DEF Linked, Doing, Fits, Outside
<1> HIDE DEF p
<1>4. irq' \subseteq Thread
  BY <1>1 DEF IInv, Types
<1> QED BY <1>1, <1>3, <1>4, RunMoves

\* Only irq changes.
LEMMA StoreBufferOverflowsInv ==
  ASSUME IInv, NEW t \in Thread, StoreBufferOverflows(t)
  PROVE  IInv'
<1>0. Types /\ Threads /\ Counting /\ Phases /\ Holding /\ NoLostWakeup
  BY DEF IInv
<1>a. /\ UNCHANGED <<todo, owner, phase, tasks, markers, active, paused, marker>>
      /\ UNCHANGED <<slices, mt, sw, sleep, shut>> /\ irq' = irq \cup {t}
  BY DEF StoreBufferOverflows, spaceVars, counters, taskVars, waitVars
<1>1. Types'
  BY ZenonT(20), <1>0, <1>a DEF Types, SpaceTypes
<1>2. Threads'
  BY <1>0, <1>a DEF Threads, ThreadInv, Pausing, Live, Yielded
<1>3. Counting' /\ Phases'
  BY <1>0, <1>a DEF Counting, Phases, Driving, Now, Live, Yielded
<1>4. Holding'
  BY <1>0, <1>a DEF Holding, HoldsRoots, Rooting, Pausing, AtSafepoint, Now, Live
<1>5. NoLostWakeup'
  BY <1>0, <1>a DEF NoLostWakeup, Now, Sweeping
<1> QED BY <1>1, <1>2, <1>3, <1>4, <1>5 DEF IInv

\* A thread that checks the phase outside an operation has stopped nobody, and
\* nobody has stopped it.
LEMMA Checking ==
  ASSUME IInv, NEW t \in Thread, Now(t) \in {"sweepCheck", "markCheck", "finalizeCheck"}
  PROVE  /\ t \notin sleep /\ shut = "no" /\ Now(t) \in Outside /\ owner # t
         /\ owner # NoThread => Now(owner) = "stopping"
         /\ Stack(todo[t]) /\ todo[t][1] # "run" /\ todo[t][2] = "run"
<1>1. /\ t \notin sleep /\ shut = "no" /\ Now(t) \in Outside /\ owner # t
      /\ Stack(todo[t]) /\ todo[t][1] # "run"
  BY AnyThread DEF WaitPCs, Outside
<1>2. todo[t][2] = "run"
  BY AnyThread DEF Fits, Outside
<1>3. owner # NoThread => Now(owner) = "stopping"
  <2>1. owner # NoThread /\ Now(owner) # "stopping" => \A u \in Thread \ {owner} : AtSafepoint(u)
    BY Zenon DEF IInv, Holding
  <2> QED BY <1>1, <2>1 DEF AtSafepoint
<1> QED BY <1>1, <1>2, <1>3

\* What it does then.
LEMMA CheckMoves ==
  ASSUME IInv, NEW t \in Thread, Now(t) \in {"sweepCheck", "markCheck", "finalizeCheck"},
         UNCHANGED <<owner, irq, spaceVars, taskVars, shut>>,
         NEW p, Become(t, p), Sleeps(t, p), p = <<>> => UNCHANGED sleep,
         p = <<>> \/ (Linked(p) /\ p[1] \in Outside /\ Fits(p[Len(p)], "run"))
  PROVE  IInv'
<1> DEFINE s == p \o Tail(todo[t])
<1>1. UNCHANGED owner /\ irq' \subseteq Thread /\ UNCHANGED <<spaceVars, taskVars, shut>>
  BY DEF IInv, Types
<1>2. /\ t \notin sleep /\ shut = "no" /\ Now(t) \in Outside
      /\ owner # NoThread => Now(owner) = "stopping"
      /\ Stack(todo[t]) /\ todo[t][1] # "run" /\ todo[t][2] = "run"
  BY Checking
<1>3. Stack(s) /\ s[1] \in Outside /\ (p # <<>> => s[1] = p[1])
  <2>1. CASE p = <<>>
    <3>1. Stack(Tail(todo[t])) /\ Tail(todo[t])[1] = "run" /\ Tail(todo[t]) = <<>> \o Tail(todo[t])
      BY <1>2, Popped, Zenon
    <3> QED BY <2>1, <3>1, Zenon DEF Outside
  <2>2. CASE Linked(p) /\ p[1] \in Outside /\ Fits(p[Len(p)], "run")
    <3>1. \A k \in 1 .. Len(p) - 1 :
            Fits(p[k], p[k + 1]) /\ (k > 1 /\ p[k] = "sweepWait" => p[k + 1] # "resume")
      BY <2>2, Zenon DEF Linked
    <3>2. p \in Seq(Doing) /\ p # <<>>
      BY <2>2 DEF Linked
    <3>3. "run" # "resume"
      OBVIOUS
    <3> QED BY <1>2, <2>2, <3>1, <3>2, <3>3, Replaced, Zenon
  <2> QED BY <2>1, <2>2, Zenon
<1>4. Sleeps(t, s)
  BY <1>3 DEF Sleeps, SleepsFor
<1> HIDE DEF s
<1> QED BY <1>1, <1>2, <1>3, <1>4, OutsideMoves, ZenonT(30) DEF s

\* CheckFinalizeMarking asks for the finalization of marking that has ended.
LEMMA CheckFinalizeMarkingInv ==
  ASSUME IInv, NEW t \in Thread, CheckFinalizeMarking(t)
  PROVE  IInv'
<1>1. /\ Now(t) = "finalizeCheck" /\ UNCHANGED <<owner, irq, spaceVars, taskVars, shut>>
      /\ UNCHANGED sleep
  BY DEF CheckFinalizeMarking, waitVars
<1>2. Become(t, <<>>) \/ Become(t, Operation(<<"finalize">>))
  BY DEF CheckFinalizeMarking, CallsFor
<1>3. CASE Become(t, <<>>)
  BY <1>1, <1>3, CheckMoves DEF Sleeps
<1>4. CASE Become(t, Operation(<<"finalize">>))
  <2> DEFINE p == Operation(<<"finalize">>)
             r == <<"run">>
  <2>1. /\ Linked(r) /\ r[1] = "run" /\ Fits("release", "run") /\ "request" \in Outside
    BY DEF Linked, Fits, Doing, Outside
  <2> HIDE DEF r
  <2>2. Linked(p) /\ p[1] \in Outside /\ Fits(p[Len(p)], "run")
    BY <2>1, CallsFit, OperationFits
  <2>3. Sleeps(t, p) /\ Become(t, p)
    BY <1>1, <1>4 DEF Sleeps
  <2> HIDE DEF p
  <2> QED BY <1>1, <2>2, <2>3, CheckMoves
<1> QED BY <1>2, <1>3, <1>4

\* WaitForSweeperTasks sleeps at a safepoint, or returns.
LEMMA WaitForSweeperTasksInv ==
  ASSUME IInv, NEW t \in Thread, WaitForSweeperTasks(t)
  PROVE  IInv'
<1>1. Now(t) = "sweepCheck" /\ UNCHANGED <<owner, irq, spaceVars, taskVars, shut>>
  BY DEF WaitForSweeperTasks
<1>2. CASE Become(t, <<>>) /\ UNCHANGED sleep
  BY <1>1, <1>2, CheckMoves DEF Sleeps
<1>3. CASE Sweeping /\ Become(t, <<"sweepAsleep">>) /\ sleep' = sleep \cup {t}
  <2> DEFINE p == <<"sweepAsleep">>
  <2>1. /\ Linked(p) /\ p[1] \in Outside /\ Fits(p[Len(p)], "run")
        /\ p # <<>> /\ p[1] = "sweepAsleep"
    BY DEF Linked, Fits, Doing, Outside
  <2>2. Sleeps(t, p) /\ Become(t, p)
    BY <1>3, <2>1, Zenon DEF Sleeps, SleepsFor
  <2> HIDE DEF p
  <2> QED BY <1>1, <2>1, <2>2, CheckMoves
<1> QED BY <1>2, <1>3 DEF WaitForSweeperTasks, Return

\* WaitForMarkerTasks sleeps at a safepoint, finalizes, or returns.
LEMMA WaitForMarkerTasksInv ==
  ASSUME IInv, NEW t \in Thread, WaitForMarkerTasks(t)
  PROVE  IInv'
<1>1. Now(t) = "markCheck" /\ UNCHANGED <<owner, irq, spaceVars, taskVars, shut>>
  BY DEF WaitForMarkerTasks
<1>2. CASE Become(t, <<>>) /\ UNCHANGED sleep
  BY <1>1, <1>2, CheckMoves DEF Sleeps
<1>3. CASE phase = "marking" /\ Become(t, <<"markAsleep">>) /\ sleep' = sleep \cup {t}
  <2> DEFINE p == <<"markAsleep">>
  <2>1. /\ Linked(p) /\ p[1] \in Outside /\ Fits(p[Len(p)], "run")
        /\ p # <<>> /\ p[1] = "markAsleep"
    BY DEF Linked, Fits, Doing, Outside
  <2>2. Sleeps(t, p) /\ Become(t, p)
    BY <1>3, <2>1, ZenonT(30) DEF Sleeps, SleepsFor
  <2> HIDE DEF p
  <2> QED BY <1>1, <2>1, <2>2, CheckMoves
<1>4. CASE Become(t, Operation(<<"finalize">>) \o <<"markCheck">>) /\ UNCHANGED sleep
  <2> DEFINE r == <<"markCheck">>
             p == Operation(<<"finalize">>) \o r
  <2>1. /\ Linked(r) /\ r[1] = "markCheck" /\ r[Len(r)] = "markCheck"
        /\ Fits("release", "markCheck") /\ Fits("markCheck", "run") /\ "request" \in Outside
    BY DEF Linked, Fits, Doing, Outside
  <2>2. Sleeps(t, p) /\ Become(t, p)
    BY <1>4 DEF Sleeps
  <2> HIDE DEF r
  <2>3. Linked(p) /\ p[1] = "request" /\ p[Len(p)] = "markCheck"
    BY <2>1, CallsFit, OperationFits, ZenonT(20)
  <2> HIDE DEF p
  <2> QED BY <1>1, <1>4, <2>1, <2>2, <2>3, CheckMoves
<1> QED BY <1>2, <1>3, <1>4 DEF WaitForMarkerTasks, Return

\* A wait at a safepoint returns once no operation holds the thread.
LEMMA WaitWithSafepointCheckReturnsInv ==
  ASSUME IInv, NEW t \in Thread, WaitWithSafepointCheckReturns(t)
  PROVE  IInv'
<1>1. PICK x \in {"sweepCheck", "markCheck"} : Become(t, <<x>>)
  BY DEF WaitWithSafepointCheckReturns
<1>2. /\ Now(t) \in {"sweepAsleep", "markAsleep"} /\ t \notin sleep /\ owner = NoThread
      /\ UNCHANGED owner /\ UNCHANGED irq /\ UNCHANGED sleep
      /\ UNCHANGED <<spaceVars, taskVars, shut>>
  BY ZenonT(20) DEF WaitWithSafepointCheckReturns, waitVars
<1>3. /\ Stack(todo[t]) /\ Now(t) = todo[t][1] /\ todo[t][2] = "run" /\ shut = "no"
      /\ Now(t) \in Outside /\ todo[t][1] # "run"
  BY <1>2, AnyThread DEF Fits, Outside
<1> DEFINE p == <<x>>
           s == p \o Tail(todo[t])
<1>4. Stack(s) /\ s[1] = x
  <2>1. /\ p \in Seq(Doing) /\ p # <<>> /\ p[1] = x /\ Fits(p[Len(p)], "run")
        /\ \A k \in 1 .. Len(p) - 1 :
             Fits(p[k], p[k + 1]) /\ (k > 1 /\ p[k] = "sweepWait" => p[k + 1] # "resume")
    BY DEF Doing, Fits, Outside
  <2>2. "run" # "resume"
    OBVIOUS
  <2> HIDE DEF p
  <2> QED BY <1>3, <2>1, <2>2, Replaced, ZenonT(30)
<1>5. s[1] \in Outside /\ Become(t, p)
  BY <1>1, <1>4 DEF Outside
<1>6. irq' \subseteq Thread /\ Sleeps(t, s)
  BY <1>2 DEF IInv, Types, Sleeps
<1> HIDE DEF p
<1>7. s = p \o Tail(todo[t])
  OBVIOUS
<1> HIDE DEF s
<1> QED BY <1>2, <1>3, <1>4, <1>5, <1>6, <1>7, OutsideMoves, Zenon

\* A thread becomes the owner of an operation.
LEMMA RequestOperationInv ==
  ASSUME IInv, NEW t \in Thread, RequestOperation(t)
  PROVE  IInv'
<1>1. /\ Now(t) = "request" /\ owner = NoThread /\ owner' = t
      /\ UNCHANGED irq /\ UNCHANGED sleep /\ UNCHANGED <<spaceVars, taskVars, shut>>
  BY DEF RequestOperation, waitVars
<1>2. /\ Stack(todo[t]) /\ todo[t][1] = "request" /\ Fits("request", todo[t][2])
      /\ t \notin sleep /\ shut = "no"
  BY <1>1, AnyThread DEF WaitPCs
<1> DEFINE p == <<"stopping">>
           s == p \o Tail(todo[t])
<1>3. Stack(s) /\ s[1] = "stopping"
  <2>1. /\ p \in Seq(Doing) /\ p # <<>> /\ p[1] = "stopping" /\ p[Len(p)] = "stopping"
        /\ \A k \in 1 .. Len(p) - 1 :
             Fits(p[k], p[k + 1]) /\ (k > 1 /\ p[k] = "sweepWait" => p[k + 1] # "resume")
    BY DEF Doing
  <2>2. Fits("stopping", todo[t][2]) /\ "stopping" # "sweepWait" /\ "request" # "run"
    BY <1>2 DEF Fits, Outside
  <2> HIDE DEF p
  <2> QED BY <1>2, <2>1, <2>2, Replaced, Zenon
<1>4. todo' = [todo EXCEPT ![t] = s]
  BY DEF RequestOperation, Become
<1> HIDE DEF s
<1>5. /\ ~Pausing(s) /\ ~Pausing(todo[t]) /\ s[1] \notin DriverPCs /\ Now(t) \notin DriverPCs
      /\ s[1] \notin Outside /\ s[1] # "startWait"
  BY <1>1, <1>2, <1>3 DEF Pausing, DriverPCs, Outside
<1>6. Sleeps(t, s) /\ irq' \subseteq Thread /\ \A u \in Thread \ {t} : owner' = u <=> owner = u
  BY <1>1, OldSpaceConstants DEF Sleeps, IInv, Types
<1>7. owner' \in Thread \cup {NoThread} /\ owner' \in {t, NoThread}
  BY <1>1
<1> QED BY <1>1, <1>2, <1>3, <1>4, <1>5, <1>6, <1>7, Moves, ZenonT(30)

\* The owner of an operation lets the other threads go on.
LEMMA ResumeThreadsInv ==
  ASSUME IInv, NEW t \in Thread, ResumeThreads(t)
  PROVE  IInv'
<1>1. /\ Now(t) = "release" /\ owner' = NoThread
      /\ UNCHANGED irq /\ UNCHANGED sleep /\ UNCHANGED <<spaceVars, taskVars, shut>>
  BY DEF ResumeThreads, waitVars
<1>2. /\ Stack(todo[t]) /\ todo[t][1] = "release" /\ Fits("release", todo[t][2])
      /\ t \notin sleep /\ shut = "no" /\ t # NoThread
  BY <1>1, AnyThread DEF WaitPCs
<1>3. owner = t
  BY <1>1, Inside DEF Outside
<1> DEFINE s == Tail(todo[t])
<1>4. Stack(s) /\ s[1] = todo[t][2] /\ s = <<>> \o Tail(todo[t])
  BY <1>2, Popped, ZenonT(20)
<1>5. todo' = [todo EXCEPT ![t] = s]
  BY <1>4 DEF ResumeThreads, Return, Become
<1> HIDE DEF s
<1>6. s[1] \in {"run", "finalizeCheck", "markCheck"}
  BY <1>2, <1>4 DEF Fits
<1>7. /\ ~Pausing(s) /\ ~Pausing(todo[t]) /\ s[1] \notin DriverPCs /\ Now(t) \notin DriverPCs
      /\ s[1] \in Outside /\ s[1] # "startWait"
  BY <1>1, <1>2, <1>6 DEF Pausing, DriverPCs, Outside
<1>8. Sleeps(t, s) /\ irq' \subseteq Thread /\ \A u \in Thread \ {t} : owner' = u <=> owner = u
  BY <1>1, <1>3, OldSpaceConstants DEF Sleeps, IInv, Types
<1>9. owner' \in Thread \cup {NoThread} /\ owner' \in {t, NoThread} /\ owner' # t
  BY <1>1, <1>2
<1> QED BY <1>1, <1>2, <1>4, <1>5, <1>7, <1>8, <1>9, Moves, ZenonT(30)

-----------------------------------------------------------------------------
(* Steps of the owner of an operation that change the tasks. *)

\* While an operation holds the other threads, those of them that sleep wait
\* for the phase to change.
LEMMA InsideSleepers ==
  ASSUME IInv, NEW t \in Thread, Now(t) \notin Outside \cup {"stopping"}, t \notin sleep
  PROVE  \A u \in sleep : /\ u \in Thread \ {t}
                          /\ \/ Now(u) = "sweepAsleep" /\ Sweeping
                             \/ Now(u) = "markAsleep" /\ phase = "marking"
<1> SUFFICES ASSUME NEW u \in sleep
             PROVE  /\ u \in Thread \ {t}
                    /\ \/ Now(u) = "sweepAsleep" /\ Sweeping
                       \/ Now(u) = "markAsleep" /\ phase = "marking"
  OBVIOUS
<1>1. u \in Thread \ {t}
  BY DEF IInv, Types
<1>2. AtSafepoint(u)
  BY <1>1, Inside
<1>3. \/ Now(u) \in {"collect", "startWait", "iterWait"} /\ tasks > 0
      \/ Now(u) = "pauseWait" /\ active # 0
      \/ Now(u) = "cards" /\ phase = "sweepingLarge"
      \/ Now(u) \in {"sweepWait", "sweepAsleep"} /\ Sweeping
      \/ Now(u) = "markAsleep" /\ phase = "marking"
  BY DEF IInv, NoLostWakeup
<1> QED BY <1>1, <1>2, <1>3 DEF AtSafepoint

\* What such a step has to show.
LEMMA InsideStep ==
  ASSUME IInv, NEW t \in Thread, Now(t) \notin Outside \cup {"stopping"}, t \notin sleep,
         NEW s, todo' = [todo EXCEPT ![t] = s], UNCHANGED <<owner, irq>>, shut' = "no",
         SpaceTypes', Phases', ThreadInv(t, todo[t])',
         markers' = Cardinality(Live'), active' = Cardinality(Live' \ Yielded'),
         tasks' = markers' + (IF sw' = "none" THEN 0 ELSE 1)
                          + (IF Now(t)' \in DriverPCs THEN 1 ELSE 0),
         HoldsRoots(todo[t])', (paused => Pausing(todo[t]))',
         (\A i \in MarkerTask : mt[i] = "asleep" => paused)',
         sleep' \subseteq sleep, sleep' = {} \/ phase' = phase
  PROVE  IInv'
<1>1. /\ owner = t /\ owner' = t /\ t # NoThread
      /\ \A u \in Thread \ {t} : AtSafepoint(u)
  BY Inside
<1>2. \A u \in Thread \ {t} : todo'[u] = todo[u] /\ Now(u)' = Now(u) /\ AtSafepoint(u)'
  BY <1>1 DEF IInv, Types, Now, AtSafepoint
<1>3. Threads'
  BY <1>1, OthersKeep, ZenonT(20)
<1>4. Types'
  <2>1. todo'[t] = s /\ s \in Seq(Doing)
    BY DEF ThreadInv, Stack, IInv, Types
  <2>2. todo' \in [Thread -> Seq(Doing)]
    BY <2>1 DEF IInv, Types
  <2> QED BY <2>2 DEF IInv, Types
<1>5. Holding'
  BY <1>1, <1>2 DEF Holding
<1>6. NoLostWakeup'
  <2>1. \A u \in sleep' : \/ Now(u)' = "sweepAsleep" /\ Sweeping'
                          \/ Now(u)' = "markAsleep" /\ phase' = "marking"
    BY <1>2, InsideSleepers DEF Sweeping
  <2> QED BY <2>1 DEF NoLostWakeup
<1>7. Counting'
  BY <1>1 DEF Counting, Driving
<1> QED BY <1>3, <1>4, <1>5, <1>6, <1>7 DEF IInv

\* The owner is done with the top of its stack.
LEMMA PopTop ==
  ASSUME IInv, NEW t \in Thread, Now(t) # "run", Return(t)
  PROVE  /\ todo' = [todo EXCEPT ![t] = Tail(todo[t])]
         /\ Stack(todo[t])' /\ todo'[t][1] = todo[t][2] /\ Now(t)' = todo[t][2]
         /\ todo[t][2] = "sweepWait" => todo'[t][2] # "resume"
<1>1. Stack(todo[t]) /\ todo[t][1] # "run"
  BY AnyThread
<1>2. /\ Stack(Tail(todo[t])) /\ Tail(todo[t])[1] = todo[t][2]
      /\ Tail(todo[t]) = <<>> \o Tail(todo[t])
      /\ todo[t][2] = "sweepWait" => Tail(todo[t])[2] # "resume"
  BY <1>1, Popped, Zenon
<1>3. todo' = [todo EXCEPT ![t] = Tail(todo[t])]
  BY <1>2 DEF Return, Become
<1>4. todo'[t] = Tail(todo[t])
  BY <1>3 DEF IInv, Types
<1>5. Stack(todo[t])'
  BY <1>2, <1>4, Zenon DEF Stack
<1>6. Now(t)' = todo[t][2]
  BY <1>2, <1>4, <1>5, StackTop, Zenon DEF Now
<1> QED BY <1>2, <1>3, <1>4, <1>5, <1>6, ZenonT(30)

\* The owner puts the steps p in place of the top of its stack.
LEMMA PutTop ==
  ASSUME IInv, NEW t \in Thread, Now(t) # "run", NEW p, Become(t, p), Chain(p, todo[t][2])
  PROVE  /\ todo' = [todo EXCEPT ![t] = p \o Tail(todo[t])]
         /\ Stack(todo[t])' /\ todo'[t][1] = p[1] /\ Now(t)' = p[1]
         /\ Len(p) > 1 => todo'[t][2] = p[2]
         /\ Len(p) = 1 => todo'[t][2] = todo[t][2]
<1> DEFINE s == p \o Tail(todo[t])
<1>1. Stack(todo[t]) /\ todo[t][1] # "run"
  BY AnyThread
<1>2. /\ Stack(s) /\ s[1] = p[1] /\ (Len(p) > 1 => s[2] = p[2])
      /\ Len(p) = 1 => s[2] = todo[t][2]
  <2>1. p \in Seq(Doing) /\ p # <<>> /\ Len(p) \in Nat
    BY DEF Chain
  <2>2. \A k \in 1 .. Len(p) - 1 :
          Fits(p[k], p[k + 1]) /\ (k > 1 /\ p[k] = "sweepWait" => p[k + 1] # "resume")
    BY <2>1 DEF Chain
  <2>3. /\ Fits(p[Len(p)], todo[t][2])
        /\ Len(p) > 1 /\ p[Len(p)] = "sweepWait" => todo[t][2] # "resume"
    BY DEF Chain
  <2> QED BY <1>1, <2>1, <2>2, <2>3, Replaced, ZenonT(30)
<1>3. todo' = [todo EXCEPT ![t] = s]
  BY DEF Become
<1> HIDE DEF s
<1>4. todo'[t] = s
  BY ZenonT(20), <1>3 DEF IInv, Types
<1>5. Stack(todo[t])'
  BY <1>2, <1>4 DEF Stack
<1>6. Now(t)' = p[1]
  BY ZenonT(20), <1>2, <1>4, <1>5, StackTop DEF Now
<1> QED BY <1>2, <1>3, <1>4, <1>5, <1>6, ZenonT(30) DEF s

\* What the owner knows of the tasks.
LEMMA InsideCounts ==
  ASSUME IInv, NEW t \in Thread, Now(t) \notin Outside
  PROVE  /\ SpaceTypes /\ Phases /\ ThreadInv(t, todo[t])
         /\ markers = Cardinality(Live) /\ active = Cardinality(Live \ Yielded)
         /\ tasks = markers + (IF sw = "none" THEN 0 ELSE 1)
                            + (IF Now(t) \in DriverPCs THEN 1 ELSE 0)
         /\ \A i \in MarkerTask : mt[i] = "asleep" => paused
         /\ Now(t) = todo[t][1] /\ Now(t) # "run" /\ Fits(Now(t), todo[t][2])
<1>1. owner = t /\ owner # NoThread
  BY Inside
<1>2. Now(t) = todo[t][1] /\ Now(t) # "run" /\ Fits(Now(t), todo[t][2])
  BY AnyThread DEF Outside
<1> QED BY <1>1, <1>2 DEF IInv, Types, Threads, Counting, Driving, NoLostWakeup

\* No task at all is counted once tasks_ is zero.
LEMMA NoTask ==
  ASSUME IInv, NEW t \in Thread, Now(t) \notin Outside, tasks = 0
  PROVE  Live = {} /\ sw = "none" /\ Now(t) \notin DriverPCs /\ markers = 0
<1>1. markers = 0 /\ sw = "none" /\ Now(t) \notin DriverPCs
  BY InsideCounts DEF SpaceTypes
<1>2. Live = {}
  BY <1>1, TasksFinite, FS_EmptySet, InsideCounts
<1> QED BY <1>1, <1>2

\* PageSpace::CollectGarbage waits for the pending tasks, and counts its own.
LEMMA WaitForPendingTasksInv ==
  ASSUME IInv, NEW t \in Thread, NEW p, WaitForPendingTasks(t, p),
         \/ Now(t) = "collect" /\ p = <<"collecting", "account">>
         \/ Now(t) = "startWait" /\ p = <<"starting", "rootsWait", "account">>
  PROVE  IInv'
<1>1. CASE tasks > 0 /\ Wait(t)
  BY <1>1, WaitInv
<1>2. CASE /\ tasks = 0 /\ tasks' = 1 /\ Become(t, p)
           /\ UNCHANGED <<owner, irq, phase, markers, active, paused, marker, taskVars, waitVars>>
  <2>1. /\ UNCHANGED <<owner, irq, phase, markers, active, paused, marker>>
        /\ UNCHANGED <<slices, mt, sw, sleep, shut>> /\ t \notin sleep
    BY <1>2 DEF taskVars, waitVars, WaitForPendingTasks
  <2>2. Now(t) \notin Outside \cup {"stopping"} /\ Now(t) # "run"
    BY DEF Outside
  <2>3. /\ SpaceTypes /\ Phases /\ ThreadInv(t, todo[t])
        /\ markers = Cardinality(Live) /\ active = Cardinality(Live \ Yielded)
        /\ \A i \in MarkerTask : mt[i] = "asleep" => paused
        /\ Now(t) = todo[t][1] /\ Fits(Now(t), todo[t][2])
        /\ owner = t /\ shut = "no" /\ (paused <=> Pausing(todo[t]))
    BY <2>2, InsideCounts, Inside, ZenonT(20)
  <2>4. Live = {} /\ sw = "none" /\ markers = 0
    BY <1>2, <2>2, NoTask
  <2>5. Chain(p, todo[t][2]) /\ p[1] \in {"collecting", "starting"}
    <3> DEFINE y == todo[t][2]
    <3>1. CASE Now(t) = "collect" /\ p = <<"collecting", "account">>
      <4>1. Fits("account", y) /\ Fits("collecting", "account")
        BY <2>3, <3>1, ZenonT(20) DEF Fits, Outside
      <4>2. /\ p \in Seq(Doing) /\ p # <<>> /\ Len(p) = 2
            /\ p[1] = "collecting" /\ p[2] = "account"
        BY <3>1 DEF Doing
      <4> HIDE DEF y
      <4> QED BY <4>1, <4>2 DEF Chain, y
    <3>2. CASE Now(t) = "startWait" /\ p = <<"starting", "rootsWait", "account">>
      <4>1. Fits("account", y) /\ Fits("starting", "rootsWait") /\ Fits("rootsWait", "account")
        BY <2>3, <3>2, ZenonT(20) DEF Fits, Outside
      <4>2. /\ p \in Seq(Doing) /\ p # <<>> /\ Len(p) = 3
            /\ p[1] = "starting" /\ p[2] = "rootsWait" /\ p[3] = "account"
        BY <3>2 DEF Doing
      <4> HIDE DEF y
      <4> QED BY <4>1, <4>2 DEF Chain, y
    <3> QED BY <3>1, <3>2
  <2>6. /\ todo' = [todo EXCEPT ![t] = p \o Tail(todo[t])]
        /\ Stack(todo[t])' /\ todo'[t][1] = p[1] /\ Now(t)' = p[1]
    BY ZenonT(20), <1>2, <2>2, <2>5, PutTop
  <2>7. /\ Live' = Live /\ Yielded' = Yielded /\ ~paused
        /\ p[1] = "starting" => phase = "done"
    <3>1. Live' = Live /\ Yielded' = Yielded
      BY <2>1, ZenonT(30) DEF Live, Yielded
    <3>2. ~paused /\ (p[1] = "starting" => phase = "done")
      BY <2>3, <2>4 DEF Pausing, ThreadInv, Phases, SpaceTypes, Phase, SweeperPC
    <3> QED BY <3>1, <3>2, Zenon
  <2>8. SpaceTypes' /\ Phases'
    <3>1. tasks' \in Nat
      BY ZenonT(20), <1>2
    <3>2. SpaceTypes'
      BY <2>1, <2>3, <3>1, Zenon DEF SpaceTypes
    <3>3. Phases'
      BY <2>1, <2>3, <2>7, ZenonT(20) DEF Phases
    <3> QED BY <3>2, <3>3
  <2>9. ThreadInv(t, todo[t])'
    BY ZenonT(20), <2>1, <2>3, <2>4, <2>5, <2>6, <2>7 DEF ThreadInv, Pausing, Outside
  <2>10. HoldsRoots(todo[t])'
    BY <2>1, <2>4 DEF HoldsRoots, Rooting, Live
  <2>11. tasks' = markers' + (IF sw' = "none" THEN 0 ELSE 1)
                           + (IF Now(t)' \in DriverPCs THEN 1 ELSE 0)
    BY <1>2, <2>1, <2>4, <2>5, <2>6 DEF DriverPCs
  <2>12. UNCHANGED <<owner, irq>> /\ shut' = "no"
    BY <2>1, <2>3, ZenonT(20)
  <2> QED BY <2>1, <2>2, <2>3, <2>6, <2>7, <2>8, <2>9, <2>10, <2>11, <2>12, InsideStep, ZenonT(20)
<1> QED BY <1>1, <1>2 DEF WaitForPendingTasks

\* PageSpace::CollectGarbage finishes the marking, and sweeps or starts the sweeper.
LEMMA CollectGarbageHelperInv ==
  ASSUME IInv, NEW t \in Thread, CollectGarbageHelper(t)
  PROVE  IInv'
<1>1. /\ Now(t) = "collecting" /\ marker' = FALSE /\ slices' = 0 /\ Return(t)
      /\ \/ phase' = "done" /\ UNCHANGED <<tasks, sw>>
         \/ phase' = "sweepingLarge" /\ tasks' = tasks + 1 /\ sw' = "started"
      /\ UNCHANGED <<owner, irq, markers, active, paused, mt, sleep, shut>>
  BY DEF CollectGarbageHelper, waitVars
<1>2. Now(t) \notin Outside \cup {"stopping"} /\ Now(t) # "run" /\ Now(t) \in DriverPCs
  BY <1>1 DEF Outside, DriverPCs
<1>3. /\ SpaceTypes /\ Phases /\ ThreadInv(t, todo[t])
      /\ markers = Cardinality(Live) /\ active = Cardinality(Live \ Yielded)
      /\ tasks = markers + (IF sw = "none" THEN 0 ELSE 1) + 1
      /\ \A i \in MarkerTask : mt[i] = "asleep" => paused
      /\ Now(t) = todo[t][1] /\ Fits(Now(t), todo[t][2])
      /\ owner = t /\ shut = "no" /\ (paused <=> Pausing(todo[t]))
  BY <1>2, InsideCounts, Inside, ZenonT(20)
<1>4. Live = {} /\ sw = "none" /\ ~paused /\ todo[t][2] = "account"
  BY <1>1, <1>3, ZenonT(20) DEF ThreadInv, Pausing, Fits
<1>5. /\ todo' = [todo EXCEPT ![t] = Tail(todo[t])]
      /\ Stack(todo[t])' /\ todo'[t][1] = "account" /\ Now(t)' = "account"
  BY <1>1, <1>2, <1>4, PopTop
<1>6. Live' = Live /\ Yielded' = Yielded
  BY <1>1 DEF Live, Yielded
<1>7. t \notin sleep
  BY <1>1, AnyThread DEF WaitPCs
<1>8. sleep = {}
  BY <1>2, <1>3, <1>4, <1>7, InsideSleepers DEF Phases, Sweeping
<1>9. SpaceTypes' /\ Phases'
  <2>1. SpaceTypes'
    <3>1. tasks' \in Nat /\ slices' \in 0 .. RootSlices
      BY <1>1, <1>3, OldSpaceConstants DEF SpaceTypes
    <3>2. phase' \in Phase /\ sw' \in SweeperPC
      BY <1>1, <1>3, ZenonT(20) DEF SpaceTypes, Phase, SweeperPC
    <3> QED BY <1>1, <1>3, <3>1, <3>2, ZenonT(20) DEF SpaceTypes
  <2>2. Phases'
    BY <1>1, <1>3, <1>4, <1>6, ZenonT(20) DEF Phases
  <2> QED BY <2>1, <2>2
<1>10. ThreadInv(t, todo[t])'
  BY <1>1, <1>3, <1>5, ZenonT(20) DEF ThreadInv, Pausing, Outside
<1>11. HoldsRoots(todo[t])'
  BY <1>1, <1>4, ZenonT(30) DEF HoldsRoots, Rooting, Live
<1>12. tasks' = markers' + (IF sw' = "none" THEN 0 ELSE 1)
                         + (IF Now(t)' \in DriverPCs THEN 1 ELSE 0)
  BY <1>1, <1>3, <1>4, <1>5 DEF DriverPCs, SpaceTypes
<1> QED BY <1>1, <1>2, <1>3, <1>4, <1>5, <1>6, <1>7, <1>8, <1>9, <1>10, <1>11, <1>12, InsideStep, Zenon

\* PageSpace::CollectGarbage starts the marker tasks: all of them are counted first.
LEMMA StartConcurrentMarkInv ==
  ASSUME IInv, NEW t \in Thread, StartConcurrentMark(t)
  PROVE  IInv'
<1> DEFINE n == Cardinality(MarkerTask)
           p == <<"startTasks">>
<1>1. /\ Now(t) = "starting" /\ marker' = TRUE /\ phase' = "marking" /\ slices' = 0
      /\ tasks' = tasks + n /\ markers' = markers + n /\ active' = active + n
      /\ mt' = [i \in MarkerTask |-> "counted"] /\ Become(t, p)
      /\ UNCHANGED <<owner, irq, paused, sw, sleep, shut>>
  BY DEF StartConcurrentMark, waitVars
<1>2. Now(t) \notin Outside \cup {"stopping"} /\ Now(t) # "run" /\ Now(t) \in DriverPCs
  BY <1>1 DEF Outside, DriverPCs
<1>3. /\ SpaceTypes /\ Phases /\ ThreadInv(t, todo[t])
      /\ markers = Cardinality(Live) /\ active = Cardinality(Live \ Yielded)
      /\ tasks = markers + (IF sw = "none" THEN 0 ELSE 1) + 1
      /\ Now(t) = todo[t][1] /\ Fits(Now(t), todo[t][2])
      /\ owner = t /\ shut = "no" /\ (paused <=> Pausing(todo[t]))
  BY <1>2, InsideCounts, Inside, ZenonT(20)
<1>4. phase = "done" /\ Live = {} /\ sw = "none" /\ ~paused /\ todo[t][2] = "rootsWait"
  BY <1>1, <1>3, ZenonT(20) DEF ThreadInv, Pausing, Fits, Phases, SpaceTypes, SweeperPC
<1>5. Chain(p, "rootsWait") /\ p[1] = "startTasks"
  <2>1. "startTasks" \in Doing /\ Fits("startTasks", "rootsWait")
    BY DEF Fits, Doing, Outside
  <2> QED BY <2>1, ChainOfOne
<1> HIDE DEF p
<1>6. /\ todo' = [todo EXCEPT ![t] = p \o Tail(todo[t])]
      /\ Stack(todo[t])' /\ todo'[t][1] = "startTasks" /\ Now(t)' = "startTasks"
  BY <1>1, <1>2, <1>4, <1>5, PutTop
<1>7. Live' = MarkerTask /\ Yielded' = {} /\ MarkerTask # {} /\ n \in Nat
  BY ZenonT(20), <1>1, OldSpaceConstants, FS_CardinalityType DEF Live, Yielded
<1>8. markers = 0 /\ active = 0 /\ tasks = 1
  <2>1. Live = {} /\ Live \ Yielded = {} /\ Cardinality({}) = 0
    BY <1>4, FS_EmptySet, Zenon
  <2>2. markers = 0 /\ active = 0 /\ tasks = markers + 0 + 1
    BY <1>3, <1>4, <2>1, ZenonT(20)
  <2> QED BY ONLY <2>2
<1>9. t \notin sleep
  BY <1>1, AnyThread, Zenon DEF WaitPCs
<1>10. sleep = {}
  BY <1>2, <1>4, <1>9, InsideSleepers DEF Sweeping
<1>11. Live' \ Yielded' = MarkerTask
  BY <1>7
<1> HIDE DEF n
<1>12. markers' = n /\ active' = n /\ tasks' = n + 1
  BY <1>1, <1>7, <1>8
<1>13. SpaceTypes'
  <2>1. tasks' \in Nat /\ markers' \in Nat /\ active' \in Nat
    BY <1>7, <1>12
  <2>2. phase' \in Phase /\ mt' \in [MarkerTask -> MarkerPC] /\ slices' \in 0 .. RootSlices
    BY <1>1, OldSpaceConstants DEF Phase, MarkerPC
  <2>3. paused' \in BOOLEAN /\ marker' \in BOOLEAN /\ sw' \in SweeperPC
    BY ZenonT(20), <1>1, <1>3 DEF SpaceTypes
  <2> QED BY <2>1, <2>2, <2>3, Zenon DEF SpaceTypes
<1>14. Phases'
  BY <1>1, <1>3, <1>4, <1>7 DEF Phases
<1>15. ThreadInv(t, todo[t])'
  BY <1>1, <1>3, <1>6, Zenon DEF ThreadInv, Pausing, Outside
<1>16. HoldsRoots(todo[t])'
  BY <1>6, ZenonT(20) DEF HoldsRoots, RootPCs
<1>17. tasks' = markers' + (IF sw' = "none" THEN 0 ELSE 1)
                         + (IF Now(t)' \in DriverPCs THEN 1 ELSE 0)
  BY <1>1, <1>4, <1>6, <1>7, <1>12 DEF DriverPCs
<1>18. markers' = Cardinality(Live') /\ active' = Cardinality(Live' \ Yielded')
  BY <1>7, <1>11, <1>12 DEF n
<1>19. \A i \in MarkerTask : mt'[i] # "asleep"
  BY <1>1
<1> QED BY <1>1, <1>2, <1>3, <1>4, <1>6, <1>9, <1>10, <1>13, <1>14, <1>15,
           <1>16, <1>17, <1>18, <1>19, InsideStep, Zenon

\* A step of the owner that moves its stack and the marker tasks that are started.
LEMMA RootStep ==
  ASSUME IInv, NEW t \in Thread, Now(t) \in RootPCs, NEW s, todo' = [todo EXCEPT ![t] = s],
         Stack(todo[t])', todo'[t][1] \in RootPCs \cup {"account"},
         mt' \in [MarkerTask -> MarkerPC], slices' \in 0 .. RootSlices,
         \A i \in MarkerTask : mt'[i] = mt[i] \/ (mt[i] = "counted" /\ mt'[i] = "started"),
         HoldsRoots(todo[t])',
         UNCHANGED <<owner, irq, spaceVars, sw, waitVars>>
  PROVE  IInv'
<1>1. /\ UNCHANGED <<owner, irq, phase, tasks, markers, active, paused, marker>>
      /\ UNCHANGED <<sw, sleep, shut>>
  BY DEF spaceVars, counters, waitVars
<1>2. /\ Now(t) \notin Outside \cup {"stopping"} /\ Now(t) # "run" /\ Now(t) \in DriverPCs
      /\ Now(t) \notin WaitPCs
  BY DEF Outside, DriverPCs, RootPCs, WaitPCs
<1>3. /\ SpaceTypes /\ Phases /\ ThreadInv(t, todo[t])
      /\ markers = Cardinality(Live) /\ active = Cardinality(Live \ Yielded)
      /\ tasks = markers + (IF sw = "none" THEN 0 ELSE 1) + 1
      /\ \A i \in MarkerTask : mt[i] = "asleep" => paused
      /\ Now(t) = todo[t][1]
      /\ owner = t /\ shut = "no" /\ (paused <=> Pausing(todo[t]))
  BY <1>2, InsideCounts, Inside, ZenonT(20)
<1>4. ~paused /\ t \notin sleep
  BY <1>2, <1>3, AnyThread DEF Pausing, RootPCs
<1>5. Now(t)' = todo'[t][1] /\ Now(t)' \in DriverPCs
  BY StackTop DEF Now, RootPCs, DriverPCs
<1>6. Live' = Live /\ Yielded' = Yielded
  BY DEF Live, Yielded
<1>7. SpaceTypes' /\ Phases'
  BY ZenonT(20), <1>1, <1>3, <1>6 DEF SpaceTypes, Phases
<1>8. ThreadInv(t, todo[t])'
  BY <1>1, <1>3 DEF ThreadInv, Pausing, Outside, RootPCs
<1>9. \A i \in MarkerTask : mt'[i] = "asleep" => paused'
  BY <1>1, <1>3
<1>10. tasks' = markers' + (IF sw' = "none" THEN 0 ELSE 1)
                         + (IF Now(t)' \in DriverPCs THEN 1 ELSE 0)
  BY <1>1, <1>3, <1>5
<1> QED BY <1>1, <1>2, <1>3, <1>4, <1>6, <1>7, <1>8, <1>9, <1>10, InsideStep, ZenonT(20)

\* What the thread that starts the marker tasks knows of those with roots to mark.
LEMMA Roots ==
  ASSUME IInv, NEW t \in Thread, Now(t) \in RootPCs
  PROVE  /\ Now(t) # "run" /\ Now(t) = todo[t][1] /\ Fits(Now(t), todo[t][2])
         /\ Stack(todo[t]) /\ HoldsRoots(todo[t])
         /\ mt \in [MarkerTask -> MarkerPC] /\ slices \in 0 .. RootSlices
         /\ \A i \in MarkerTask : mt[i] # "counted" \/ Now(t) # "rootsWait"
<1>1. Now(t) \notin Outside
  BY DEF RootPCs, Outside
<1>2. /\ Now(t) # "run" /\ Now(t) = todo[t][1] /\ Fits(Now(t), todo[t][2])
      /\ Stack(todo[t]) /\ HoldsRoots(todo[t]) /\ SpaceTypes
  BY <1>1, InsideCounts, Inside, AnyThread, ZenonT(20)
<1> QED BY <1>2, Zenon DEF HoldsRoots, SpaceTypes

=============================================================================
