-------------------------- MODULE ThreadPoolProofs --------------------------
(***************************************************************************)
(* No task of a thread pool is lost or stranded, every dead worker is      *)
(* joined by one thread, and Shutdown drains the pool, for any number of   *)
(* workers and tasks and any size of the pool.                             *)
(***************************************************************************)
EXTENDS ThreadPool, FiniteSetTheorems, TLAPS

(* A leaf that names no prover is tried with the SMT solver, then Zenon.   *)
USE SMTT(30), Z3T(30), ZenonT(20)

-----------------------------------------------------------------------------
(* Counting. *)

\* A new member is one more.
LEMMA Add ==
  ASSUME NEW S, IsFiniteSet(S), NEW x, x \notin S
  PROVE  /\ IsFiniteSet(S \cup {x}) /\ Cardinality(S) \in Nat
         /\ Cardinality(S \cup {x}) = Cardinality(S) + 1
BY FS_AddElement, FS_CardinalityType, Zenon

\* A member that goes is one less.
LEMMA Remove ==
  ASSUME NEW S, IsFiniteSet(S), NEW x \in S
  PROVE  /\ IsFiniteSet(S \ {x}) /\ Cardinality(S) \in Nat
         /\ Cardinality(S \ {x}) = Cardinality(S) - 1
<1>1. IsFiniteSet(S \ {x}) /\ Cardinality(S \ {x}) = Cardinality(S) - 1
  BY FS_RemoveElement, Zenon
<1> QED  BY <1>1, FS_CardinalityType, Zenon

\* A subset does not have more members.
LEMMA Fewer ==
  ASSUME NEW T, IsFiniteSet(T), NEW S, S \subseteq T
  PROVE  /\ IsFiniteSet(S) /\ Cardinality(S) \in Nat /\ Cardinality(T) \in Nat
         /\ Cardinality(S) <= Cardinality(T)
<1>1. IsFiniteSet(S) /\ Cardinality(S) <= Cardinality(T)
  BY FS_Subset, Zenon
<1> QED  BY <1>1, FS_CardinalityType, Zenon

\* A set of workers is finite, and empty if it has no members to count.
LEMMA WorkerSet ==
  ASSUME NEW S, S \subseteq Worker
  PROVE  /\ IsFiniteSet(S) /\ Cardinality(S) \in Nat
         /\ Cardinality(S) = 0 <=> S = {}
<1>1. IsFiniteSet(S)
  BY PoolConstants, FS_Subset, Zenon
<1> QED  BY <1>1, FS_CardinalityType, FS_EmptySet, Zenon

-----------------------------------------------------------------------------
(* The inductive invariant. *)

Idling == {"loop", "idleWait", "idleTimedOut", "notifyIdle", "wait", "timedOut"}
Dying == {"notifyExit", "join", "exited"}
Blocked == {w \in Worker : isBlocked[w]}
Awake == idle \ waiting

\* Which list a worker is in.
PcInv ==
  \A w \in Worker :
    /\ w \in idle <=> pc[w] \in Idling
    /\ w \in running <=> pc[w] = "run"
    /\ w \in waiting => pc[w] \in {"wait", "idleWait"}
    /\ isBlocked[w] => pc[w] = "run"
    /\ pc[w] = "run" => task[w] \in Task

\* A limited pool has room for a worker that is not blocked.  A worker that
\* sleeps while tasks are pending is not needed for them.
SizeInv ==
  /\ maxPoolSize > 0 => maxPoolSize > Cardinality(Blocked)
  /\ maxPoolSize = 0 \/ waiting # {} => Cardinality(Awake) >= Len(tasks)

\* JoinedByOne, without counting; and who joins has died.
JoinInv ==
  /\ \A v \in Worker : pc[v] \in Dying <=>
       v \in dead \/ v \in shutdownJoin \/ \E w \in Worker : v \in toJoin[w]
  /\ dead \cap shutdownJoin = {}
  /\ \A w \in Worker : toJoin[w] \cap dead = {} /\ toJoin[w] \cap shutdownJoin = {}
  /\ \A u, w \in Worker : u # w => toJoin[u] \cap toJoin[w] = {}
  /\ \A w \in Worker : toJoin[w] # {} => pc[w] \in {"notifyExit", "join"}
  /\ \A u, v \in dead : u = v

\* Workers do not join one another in a circle: of the dead, one is joined by
\* none of them.
OrderInv ==
  \A S \in SUBSET Worker :
    S # {} /\ (\A w \in S : pc[w] \in Dying)
      => \E v \in S : \A w \in S : v \notin toJoin[w]

\* The tasks that are queued, run, or have run are different ones.
TaskInv ==
  /\ EachTaskIsInOnePlace
  /\ IsFiniteSet(accepted) /\ IsFiniteSet(ran)
  /\ \A i, j \in 1 .. Len(tasks) : tasks[i] = tasks[j] => i = j
  /\ \A u, w \in running : task[u] = task[w] => u = w
  /\ \A w \in running : task[w] \notin Pending /\ task[w] \notin ran
  /\ Pending \cap ran = {}

\* How far Shutdown has come.
DrainInv ==
  /\ shuttingDown <=> spc # "none"
  /\ allDead => shuttingDown /\ idle = {} /\ running = {} /\ tasks = <<>>
  /\ spc \in {"obtain", "join", "returned"} => allDead
  /\ spc \in {"join", "returned"} => dead = {}
  /\ spc # "join" => shutdownJoin = {}
  /\ spc = "returned" => \A w \in Worker : pc[w] = "none"

IInv ==
  /\ TypeOK /\ PcInv /\ SizeInv /\ NoStrandedTask /\ JoinInv /\ OrderInv
  /\ TaskInv /\ DrainInv

-----------------------------------------------------------------------------
(* Initially. *)

LEMMA InitInv == Init => IInv
<1> SUFFICES ASSUME Init  PROVE IInv
  OBVIOUS
<1>1. TypeOK
  <2>1. maxPoolSize \in Nat
    BY PoolConstants DEF Init
  <2>2. isBlocked \in [Worker -> BOOLEAN] /\ shuttingDown \in BOOLEAN /\ allDead \in BOOLEAN
    BY Zenon DEF Init
  <2>3. /\ pc \in [Worker -> PCs] /\ task \in [Worker -> Task \cup {NoTask}]
        /\ toJoin \in [Worker -> SUBSET Worker]
    BY DEF Init, PCs
  <2> QED  BY <2>1, <2>2, <2>3 DEF Init, TypeOK
<1>2. PcInv /\ NoStrandedTask
  BY DEF Init, PcInv, Idling, NoStrandedTask
<1>6. \A w \in Worker : pc[w] \notin Dying /\ toJoin[w] = {}
  BY DEF Init, Dying
<1>7. JoinInv
  BY <1>6 DEF Init, JoinInv
<1>8. OrderInv
  BY <1>6 DEF OrderInv
<1>3. SizeInv
  <2>1. Blocked = {} /\ Awake = {} /\ Len(tasks) = 0
    BY DEF Init, Blocked, Awake
  <2>2. Cardinality(Blocked) = 0 /\ Cardinality(Awake) = 0
    BY <2>1, FS_EmptySet, Zenon
  <2> QED  BY <2>1, <2>2 DEF SizeInv
<1>4. TaskInv
  <2>1. Pending = {} /\ running = {} /\ ran = {} /\ accepted = {} /\ Len(tasks) = 0
    BY DEF Init, Pending
  <2>2. IsFiniteSet({}) /\ Cardinality({}) = 0
    BY FS_EmptySet, Zenon
  <2> QED  BY <2>1, <2>2 DEF TaskInv, EachTaskIsInOnePlace
<1>5. DrainInv
  BY DEF Init, DrainInv
<1> QED  BY <1>1, <1>2, <1>3, <1>4, <1>5, <1>7, <1>8 DEF IInv

-----------------------------------------------------------------------------
(* The steps of a worker in WorkerLoop have one shape. *)

Runs(w) ==
  /\ tasks # <<>>
  /\ task' = [task EXCEPT ![w] = Head(tasks)] /\ tasks' = Tail(tasks)
  /\ pc' = [pc EXCEPT ![w] = "run"]
  /\ running' = running \cup {w} /\ idle' = idle \ {w}
  /\ UNCHANGED <<toJoin, dead, allDead, waiting>>

Rests(w) ==
  /\ \E p \in Idling :
       /\ pc' = [pc EXCEPT ![w] = p]
       /\ \/ waiting' = waiting
          \/ waiting' = waiting \cup {w} /\ tasks = <<>> /\ p \in {"wait", "idleWait"}
  /\ running' = running \ {w} /\ idle' = idle \cup {w}
  /\ UNCHANGED <<toJoin, dead, allDead>>

Dies(w) ==
  /\ tasks = <<>>
  /\ toJoin' = [toJoin EXCEPT ![w] = dead] /\ dead' = {w}
  /\ running' = running \ {w} /\ idle' = idle \ {w} /\ waiting' = waiting \ {w}
  /\ \/ /\ shuttingDown /\ running' = {} /\ idle' = {}
        /\ allDead' = TRUE /\ pc' = [pc EXCEPT ![w] = "notifyExit"]
     \/ allDead' = allDead /\ pc' = [pc EXCEPT ![w] = "join"]

LoopStep(w) ==
  /\ w \notin waiting /\ pc[w] \in Idling \cup {"run"} /\ ~isBlocked[w]
  /\ UNCHANGED loopUnchanged
  /\ \/ Runs(w)
     \/ /\ Rests(w) \/ Dies(w)
        /\ tasks' = tasks
        /\ task' = task \/ task' = [task EXCEPT ![w] = NoTask]
  /\ pc[w] = "run" => ran' = ran \cup {task[w]}
  /\ pc[w] # "run" => ran' = ran

\* The steps that end with AfterIdle.
LEMMA AfterIdleShape ==
  ASSUME TypeOK, PcInv, NEW w \in Worker, NEW r, NEW i, AfterIdle(w, r, i),
         r = running \ {w}, i = idle \cup {w}
  PROVE  Rests(w) \/ Dies(w)
<1>1. CASE tasks # <<>> /\ GoTo(w, "loop", r, i)
  BY <1>1 DEF GoTo, Rests, Idling
<1>2. CASE tasks = <<>> /\ shuttingDown /\ Die(w, r, i)
  <2>1. i \ {w} = idle \ {w}
    OBVIOUS
  <2> QED  BY <1>2, <2>1 DEF Die, Dies, DeadAfter, NobodyLeft
<1>3. CASE tasks = <<>> /\ ~shuttingDown /\ Sleep(w, "wait", r, i)
  BY <1>3 DEF Sleep, Rests, Idling
<1> QED  BY <1>1, <1>2, <1>3 DEF AfterIdle

LEMMA EnterIdleShape ==
  ASSUME TypeOK, PcInv, NEW w \in Worker, NEW r, NEW i, EnterIdle(w, r, i),
         r = running \ {w}, i = idle \cup {w}, tasks = <<>>
  PROVE  Rests(w) \/ Dies(w)
<1>1. CASE AfterIdle(w, r, i)
  BY <1>1, AfterIdleShape
<1>2. CASE GoTo(w, "notifyIdle", r, i)
  BY <1>2 DEF GoTo, Rests, Idling
<1>3. CASE Sleep(w, "idleWait", r, i)
  BY <1>3 DEF Sleep, Rests, Idling
<1> QED  BY <1>1, <1>2, <1>3 DEF EnterIdle

\* An idle worker is in idle_workers_ only.
LEMMA IdleLists ==
  ASSUME TypeOK, PcInv, NEW w \in Worker, pc[w] \in Idling
  PROVE  running = running \ {w} /\ idle = idle \cup {w} /\ ~isBlocked[w] /\ pc[w] # "run"
BY DEF TypeOK, PcInv, Idling

LEMMA LoopShape ==
  ASSUME TypeOK, PcInv, NEW w \in Worker,
         \/ WorkerLoop(w) \/ TaskDone(w) \/ IdleWaitReturns(w)
         \/ NotifyIdleReturns(w) \/ WaitReturns(w)
  PROVE  LoopStep(w)
<1>1. CASE WorkerLoop(w)
  <2>1. pc[w] \in Idling /\ w \notin waiting
    BY <1>1 DEF WorkerLoop, Idling, PcInv
  <2>2. CASE tasks # <<>> /\ RunFirst(w)
    BY <1>1, <2>1, <2>2, IdleLists DEF WorkerLoop, RunFirst, GoTo, Runs, LoopStep
  <2>3. CASE tasks = <<>> /\ EnterIdle(w, running, idle) /\ UNCHANGED <<task, tasks>>
    <3>1. Rests(w) \/ Dies(w)
      BY <2>1, <2>3, IdleLists, EnterIdleShape
    <3> QED  BY <1>1, <2>1, <2>3, <3>1, IdleLists DEF WorkerLoop, LoopStep
  <2> QED  BY <1>1, <2>2, <2>3 DEF WorkerLoop
<1>2. CASE TaskDone(w)
  <2>1. pc[w] = "run" /\ w \notin waiting /\ ~isBlocked[w]
    BY <1>2 DEF TaskDone, PcInv
  <2>2. CASE tasks # <<>> /\ RunFirst(w)
    BY <1>2, <2>1, <2>2 DEF TaskDone, RunFirst, GoTo, Runs, LoopStep
  <2>3. CASE /\ tasks = <<>> /\ EnterIdle(w, running \ {w}, idle \cup {w})
             /\ task' = [task EXCEPT ![w] = NoTask] /\ UNCHANGED tasks
    <3>1. Rests(w) \/ Dies(w)
      BY <2>3, EnterIdleShape
    <3> QED  BY <1>2, <2>1, <2>3, <3>1 DEF TaskDone, LoopStep
  <2> QED  BY <1>2, <2>2, <2>3 DEF TaskDone
<1>3. CASE IdleWaitReturns(w)
  <2>1. pc[w] \in Idling /\ w \notin waiting
    BY <1>3 DEF IdleWaitReturns, Idling
  <2>2. Rests(w) \/ Dies(w)
    <3>1. CASE AfterIdle(w, running, idle)
      BY <2>1, <3>1, IdleLists, AfterIdleShape
    <3>2. CASE GoTo(w, "notifyIdle", running, idle)
      BY <2>1, <3>2, IdleLists DEF GoTo, Rests, Idling
    <3> QED  BY <1>3, <3>1, <3>2 DEF IdleWaitReturns
  <2> QED  BY <1>3, <2>1, <2>2, IdleLists DEF IdleWaitReturns, LoopStep
<1>4. CASE NotifyIdleReturns(w)
  <2>1. pc[w] \in Idling /\ w \notin waiting
    BY <1>4 DEF NotifyIdleReturns, Idling, PcInv
  <2>2. Rests(w) \/ Dies(w)
    BY <1>4, <2>1, IdleLists, AfterIdleShape DEF NotifyIdleReturns
  <2> QED  BY <1>4, <2>1, <2>2, IdleLists DEF NotifyIdleReturns, LoopStep
<1>5. CASE WaitReturns(w)
  <2>1. pc[w] \in Idling /\ w \notin waiting
    BY <1>5 DEF WaitReturns, Idling
  <2>2. Rests(w) \/ Dies(w)
    <3>1. CASE Done(w) /\ Die(w, running, idle)
      BY <2>1, <3>1, IdleLists DEF Done, Die, Dies, DeadAfter, NobodyLeft
    <3>2. CASE GoTo(w, "loop", running, idle)
      BY <2>1, <3>2, IdleLists DEF GoTo, Rests, Idling
    <3>3. CASE tasks = <<>> /\ Sleep(w, "wait", running, idle)
      BY <2>1, <3>3, IdleLists DEF Sleep, Rests, Idling
    <3> QED  BY <1>5, <3>1, <3>2, <3>3 DEF WaitReturns
  <2> QED  BY <1>5, <2>1, <2>2, IdleLists DEF WaitReturns, LoopStep
<1> QED  BY <1>1, <1>2, <1>3, <1>4, <1>5

-----------------------------------------------------------------------------
(* A step of WorkerLoop preserves the invariant. *)

LEMMA LoopType ==
  ASSUME TypeOK, PcInv, NEW w \in Worker, LoopStep(w)
  PROVE  TypeOK'
<1>1. tasks' \in Seq(Task) /\ task' \in [Worker -> Task \cup {NoTask}]
  <2>1. CASE Runs(w)
    <3>1. Head(tasks) \in Task /\ Tail(tasks) \in Seq(Task)
      BY <2>1 DEF Runs, TypeOK
    <3> QED  BY <2>1, <3>1 DEF Runs, TypeOK
  <2>2. CASE tasks' = tasks /\ (task' = task \/ task' = [task EXCEPT ![w] = NoTask])
    BY <2>2 DEF TypeOK
  <2> QED  BY <2>1, <2>2 DEF LoopStep
<1>2. ran' \subseteq Task
  BY DEF LoopStep, PcInv, TypeOK
<1>3. /\ isBlocked' = isBlocked /\ maxPoolSize' = maxPoolSize /\ spc' = spc
      /\ shuttingDown' = shuttingDown /\ shutdownJoin' = shutdownJoin
      /\ accepted' = accepted
  BY DEF LoopStep, loopUnchanged
<1>4. /\ pc' \in [Worker -> PCs] /\ toJoin' \in [Worker -> SUBSET Worker]
      /\ waiting' \subseteq Worker /\ idle' \subseteq Worker
      /\ running' \subseteq Worker /\ dead' \subseteq Worker
  <2>1. CASE Runs(w)
    BY <2>1 DEF Runs, TypeOK, PCs
  <2>2. CASE Rests(w)
    BY <2>2 DEF Rests, TypeOK, PCs, Idling
  <2>3. CASE Dies(w)
    BY <2>3 DEF Dies, TypeOK, PCs
  <2> QED  BY <2>1, <2>2, <2>3 DEF LoopStep
<1>5. allDead' \in BOOLEAN
  BY Zenon DEF LoopStep, Runs, Rests, Dies, TypeOK
<1> QED  BY <1>1, <1>2, <1>3, <1>4, <1>5 DEF TypeOK

LEMMA LoopPc ==
  ASSUME TypeOK, PcInv, NEW w \in Worker, LoopStep(w)
  PROVE  PcInv'
<1>1. isBlocked' = isBlocked /\ ~isBlocked[w] /\ w \notin waiting
  BY DEF LoopStep, loopUnchanged
<1>2. CASE Runs(w)
  <2>1. Head(tasks) \in Task
    BY <1>2 DEF Runs, TypeOK
  <2> QED  BY <1>1, <1>2, <2>1 DEF Runs, PcInv, TypeOK, Idling
<1>3. CASE Rests(w) /\ (task' = task \/ task' = [task EXCEPT ![w] = NoTask])
  BY <1>1, <1>3 DEF Rests, PcInv, TypeOK, Idling
<1>4. CASE Dies(w) /\ (task' = task \/ task' = [task EXCEPT ![w] = NoTask])
  BY <1>1, <1>4 DEF Dies, PcInv, TypeOK, Idling
<1> QED  BY <1>2, <1>3, <1>4 DEF LoopStep

\* The queue without its first task.
LEMMA Dequeue ==
  ASSUME TypeOK, TaskInv, tasks # <<>>, tasks' = Tail(tasks)
  PROVE  /\ Len(tasks) \in Nat /\ Len(tasks') = Len(tasks) - 1
         /\ Head(tasks) \in Pending /\ Pending' = Pending \ {Head(tasks)}
         /\ \A i, j \in 1 .. Len(tasks') : tasks'[i] = tasks'[j] => i = j
<1>1. /\ tasks \in Seq(Task) /\ Len(tasks) \in Nat \ {0} /\ Head(tasks) = tasks[1]
      /\ Len(tasks') = Len(tasks) - 1
      /\ \A k \in 1 .. Len(tasks') : tasks'[k] = tasks[k + 1]
  BY DEF TypeOK
<1>2. \A i, j \in 1 .. Len(tasks) : tasks[i] = tasks[j] => i = j
  BY DEF TaskInv
<1>3. \A i, j \in 1 .. Len(tasks') : tasks'[i] = tasks'[j] => i = j
  BY <1>1, <1>2
<1>4. Head(tasks) \in Pending
  BY <1>1 DEF Pending
<1>5. ASSUME NEW x \in Pending'
      PROVE  x \in Pending \ {Head(tasks)}
  <2>1. PICK k \in 1 .. Len(tasks') : x = tasks'[k]
    BY <1>5, Zenon DEF Pending
  <2>2. k + 1 \in 1 .. Len(tasks) /\ 1 \in 1 .. Len(tasks) /\ k + 1 # 1
    BY <1>1, <2>1
  <2> QED  BY <1>1, <1>2, <2>1, <2>2 DEF Pending
<1>6. ASSUME NEW x \in Pending \ {Head(tasks)}
      PROVE  x \in Pending'
  <2>1. PICK k \in 1 .. Len(tasks) : x = tasks[k]
    BY <1>6 DEF Pending
  <2>2. k - 1 \in 1 .. Len(tasks') /\ (k - 1) + 1 = k
    BY <1>1, <1>6, <2>1
  <2>3. tasks'[k - 1] = x
    BY <1>1, <2>1, <2>2
  <2> QED  BY <2>2, <2>3 DEF Pending
<1> QED  BY <1>1, <1>3, <1>4, <1>5, <1>6

LEMMA LoopSize ==
  ASSUME TypeOK, PcInv, TaskInv, SizeInv, NEW w \in Worker, LoopStep(w)
  PROVE  SizeInv'
<1>1. maxPoolSize' = maxPoolSize /\ Blocked' = Blocked /\ w \notin waiting
  BY DEF LoopStep, loopUnchanged, Blocked
<1>2. idle \subseteq Worker /\ Awake \subseteq Worker /\ tasks \in Seq(Task)
  BY DEF TypeOK, Awake
<1>3. SUFFICES ASSUME maxPoolSize' = 0 \/ waiting' # {}
               PROVE  Cardinality(Awake') >= Len(tasks')
  BY <1>1 DEF SizeInv
<1>4. CASE Runs(w)
  <2>1. Cardinality(Awake) >= Len(tasks)
    BY <1>1, <1>3, <1>4 DEF Runs, SizeInv
  <2>2. Len(tasks) \in Nat /\ Len(tasks') = Len(tasks) - 1
    BY <1>4, Dequeue DEF Runs
  <2>3. Awake' = Awake \ {w}
    BY <1>4 DEF Runs, Awake
  <2>4. CASE w \in Awake
    <3>1. Cardinality(Awake \ {w}) = Cardinality(Awake) - 1 /\ Cardinality(Awake) \in Nat
      BY <1>2, <2>4, WorkerSet, Remove
    <3> QED  BY <2>1, <2>2, <2>3, <3>1
  <2>5. CASE w \notin Awake
    <3>1. Awake' = Awake /\ Cardinality(Awake) \in Nat
      BY <1>2, <2>3, <2>5, WorkerSet
    <3> QED  BY <2>1, <2>2, <3>1
  <2> QED  BY <2>4, <2>5
<1>5. CASE tasks = <<>> /\ tasks' = tasks /\ (Rests(w) \/ Dies(w))
  <2>1. Len(tasks') = 0 /\ Awake' \subseteq Worker
    BY <1>5, <1>2 DEF Rests, Dies, Awake
  <2>2. Cardinality(Awake') \in Nat
    BY <2>1, WorkerSet
  <2> QED  BY <2>1, <2>2
<1>6. CASE tasks # <<>> /\ tasks' = tasks /\ Rests(w)
  <2>1. waiting' = waiting /\ Awake \subseteq Awake' /\ Awake' \subseteq Worker
    BY <1>2, <1>6 DEF Rests, Awake
  <2>2. Cardinality(Awake) >= Len(tasks)
    BY <1>1, <1>3, <2>1 DEF SizeInv
  <2>3. Cardinality(Awake) <= Cardinality(Awake') /\ Cardinality(Awake') \in Nat /\ Cardinality(Awake) \in Nat
    BY <2>1, WorkerSet, Fewer
  <2>4. Len(tasks) \in Nat
    BY <1>2
  <2> QED  BY ONLY <1>6, <2>2, <2>3, <2>4
<1> QED  BY <1>4, <1>5, <1>6, Zenon DEF LoopStep, Dies

LEMMA LoopStranded ==
  ASSUME TypeOK, PcInv, NoStrandedTask, NEW w \in Worker, LoopStep(w)
  PROVE  NoStrandedTask'
<1>1. isBlocked' = isBlocked /\ ~isBlocked[w] /\ w \notin waiting
  BY DEF LoopStep, loopUnchanged
<1>2. CASE Runs(w)
  BY <1>1, <1>2 DEF Runs, NoStrandedTask, Alive
<1>3. CASE tasks' = tasks /\ Rests(w)
  BY <1>1, <1>3 DEF Rests, NoStrandedTask, Alive
<1>4. CASE tasks' = tasks /\ Dies(w)
  BY <1>4 DEF Dies, NoStrandedTask
<1> QED  BY <1>2, <1>3, <1>4 DEF LoopStep

LEMMA LoopJoin ==
  ASSUME TypeOK, PcInv, JoinInv, NEW w \in Worker, LoopStep(w)
  PROVE  JoinInv'
<1>1. shutdownJoin' = shutdownJoin /\ pc[w] \notin Dying
  BY DEF LoopStep, loopUnchanged, Idling, Dying
<1>2. CASE Runs(w) \/ Rests(w)
  <2>1. dead' = dead /\ toJoin' = toJoin
    BY <1>2 DEF Runs, Rests
  <2>2. \A v \in Worker : pc'[v] \in Dying <=> pc[v] \in Dying
    BY <1>1, <1>2 DEF Runs, Rests, Idling, Dying, TypeOK
  <2>3. \A v \in Worker : toJoin[v] # {} => pc'[v] = pc[v]
    BY <1>1, <1>2 DEF Runs, Rests, JoinInv, Dying, TypeOK
  <2> QED  BY <1>1, <2>1, <2>2, <2>3 DEF JoinInv
<1>3. CASE Dies(w)
  <2>1. /\ w \notin dead /\ w \notin shutdownJoin /\ \A u \in Worker : w \notin toJoin[u]
        /\ toJoin[w] = {}
    BY <1>1 DEF JoinInv, Dying
  <2>2. dead' = {w} /\ \A u \in Worker : toJoin'[u] = IF u = w THEN dead ELSE toJoin[u]
    BY <1>3 DEF Dies, TypeOK
  <2>3. \A v \in Worker : pc'[v] \in Dying <=> v = w \/ pc[v] \in Dying
    BY <1>3 DEF Dies, Dying, TypeOK
  <2>4. \A v \in Worker : pc'[v] \in Dying <=>
          v \in dead' \/ v \in shutdownJoin' \/ \E u \in Worker : v \in toJoin'[u]
    BY <1>1, <2>1, <2>2, <2>3 DEF JoinInv
  <2>5. /\ dead' \cap shutdownJoin' = {}
        /\ \A u \in Worker : toJoin'[u] \cap dead' = {} /\ toJoin'[u] \cap shutdownJoin' = {}
    BY <1>1, <2>1, <2>2 DEF JoinInv
  <2>6. \A u, v \in Worker : u # v => toJoin'[u] \cap toJoin'[v] = {}
    BY <2>2 DEF JoinInv
  <2>7. \A u \in Worker : toJoin'[u] # {} => pc'[u] \in {"notifyExit", "join"}
    BY <1>3, <2>2 DEF JoinInv, Dies, TypeOK
  <2>8. \A u, v \in dead' : u = v
    BY <2>2
  <2> QED  BY <2>4, <2>5, <2>6, <2>7, <2>8 DEF JoinInv
<1> QED  BY <1>2, <1>3 DEF LoopStep

LEMMA LoopOrder ==
  ASSUME TypeOK, PcInv, JoinInv, OrderInv, NEW w \in Worker, LoopStep(w)
  PROVE  OrderInv'
<1>1. pc[w] \notin Dying
  BY DEF LoopStep, Idling, Dying
<1> SUFFICES ASSUME NEW S \in SUBSET Worker, S # {}, \A u \in S : pc'[u] \in Dying
             PROVE  \E v \in S : \A u \in S : v \notin toJoin'[u]
  BY DEF OrderInv
<1>2. CASE Runs(w) \/ Rests(w)
  <2>1. toJoin' = toJoin /\ \A u \in Worker : pc'[u] \in Dying => pc[u] \in Dying
    BY <1>2 DEF Runs, Rests, Idling, Dying, TypeOK
  <2> QED  BY <2>1 DEF OrderInv
<1>3. CASE Dies(w)
  <2>1. w \notin dead /\ \A u \in Worker : w \notin toJoin[u]
    BY <1>1 DEF JoinInv
  <2>2. \A u \in Worker : toJoin'[u] = IF u = w THEN dead ELSE toJoin[u]
    BY <1>3 DEF Dies, TypeOK
  <2>3. CASE w \in S
    BY <2>1, <2>2, <2>3
  <2>4. CASE w \notin S
    <3>1. \A u \in S : pc[u] \in Dying /\ toJoin'[u] = toJoin[u]
      BY <1>3, <2>2, <2>4 DEF Dies, TypeOK
    <3> QED  BY <3>1 DEF OrderInv
  <2> QED  BY <2>3, <2>4
<1> QED  BY <1>2, <1>3 DEF LoopStep

LEMMA LoopDrain ==
  ASSUME TypeOK, PcInv, DrainInv, NEW w \in Worker, LoopStep(w)
  PROVE  DrainInv'
<1>1. spc' = spc /\ shuttingDown' = shuttingDown /\ shutdownJoin' = shutdownJoin
  BY DEF LoopStep, loopUnchanged
<1>2. ~allDead /\ spc \notin {"obtain", "join", "returned"}
  BY DEF LoopStep, PcInv, DrainInv
<1>3. CASE allDead' = allDead
  BY <1>1, <1>2, <1>3 DEF DrainInv
<1>4. CASE Dies(w) /\ shuttingDown /\ running' = {} /\ idle' = {} /\ tasks' = tasks
  BY <1>1, <1>2, <1>4 DEF DrainInv, Dies
<1> QED  BY <1>3, <1>4, ZenonT(20) DEF LoopStep, Runs, Rests, Dies

\* What the tasks of the running workers and of all others are.
LEMMA LoopTasks ==
  ASSUME TypeOK, PcInv, TaskInv, NEW w \in Worker, LoopStep(w)
  PROVE  TaskInv'
<1>1. /\ accepted' = accepted /\ tasks \in Seq(Task) /\ Len(tasks) \in Nat
      /\ w \in running <=> pc[w] = "run"
  BY DEF LoopStep, loopUnchanged, TypeOK, PcInv
<1>2. /\ \A x : x \in accepted <=> x \in Pending \/ (\E u \in running : x = task[u]) \/ x \in ran
      /\ Cardinality(accepted) = Len(tasks) + Cardinality(running) + Cardinality(ran)
      /\ IsFiniteSet(accepted) /\ IsFiniteSet(ran)
      /\ \A u, v \in running : task[u] = task[v] => u = v
      /\ \A u \in running : task[u] \notin Pending /\ task[u] \notin ran
      /\ Pending \cap ran = {}
      /\ \A i, j \in 1 .. Len(tasks) : tasks[i] = tasks[j] => i = j
  BY DEF TaskInv, EachTaskIsInOnePlace
<1>3. IsFiniteSet(running) /\ Cardinality(running) \in Nat /\ Cardinality(ran) \in Nat
  BY <1>2, WorkerSet, FS_CardinalityType DEF TypeOK
<1>7. /\ Cardinality(accepted) = Len(tasks) + Cardinality(running) + Cardinality(ran)
      /\ Len(tasks) \in Nat /\ Cardinality(running) \in Nat /\ Cardinality(ran) \in Nat
  BY <1>1, <1>2, <1>3
<1>4. /\ IsFiniteSet(ran')
      /\ pc[w] = "run" => Cardinality(ran') = Cardinality(ran) + 1
      /\ pc[w] # "run" => ran' = ran
  <2>1. CASE pc[w] = "run"
    <3>1. ran' = ran \cup {task[w]} /\ task[w] \notin ran
      BY <1>1, <1>2, <2>1 DEF LoopStep
    <3> QED  BY <1>2, <2>1, <3>1, Add
  <2>2. CASE pc[w] # "run"
    BY <1>2, <2>2 DEF LoopStep
  <2> QED  BY <2>1, <2>2
<1>5. CASE Runs(w)
  <2>1. /\ Len(tasks') = Len(tasks) - 1
        /\ Head(tasks) \in Pending /\ Pending' = Pending \ {Head(tasks)}
        /\ \A i, j \in 1 .. Len(tasks') : tasks'[i] = tasks'[j] => i = j
    BY <1>5, Dequeue DEF Runs
  <2>2. running' = running \cup {w}
        /\ \A u \in Worker : task'[u] = IF u = w THEN Head(tasks) ELSE task[u]
    BY <1>5 DEF Runs, TypeOK
  <2>3. running \subseteq Worker
    BY DEF TypeOK
  <2>4. CASE pc[w] = "run"
    <3>1. running' = running /\ ran' = ran \cup {task[w]}
      BY <1>1, <2>2, <2>4 DEF LoopStep
    <3>2. Cardinality(accepted) = Len(tasks') + Cardinality(running') + Cardinality(ran')
      <4>1. Len(tasks') = Len(tasks) - 1 /\ Cardinality(ran') = Cardinality(ran) + 1
        BY <1>4, <2>1, <2>4
      <4> QED  BY ONLY <1>7, <3>1, <4>1
    <3>3. \A x : x \in accepted <=> x \in Pending' \/ (\E u \in running' : x = task'[u]) \/ x \in ran'
      BY <1>1, <1>2, <2>1, <2>2, <2>3, <2>4, <3>1
    <3>4. /\ \A u, v \in running' : task'[u] = task'[v] => u = v
          /\ \A u \in running' : task'[u] \notin Pending' /\ task'[u] \notin ran'
          /\ Pending' \cap ran' = {}
      <4>1. \A u, v \in running' : task'[u] = task'[v] => u = v
        BY <1>1, <1>2, <2>1, <2>2, <2>3, <2>4, <3>1
      <4>2. \A u \in running' : task'[u] \notin Pending' /\ task'[u] \notin ran'
        BY <1>1, <1>2, <2>1, <2>2, <2>3, <2>4, <3>1
      <4>3. Pending' \cap ran' = {}
        BY <1>1, <1>2, <2>1, <2>2, <2>3, <2>4, <3>1
      <4> QED  BY <4>1, <4>2, <4>3
    <3> QED  BY <1>1, <1>2, <1>4, <2>1, <3>2, <3>3, <3>4 DEF TaskInv, EachTaskIsInOnePlace
  <2>5. CASE pc[w] # "run"
    <3>1. w \notin running /\ ran' = ran
      BY <1>1, <2>5 DEF LoopStep
    <3>2. Cardinality(running') = Cardinality(running) + 1
      BY <1>3, <2>2, <3>1, Add
    <3>3. Cardinality(accepted) = Len(tasks') + Cardinality(running') + Cardinality(ran')
      BY <1>1, <1>2, <1>3, <2>1, <3>1, <3>2
    <3>4. \A x : x \in accepted <=> x \in Pending' \/ (\E u \in running' : x = task'[u]) \/ x \in ran'
      BY <1>1, <1>2, <2>1, <2>2, <2>3, <3>1
    <3>5. /\ \A u, v \in running' : task'[u] = task'[v] => u = v
          /\ \A u \in running' : task'[u] \notin Pending' /\ task'[u] \notin ran'
          /\ Pending' \cap ran' = {}
      <4>1. \A u, v \in running' : task'[u] = task'[v] => u = v
        BY <1>1, <1>2, <2>1, <2>2, <2>3, <3>1
      <4>2. \A u \in running' : task'[u] \notin Pending' /\ task'[u] \notin ran'
        BY <1>1, <1>2, <2>1, <2>2, <2>3, <3>1
      <4>3. Pending' \cap ran' = {}
        BY <1>1, <1>2, <2>1, <2>2, <2>3, <3>1
      <4> QED  BY <4>1, <4>2, <4>3
    <3> QED  BY <1>1, <1>2, <1>4, <2>1, <3>3, <3>4, <3>5 DEF TaskInv, EachTaskIsInOnePlace
  <2> QED  BY <2>4, <2>5
<1>6. CASE /\ Rests(w) \/ Dies(w)
           /\ tasks' = tasks
           /\ task' = task \/ task' = [task EXCEPT ![w] = NoTask]
  <2>1. running' = running \ {w} /\ running \subseteq Worker /\ Pending' = Pending
    BY <1>6 DEF Rests, Dies, TypeOK, Pending
  <2>2. \A u \in running' : task'[u] = task[u]
    BY <1>6, <2>1 DEF TypeOK
  <2>3. Cardinality(accepted) = Len(tasks') + Cardinality(running') + Cardinality(ran')
    <3>1. CASE pc[w] = "run"
      <4>1. Cardinality(running') = Cardinality(running) - 1
        BY <1>1, <1>3, <2>1, <3>1, Remove
      <4>2. Len(tasks') = Len(tasks) /\ Cardinality(ran') = Cardinality(ran) + 1
        BY <1>4, <1>6, <3>1
      <4> QED  BY ONLY <1>7, <4>1, <4>2
    <3>2. CASE pc[w] # "run"
      <4>1. running' = running /\ ran' = ran
        BY <1>1, <1>4, <2>1, <3>2
      <4> QED  BY <1>2, <1>6, <4>1
    <3> QED  BY <3>1, <3>2
  <2>4. pc[w] = "run" => ran' = ran \cup {task[w]}
    BY DEF LoopStep
  <2>5. \A x : x \in accepted <=> x \in Pending' \/ (\E u \in running' : x = task'[u]) \/ x \in ran'
    BY <1>1, <1>2, <1>4, <2>1, <2>2, <2>4
  <2>6. /\ \A u, v \in running' : task'[u] = task'[v] => u = v
        /\ \A u \in running' : task'[u] \notin Pending' /\ task'[u] \notin ran'
        /\ Pending' \cap ran' = {}
    BY <1>1, <1>2, <1>4, <2>1, <2>2, <2>4
  <2> QED  BY <1>1, <1>2, <1>4, <1>6, <2>3, <2>5, <2>6 DEF TaskInv, EachTaskIsInOnePlace
<1> QED  BY <1>5, <1>6 DEF LoopStep

LEMMA LoopInv ==
  ASSUME IInv, NEW w \in Worker,
         \/ WorkerLoop(w) \/ TaskDone(w) \/ IdleWaitReturns(w)
         \/ NotifyIdleReturns(w) \/ WaitReturns(w)
  PROVE  IInv'
<1>1. LoopStep(w)
  BY LoopShape DEF IInv
<1> QED  BY <1>1, LoopType, LoopPc, LoopSize, LoopStranded, LoopJoin, LoopOrder,
            LoopTasks, LoopDrain DEF IInv

-----------------------------------------------------------------------------
(* What the other steps leave as it is. *)

\* Workers are woken at most.
LEMMA SameWork ==
  ASSUME TypeOK, SizeInv, NoStrandedTask, waiting' \subseteq waiting,
         UNCHANGED <<idle, running, isBlocked, maxPoolSize, tasks>>
  PROVE  SizeInv' /\ NoStrandedTask'
<1>1. Awake \subseteq Awake' /\ Awake' \subseteq Worker /\ Blocked' = Blocked
  BY DEF Awake, Blocked, TypeOK
<1>2. Cardinality(Awake) <= Cardinality(Awake') /\ Cardinality(Awake) \in Nat /\ Cardinality(Awake') \in Nat
  BY <1>1, WorkerSet, Fewer
<1>3. Len(tasks) \in Nat /\ Len(tasks') = Len(tasks)
  BY DEF TypeOK
<1>4. waiting' # {} => waiting # {}
  OBVIOUS
<1>5. Cardinality(Awake) >= Len(tasks) => Cardinality(Awake') >= Len(tasks')
  BY ONLY <1>2, <1>3
<1>6. SizeInv'
  BY <1>1, <1>4, <1>5 DEF SizeInv
<1> QED  BY <1>6 DEF NoStrandedTask, Alive

LEMMA SameTasks ==
  ASSUME TaskInv, UNCHANGED <<tasks, task, running, history>>
  PROVE  TaskInv'
BY DEF TaskInv, EachTaskIsInOnePlace, Pending, history

\* Nobody dies, and nobody is joined.
LEMMA SameDead ==
  ASSUME JoinInv, OrderInv, UNCHANGED <<dead, toJoin, shutdownJoin>>,
         \A v \in Worker : pc'[v] \in Dying <=> pc[v] \in Dying,
         \A v \in Worker : pc[v] \in {"notifyExit", "join"} /\ toJoin[v] # {}
                             => pc'[v] \in {"notifyExit", "join"}
  PROVE  JoinInv' /\ OrderInv'
<1>1. JoinInv'
  BY DEF JoinInv
<1>2. OrderInv'
  BY DEF OrderInv
<1> QED  BY <1>1, <1>2


-----------------------------------------------------------------------------
(* Scheduling. *)

\* A worker is started, or some are woken.
Starts(w) ==
  /\ pc[w] = "none"
  /\ pc' = [pc EXCEPT ![w] = "loop"] /\ idle' = idle \cup {w} /\ waiting' = waiting

Wakes == pc' = pc /\ idle' = idle /\ waiting' \subseteq waiting

LEMMA NewWorkerShape ==
  ASSUME NewWorker
  PROVE  \E w \in Worker : Starts(w)
BY ZenonT(20) DEF NewWorker, Starts

\* What both leave in order.
LEMMA ScheduleLists ==
  ASSUME IInv, Wakes \/ \E w \in Worker : Starts(w),
         UNCHANGED <<running, task, toJoin, dead, shutdownJoin>>,
         isBlocked' \in [Worker -> BOOLEAN],
         \A w \in Worker : isBlocked'[w] => pc[w] = "run"
  PROVE  /\ PcInv' /\ JoinInv' /\ OrderInv'
         /\ pc' \in [Worker -> PCs] /\ idle' \subseteq Worker /\ waiting' \subseteq Worker
<1>1. TypeOK /\ PcInv /\ JoinInv /\ OrderInv
  BY DEF IInv
<1>2. CASE Wakes
  <2>1. PcInv'
    BY <1>1, <1>2 DEF Wakes, PcInv
  <2>2. JoinInv' /\ OrderInv'
    BY <1>1, <1>2, SameDead DEF Wakes
  <2> QED  BY <1>1, <1>2, <2>1, <2>2, Zenon DEF Wakes, TypeOK
<1>3. ASSUME NEW w \in Worker, Starts(w)
      PROVE  /\ PcInv' /\ JoinInv' /\ OrderInv'
             /\ pc' \in [Worker -> PCs] /\ idle' \subseteq Worker /\ waiting' \subseteq Worker
  <2>1. PcInv'
    BY <1>1, <1>3 DEF Starts, PcInv, TypeOK, Idling
  <2>2. \A v \in Worker : pc'[v] \in Dying <=> pc[v] \in Dying
    BY <1>1, <1>3 DEF Starts, TypeOK, Dying
  <2>3. \A v \in Worker : pc[v] \in {"notifyExit", "join"} => pc'[v] \in {"notifyExit", "join"}
    BY <1>1, <1>3 DEF Starts, TypeOK
  <2>4. JoinInv' /\ OrderInv'
    BY <1>1, <2>2, <2>3, SameDead
  <2> QED  BY <1>1, <1>3, <2>1, <2>4, Zenon DEF Starts, TypeOK, PCs
<1> QED  BY <1>2, <1>3

\* A started worker is one more that is awake.
LEMMA StartsAwake ==
  ASSUME TypeOK, PcInv, NEW w \in Worker, Starts(w)
  PROVE  /\ w \notin waiting /\ w \in Awake' /\ ~isBlocked[w] /\ waiting' = waiting
         /\ Cardinality(Awake') = Cardinality(Awake) + 1 /\ Cardinality(Awake) \in Nat
<1>1. w \notin waiting /\ w \notin Awake /\ ~isBlocked[w] /\ Awake \subseteq Worker
  BY DEF Starts, PcInv, Idling, Awake, TypeOK
<1>2. Awake' = Awake \cup {w} /\ waiting' = waiting
  BY <1>1 DEF Starts, Awake
<1>3. IsFiniteSet(Awake)
  BY <1>1, WorkerSet
<1> QED  BY <1>1, <1>2, <1>3, Add

\* A notified worker is, too.
LEMMA NotifyAwake ==
  ASSUME TypeOK, PcInv, NEW w \in waiting, waiting' = waiting \ {w}, idle' = idle
  PROVE  /\ w \in Awake' /\ w \in idle /\ ~isBlocked[w]
         /\ Cardinality(Awake') = Cardinality(Awake) + 1 /\ Cardinality(Awake) \in Nat
<1>1. w \in idle /\ w \notin Awake /\ ~isBlocked[w] /\ Awake \subseteq Worker
  BY DEF PcInv, Idling, Awake, TypeOK
<1>2. Awake' = Awake \cup {w}
  BY <1>1 DEF Awake
<1>3. IsFiniteSet(Awake)
  BY <1>1, WorkerSet
<1> QED  BY <1>1, <1>2, <1>3, Add

\* An idle worker that is awake can take a task.
LEMMA AwakeIsEnough ==
  ASSUME PcInv', NEW w \in Worker, w \in Awake'
  PROVE  NoStrandedTask'
BY DEF PcInv, Idling, Awake, NoStrandedTask, Alive

LEMMA RunImplSize ==
  ASSUME TypeOK, PcInv, PcInv', SizeInv, NEW t \in Task, ScheduleTaskLocked(t),
         UNCHANGED <<running, isBlocked, maxPoolSize>>
  PROVE  SizeInv' /\ NoStrandedTask'
<1> DEFINE n == Len(tasks) + 1
           full == maxPoolSize > 0 /\ Cardinality(idle) + Cardinality(running) >= maxPoolSize
<1>1. Len(tasks) \in Nat /\ Len(tasks') = n /\ n \in Nat /\ n > 0 /\ maxPoolSize \in Nat
  BY DEF ScheduleTaskLocked, TypeOK
<1>2. /\ idle \subseteq Worker /\ running \subseteq Worker /\ waiting \subseteq idle
      /\ Awake \subseteq Worker /\ Blocked \subseteq Worker /\ Blocked' = Blocked
  BY DEF TypeOK, PcInv, Idling, Awake, Blocked
<1>3. /\ Cardinality(idle) \in Nat /\ Cardinality(running) \in Nat
      /\ Cardinality(Awake) \in Nat /\ Cardinality(Blocked) \in Nat
      /\ Cardinality(idle) = 0 <=> idle = {}
  BY <1>2, WorkerSet
<1>4. SUFFICES /\ maxPoolSize = 0 \/ waiting' # {} => Cardinality(Awake') >= n
               /\ NoStrandedTask'
  BY <1>1, <1>2 DEF SizeInv
<1>5. CASE (Cardinality(idle) >= n \/ (full /\ idle # {})) /\ Notify /\ UNCHANGED <<pc, idle>>
  <2>1. idle # {}
    BY <1>1, <1>3, <1>5
  <2>2. ASSUME NEW w \in waiting, waiting' = waiting \ {w}
        PROVE  Cardinality(Awake') >= n /\ NoStrandedTask'
    <3>1. w \in Awake' /\ Cardinality(Awake') = Cardinality(Awake) + 1
      BY <1>5, <2>2, NotifyAwake
    <3>2. Cardinality(Awake) >= Len(tasks)
      BY <2>2 DEF SizeInv
    <3>3. NoStrandedTask'
      BY <1>2, <2>2, <3>1, AwakeIsEnough
    <3> QED  BY <1>1, <1>3, <3>1, <3>2, <3>3
  <2>3. CASE waiting = {} /\ waiting' = waiting
    <3>1. Awake' = idle
      BY <1>5, <2>3 DEF Awake
    <3>2. NoStrandedTask'
      BY <1>2, <2>1, <3>1, AwakeIsEnough
    <3>3. maxPoolSize = 0 => Cardinality(idle) >= n
      BY <1>5
    <3> QED  BY <2>3, <3>1, <3>2, <3>3
  <2> QED  BY <1>5, <2>2, <2>3 DEF Notify
<1>6. CASE full /\ idle = {} /\ UNCHANGED <<pc, idle, waiting>>
  <2>1. waiting' = {} /\ maxPoolSize # 0
    BY <1>2, <1>6
  <2>2. ~(running \subseteq Blocked)
    <3>1. Cardinality(running) > Cardinality(Blocked)
      BY <1>1, <1>3, <1>6 DEF SizeInv
    <3>2. ASSUME running \subseteq Blocked
          PROVE  Cardinality(running) <= Cardinality(Blocked)
      BY <1>2, <3>2, WorkerSet, Fewer
    <3> QED  BY <1>3, <3>1, <3>2
  <2>3. PICK w \in running : ~isBlocked[w]
    BY <1>2, <2>2 DEF Blocked
  <2>4. NoStrandedTask'
    BY <2>1, <2>3 DEF NoStrandedTask, Alive
  <2> QED  BY <2>1, <2>4
<1>7. CASE NewWorker
  <2>1. PICK w \in Worker : Starts(w)
    BY <1>7, NewWorkerShape
  <2>2. w \in Awake' /\ waiting' = waiting /\ Cardinality(Awake') = Cardinality(Awake) + 1
    BY <2>1, StartsAwake
  <2>3. maxPoolSize = 0 \/ waiting # {} => Cardinality(Awake) >= Len(tasks)
    BY DEF SizeInv
  <2>4. NoStrandedTask'
    BY <2>1, <2>2, AwakeIsEnough, ZenonT(20)
  <2> QED  BY <1>1, <1>3, <2>2, <2>3, <2>4
<1> QED  BY <1>5, <1>6, <1>7 DEF ScheduleTaskLocked, WakeOrStartWorker

LEMMA RunImplTasks ==
  ASSUME TypeOK, TaskInv, NEW t \in Task, t \notin accepted, accepted' = accepted \cup {t},
         tasks' = Append(tasks, t), UNCHANGED <<task, running, ran>>
  PROVE  TaskInv'
<1>1. /\ tasks \in Seq(Task) /\ Len(tasks) \in Nat /\ Len(tasks') = Len(tasks) + 1
      /\ \A k \in 1 .. Len(tasks) : tasks'[k] = tasks[k]
      /\ tasks'[Len(tasks) + 1] = t
  BY DEF TypeOK
<1>2. Pending' = Pending \cup {t}
  <2>1. \A k : k \in 1 .. Len(tasks') <=> k \in 1 .. Len(tasks) \/ k = Len(tasks) + 1
    BY <1>1
  <2> QED  BY <1>1, <2>1 DEF Pending
<1>3. /\ accepted = Pending \cup {task[w] : w \in running} \cup ran
      /\ Cardinality(accepted) = Len(tasks) + Cardinality(running) + Cardinality(ran)
      /\ IsFiniteSet(accepted) /\ IsFiniteSet(ran)
      /\ \A i, j \in 1 .. Len(tasks) : tasks[i] = tasks[j] => i = j
      /\ \A u, w \in running : task[u] = task[w] => u = w
      /\ \A w \in running : task[w] \notin Pending /\ task[w] \notin ran
      /\ Pending \cap ran = {}
  BY DEF TaskInv, EachTaskIsInOnePlace
<1>4. IsFiniteSet(accepted') /\ Cardinality(accepted') = Cardinality(accepted) + 1
  BY <1>3, Add, ZenonT(20)
<1>5. Cardinality(running) \in Nat /\ Cardinality(ran) \in Nat
  BY <1>3, WorkerSet, FS_CardinalityType DEF TypeOK
<1>6. Cardinality(accepted') = Len(tasks') + Cardinality(running') + Cardinality(ran')
  BY <1>1, <1>3, <1>4, <1>5
<1>7. accepted' = Pending' \cup {task'[w] : w \in running'} \cup ran'
  BY <1>2, <1>3
<1>8. \A k \in 1 .. Len(tasks) : tasks[k] # t
  BY <1>3 DEF Pending
<1>9. \A i, j \in 1 .. Len(tasks') : tasks'[i] = tasks'[j] => i = j
  BY <1>1, <1>3, <1>8
<1>10. /\ \A w \in running' : task'[w] \notin Pending' /\ task'[w] \notin ran'
       /\ Pending' \cap ran' = {}
       /\ \A u, w \in running' : task'[u] = task'[w] => u = w
  BY <1>2, <1>3
<1> QED  BY <1>3, <1>4, <1>6, <1>7, <1>9, <1>10, Zenon DEF TaskInv, EachTaskIsInOnePlace

LEMMA RunImplInv ==
  ASSUME IInv, NEW t \in Task, RunImpl(t)
  PROVE  IInv'
<1>1. Wakes \/ \E w \in Worker : Starts(w)
  BY NewWorkerShape DEF RunImpl, ScheduleTaskLocked, WakeOrStartWorker, Notify, Wakes
<1>2. UNCHANGED <<task, isBlocked, toJoin, running, dead, maxPoolSize, shuttingDown,
                  allDead, spc, shutdownJoin, ran>>
  BY ZenonT(20) DEF RunImpl, shutdownVars
<1>3. /\ PcInv' /\ JoinInv' /\ OrderInv'
      /\ pc' \in [Worker -> PCs] /\ idle' \subseteq Worker /\ waiting' \subseteq Worker
  BY <1>1, <1>2, ScheduleLists, ZenonT(20) DEF IInv, TypeOK, PcInv
<1>4. tasks' = Append(tasks, t) /\ accepted' = accepted \cup {t} /\ t \notin accepted
  BY DEF RunImpl, ScheduleTaskLocked
<1>5. tasks' \in Seq(Task) /\ accepted' \subseteq Task
  BY <1>4 DEF IInv, TypeOK
<1>6. TypeOK'
  BY <1>2, <1>3, <1>5 DEF IInv, TypeOK
<1>7. SizeInv' /\ NoStrandedTask'
  BY <1>2, <1>3, RunImplSize DEF IInv, RunImpl
<1>8. TaskInv'
  BY <1>2, <1>4, RunImplTasks DEF IInv
<1>9. DrainInv'
  <2>1. ~shuttingDown /\ spc = "none" /\ ~allDead /\ shutdownJoin = {}
    BY DEF IInv, DrainInv, RunImpl, TypeOK
  <2> QED  BY <1>2, <2>1 DEF DrainInv
<1> QED  BY <1>3, <1>6, <1>7, <1>8, <1>9 DEF IInv

LEMMA BlockSize ==
  ASSUME IInv, PcInv', NEW w \in Worker, MarkCurrentWorkerAsBlocked(w)
  PROVE  SizeInv' /\ NoStrandedTask'
<1>1. TypeOK /\ PcInv /\ SizeInv
  BY DEF IInv
<1>2. /\ ~isBlocked[w] /\ isBlocked' = [isBlocked EXCEPT ![w] = TRUE]
      /\ maxPoolSize' = IF maxPoolSize > 0 THEN maxPoolSize + 1 ELSE 0
      /\ tasks' = tasks /\ maxPoolSize \in Nat /\ Len(tasks) \in Nat
  BY <1>1 DEF MarkCurrentWorkerAsBlocked, TypeOK
<1>3. maxPoolSize' > 0 => maxPoolSize' > Cardinality(Blocked')
  <2>1. Blocked' = Blocked \cup {w} /\ w \notin Blocked /\ Blocked \subseteq Worker
    BY <1>1, <1>2 DEF Blocked, TypeOK
  <2>2. Cardinality(Blocked') = Cardinality(Blocked) + 1 /\ Cardinality(Blocked) \in Nat
    BY <2>1, WorkerSet, Add
  <2> QED  BY <1>1, <1>2, <2>2 DEF SizeInv
<1>4. maxPoolSize' = 0 <=> maxPoolSize = 0
  BY <1>2
<1>5. maxPoolSize = 0 \/ waiting # {} => Cardinality(Awake) >= Len(tasks)
  BY <1>1 DEF SizeInv
<1>6. CASE NewWorker
  <2>1. PICK v \in Worker : Starts(v)
    BY <1>6, NewWorkerShape
  <2>2. /\ v \in Awake' /\ waiting' = waiting /\ Cardinality(Awake) \in Nat
        /\ Cardinality(Awake') = Cardinality(Awake) + 1
    BY <1>1, <2>1, StartsAwake
  <2>3. NoStrandedTask'
    BY <2>2, AwakeIsEnough
  <2>4. maxPoolSize' = 0 \/ waiting' # {} => Cardinality(Awake') >= Len(tasks')
    BY <1>2, <1>4, <1>5, <2>2
  <2> QED  BY <1>3, <2>3, <2>4 DEF SizeInv
<1>7. CASE /\ ~(maxPoolSize > 0 /\ idle = {} /\ tasks # <<>>)
           /\ UNCHANGED <<pc, idle, waiting>>
  <2>1. Awake' = Awake /\ Awake \subseteq Worker /\ idle \subseteq Worker
    BY <1>1, <1>7 DEF Awake, TypeOK
  <2>2. SizeInv'
    BY <1>2, <1>3, <1>4, <1>5, <1>7, <2>1 DEF SizeInv
  <2>3. NoStrandedTask'
    <3>1. CASE tasks = <<>>
      BY <1>2, <3>1 DEF NoStrandedTask
    <3>2. CASE tasks # <<>> /\ (maxPoolSize = 0 \/ waiting # {})
      <4>1. Len(tasks) > 0 /\ Cardinality(Awake) >= Len(tasks)
        BY <1>1, <1>5, <3>2 DEF TypeOK
      <4>2. Awake # {}
        <5>1. Cardinality(Awake) # 0 /\ Cardinality(Awake) \in Nat
          BY <1>2, <2>1, <4>1, WorkerSet
        <5> QED  BY <2>1, <5>1, WorkerSet
      <4> QED  BY <2>1, <4>2, AwakeIsEnough
    <3>3. CASE tasks # <<>> /\ maxPoolSize # 0 /\ waiting = {}
      <4>1. Awake = idle /\ idle # {}
        BY <1>2, <1>7, <3>3 DEF Awake
      <4> QED  BY <2>1, <4>1, AwakeIsEnough
    <3> QED  BY <3>1, <3>2, <3>3
  <2> QED  BY <2>2, <2>3
<1> QED  BY <1>6, <1>7 DEF MarkCurrentWorkerAsBlocked

LEMMA BlockInv ==
  ASSUME IInv, NEW w \in Worker, MarkCurrentWorkerAsBlocked(w)
  PROVE  IInv'
<1>1. Wakes \/ \E v \in Worker : Starts(v)
  BY NewWorkerShape DEF MarkCurrentWorkerAsBlocked, Wakes
<1>2. /\ UNCHANGED <<task, toJoin, running, dead, tasks, shuttingDown, allDead, spc,
                     shutdownJoin, accepted, ran>>
      /\ UNCHANGED history
  BY DEF MarkCurrentWorkerAsBlocked, shutdownVars, history
<1>3. /\ isBlocked' \in [Worker -> BOOLEAN]
      /\ \A v \in Worker : isBlocked'[v] => pc[v] = "run"
  BY DEF IInv, TypeOK, PcInv, MarkCurrentWorkerAsBlocked
<1>4. /\ PcInv' /\ JoinInv' /\ OrderInv'
      /\ pc' \in [Worker -> PCs] /\ idle' \subseteq Worker /\ waiting' \subseteq Worker
  BY <1>1, <1>2, <1>3, ScheduleLists, Zenon
<1>5. maxPoolSize' \in Nat
  BY DEF IInv, TypeOK, MarkCurrentWorkerAsBlocked
<1>6. TypeOK'
  BY <1>2, <1>3, <1>4, <1>5 DEF IInv, TypeOK
<1>7. SizeInv' /\ NoStrandedTask'
  BY <1>4, BlockSize
<1>8. TaskInv'
  BY <1>2, SameTasks, ZenonT(20) DEF IInv
<1>9. DrainInv'
  <2>1. ~allDead
    BY DEF IInv, DrainInv, PcInv, MarkCurrentWorkerAsBlocked
  <2> QED  BY <1>2, <2>1, ZenonT(20) DEF IInv, DrainInv
<1> QED  BY <1>4, <1>6, <1>7, <1>8, <1>9, Zenon DEF IInv

LEMMA UnBlockInv ==
  ASSUME IInv, NEW w \in Worker, MarkCurrentWorkerAsUnBlocked(w)
  PROVE  IInv'
<1>1. /\ TypeOK /\ PcInv /\ SizeInv
      /\ isBlocked[w] /\ isBlocked' = [isBlocked EXCEPT ![w] = FALSE]
      /\ maxPoolSize' = IF maxPoolSize > 0 THEN maxPoolSize - 1 ELSE 0
  BY DEF IInv, MarkCurrentWorkerAsUnBlocked, ShrinkPool
<1>2. /\ UNCHANGED <<pc, task, toJoin, waiting, idle, running, dead, tasks, shuttingDown,
                     allDead, spc, shutdownJoin, accepted, ran>>
      /\ UNCHANGED history
  BY DEF MarkCurrentWorkerAsUnBlocked, lists, shutdownVars, history
<1>3. /\ isBlocked' \in [Worker -> BOOLEAN]
      /\ \A v \in Worker : isBlocked'[v] => isBlocked[v]
  BY <1>1 DEF TypeOK
<1>4. PcInv' /\ NoStrandedTask'
  BY <1>2, <1>3 DEF IInv, PcInv, NoStrandedTask, Alive, TypeOK
<1>5. SizeInv' /\ maxPoolSize' \in Nat
  <2>1. Blocked' = Blocked \ {w} /\ w \in Blocked /\ Blocked \subseteq Worker
    BY <1>1 DEF Blocked, TypeOK
  <2>2. Cardinality(Blocked') = Cardinality(Blocked) - 1 /\ Cardinality(Blocked) \in Nat
        /\ Cardinality(Blocked') \in Nat
    BY <2>1, WorkerSet, Remove
  <2>3. maxPoolSize \in Nat /\ (maxPoolSize > 0 => maxPoolSize > Cardinality(Blocked))
    BY <1>1 DEF TypeOK, SizeInv
  <2>4. /\ maxPoolSize' \in Nat /\ (maxPoolSize' = 0 <=> maxPoolSize = 0)
        /\ maxPoolSize' > 0 => maxPoolSize' > Cardinality(Blocked')
    BY ONLY <1>1, <2>2, <2>3
  <2>5. Awake' = Awake
    BY <1>2, Zenon DEF Awake
  <2> QED  BY <1>1, <1>2, <2>4, <2>5 DEF SizeInv
<1>6. TypeOK'
  BY <1>1, <1>2, <1>3, <1>5, ZenonT(20) DEF TypeOK
<1>7. JoinInv' /\ OrderInv'
  BY <1>2, SameDead DEF IInv
<1>8. TaskInv'
  BY <1>2, SameTasks, Zenon DEF IInv
<1>9. DrainInv'
  BY <1>2 DEF IInv, DrainInv
<1> QED  BY <1>4, <1>5, <1>6, <1>7, <1>8, <1>9, Zenon DEF IInv

-----------------------------------------------------------------------------
(* The ends of waits. *)

LEMMA TimeoutInv ==
  ASSUME IInv, NEW w \in Worker, Timeout(w)
  PROVE  IInv'
<1>1. /\ UNCHANGED <<task, isBlocked, toJoin, idle, running, dead, tasks, maxPoolSize,
                     shuttingDown, allDead, spc, shutdownJoin, accepted, ran>>
      /\ UNCHANGED history /\ waiting' \subseteq waiting
  BY Zenon DEF Timeout, lists, shutdownVars, history
<1>2. /\ TypeOK /\ PcInv /\ w \in waiting /\ waiting' = waiting \ {w}
      /\ pc[w] \in {"wait", "idleWait"}
      /\ \E p \in {"timedOut", "idleTimedOut"} : pc' = [pc EXCEPT ![w] = p]
  BY ZenonT(20) DEF IInv, PcInv, Timeout
<1>3. TypeOK'
  BY <1>1, <1>2 DEF TypeOK, PCs
<1>4. PcInv'
  BY <1>1, <1>2 DEF TypeOK, PcInv, Idling
<1>5. SizeInv' /\ NoStrandedTask'
  BY <1>1, SameWork DEF IInv
<1>6. /\ \A v \in Worker : pc'[v] \in Dying <=> pc[v] \in Dying
      /\ \A v \in Worker : pc[v] \in {"notifyExit", "join"} => pc'[v] \in {"notifyExit", "join"}
  BY <1>2, Zenon DEF TypeOK, Dying
<1>7. JoinInv' /\ OrderInv'
  BY <1>1, <1>6, SameDead DEF IInv
<1>8. TaskInv'
  BY <1>1, SameTasks, Zenon DEF IInv
<1>9. DrainInv'
  <2>1. ~allDead
    BY <1>2 DEF IInv, DrainInv, PcInv, TypeOK, Idling
  <2> QED  BY <1>1, <2>1, ZenonT(20) DEF IInv, DrainInv
<1> QED  BY <1>3, <1>4, <1>5, <1>7, <1>8, <1>9, Zenon DEF IInv

LEMMA SpuriousWakeupInv ==
  ASSUME IInv, NEW w \in Worker, SpuriousWakeup(w)
  PROVE  IInv'
<1>1. /\ UNCHANGED <<pc, task, isBlocked, toJoin, idle, running, dead, tasks, maxPoolSize,
                     shuttingDown, allDead, spc, shutdownJoin, accepted, ran>>
      /\ UNCHANGED history /\ waiting' \subseteq waiting
  BY DEF SpuriousWakeup, lists, shutdownVars, history
<1>2. TypeOK' /\ PcInv'
  BY <1>1 DEF IInv, TypeOK, PcInv
<1>3. SizeInv' /\ NoStrandedTask'
  BY <1>1, SameWork DEF IInv
<1>4. JoinInv' /\ OrderInv'
  BY <1>1, SameDead DEF IInv
<1>5. TaskInv'
  BY <1>1, SameTasks DEF IInv
<1>6. DrainInv'
  BY <1>1 DEF IInv, DrainInv
<1> QED  BY <1>2, <1>3, <1>4, <1>5, <1>6 DEF IInv

-----------------------------------------------------------------------------
(* The death of workers, and Shutdown. *)

\* NotifyExit and WorkerExits: a dead worker moves on.
LEMMA DeadWorkerInv ==
  ASSUME IInv, NEW w \in Worker, NotifyExit(w) \/ WorkerExits(w)
  PROVE  IInv'
<1>1. /\ UNCHANGED <<task, isBlocked, toJoin, waiting, idle, running, dead, tasks,
                     maxPoolSize, shuttingDown, allDead, shutdownJoin, accepted, ran>>
      /\ UNCHANGED history
  BY DEF NotifyExit, WorkerExits, lists, shutdownVars, history
<1>2. /\ TypeOK /\ PcInv /\ JoinInv /\ DrainInv
      /\ pc[w] \in {"notifyExit", "join"}
      /\ \/ pc' = [pc EXCEPT ![w] = "join"]
         \/ pc' = [pc EXCEPT ![w] = "exited"] /\ toJoin[w] = {}
      /\ spc' = spc \/ (spc = "wait" /\ spc' = "check")
  BY DEF IInv, NotifyExit, WorkerExits, shutdownVars
<1>3. TypeOK'
  BY <1>1, <1>2 DEF TypeOK, PCs
<1>4. PcInv'
  BY <1>1, <1>2 DEF TypeOK, PcInv, Idling
<1>5. SizeInv' /\ NoStrandedTask'
  BY <1>1, SameWork DEF IInv
<1>6. /\ \A v \in Worker : pc'[v] \in Dying <=> pc[v] \in Dying
      /\ \A v \in Worker : pc[v] \in {"notifyExit", "join"} /\ toJoin[v] # {}
                             => pc'[v] \in {"notifyExit", "join"}
  BY <1>2, ZenonT(20) DEF TypeOK, Dying
<1>7. JoinInv' /\ OrderInv'
  BY <1>1, <1>6, SameDead DEF IInv
<1>8. TaskInv'
  BY <1>1, SameTasks, Zenon DEF IInv
<1>9. DrainInv'
  <2>1. spc # "returned"
    BY <1>2 DEF DrainInv
  <2>2. spc' # "returned"
    BY <1>2, <2>1, ZenonT(20)
  <2> QED  BY <1>1, <1>2, <2>1, <2>2 DEF DrainInv
<1> QED  BY <1>3, <1>4, <1>5, <1>7, <1>8, <1>9, ZenonT(20) DEF IInv

\* Worker v is joined by w, or by Shutdown, and deleted.
Joins(v) ==
  /\ pc[v] = "exited" /\ pc' = [pc EXCEPT ![v] = "none"]
  /\ \/ /\ shutdownJoin' = shutdownJoin
        /\ \E w \in Worker : v \in toJoin[w] /\ toJoin' = [toJoin EXCEPT ![w] = @ \ {v}]
     \/ toJoin' = toJoin /\ v \in shutdownJoin /\ shutdownJoin' = shutdownJoin \ {v}

LEMMA JoinsInv ==
  ASSUME TypeOK, JoinInv, OrderInv, NEW v \in Worker, Joins(v), dead' = dead
  PROVE  JoinInv' /\ OrderInv'
<1>1. /\ \A u \in Worker : toJoin'[u] = toJoin[u] \ {v}
      /\ shutdownJoin' = shutdownJoin \ {v} /\ v \notin dead
  <2>1. CASE shutdownJoin' = shutdownJoin
    <3>1. PICK w \in Worker : v \in toJoin[w] /\ toJoin' = [toJoin EXCEPT ![w] = @ \ {v}]
      BY <2>1 DEF Joins
    <3> QED  BY <2>1, <3>1 DEF JoinInv, TypeOK
  <2>2. CASE toJoin' = toJoin /\ v \in shutdownJoin /\ shutdownJoin' = shutdownJoin \ {v}
    BY <2>2 DEF JoinInv
  <2> QED  BY <2>1, <2>2 DEF Joins
<1>2. \A u \in Worker : pc'[u] \in Dying <=> u # v /\ pc[u] \in Dying
  BY DEF Joins, Dying, TypeOK
<1>3. toJoin[v] = {} /\ \A u \in Worker : u # v => pc'[u] = pc[u]
  BY Zenon DEF Joins, JoinInv, TypeOK
<1>4. \A x \in Worker : pc'[x] \in Dying <=>
        x \in dead' \/ x \in shutdownJoin' \/ \E u \in Worker : x \in toJoin'[u]
  BY <1>1, <1>2 DEF JoinInv
<1>5. /\ dead' \cap shutdownJoin' = {}
      /\ \A u \in Worker : toJoin'[u] \cap dead' = {} /\ toJoin'[u] \cap shutdownJoin' = {}
      /\ \A u, x \in Worker : u # x => toJoin'[u] \cap toJoin'[x] = {}
  BY <1>1, Zenon DEF JoinInv
<1>6. /\ \A u \in Worker : toJoin'[u] # {} => pc'[u] \in {"notifyExit", "join"}
      /\ \A u, x \in dead' : u = x
  BY <1>1, <1>3, Zenon DEF JoinInv
<1>7. OrderInv'
  BY <1>1, <1>2 DEF OrderInv
<1> QED  BY <1>4, <1>5, <1>6, <1>7 DEF JoinInv

LEMMA JoinDeadWorkersInv ==
  ASSUME IInv, NEW w \in Worker, JoinDeadWorkers(w)
  PROVE  IInv'
<1>1. /\ UNCHANGED <<task, isBlocked, waiting, idle, running, dead, tasks, maxPoolSize,
                     shuttingDown, allDead, spc, shutdownJoin, accepted, ran>>
      /\ UNCHANGED history
  BY DEF JoinDeadWorkers, lists, shutdownVars, history
<1>2. TypeOK /\ PcInv /\ JoinInv /\ DrainInv /\ pc[w] = "join"
  BY DEF IInv, JoinDeadWorkers
<1>3. PICK v \in Worker : /\ v \in toJoin[w] /\ pc[v] = "exited"
                          /\ pc' = [pc EXCEPT ![v] = "none"]
                          /\ toJoin' = [toJoin EXCEPT ![w] = @ \ {v}]
  BY <1>2, ZenonT(20) DEF JoinDeadWorkers, TypeOK
<1>4. TypeOK'
  BY <1>1, <1>2, <1>3, Zenon DEF TypeOK, PCs
<1>5. PcInv'
  BY <1>1, <1>2, <1>3 DEF TypeOK, PcInv, Idling
<1>6. SizeInv' /\ NoStrandedTask'
  BY <1>1, SameWork DEF IInv
<1>7. JoinInv' /\ OrderInv'
  BY <1>1, <1>3, JoinsInv, ZenonT(20) DEF IInv, Joins
<1>8. TaskInv'
  BY <1>1, SameTasks, Zenon DEF IInv
<1>9. DrainInv'
  BY <1>1, <1>2 DEF DrainInv
<1> QED  BY <1>4, <1>5, <1>6, <1>7, <1>8, <1>9 DEF IInv

LEMMA ShutdownInv ==
  ASSUME IInv, Shutdown
  PROVE  IInv'
<1>1. /\ UNCHANGED <<pc, task, isBlocked, toJoin, idle, running, dead, tasks, maxPoolSize,
                     shutdownJoin, accepted, ran>>
      /\ UNCHANGED history /\ shuttingDown' = TRUE /\ spc' = "check" /\ spc # "join"
  BY DEF Shutdown, lists, history
<1>2. waiting' \subseteq waiting /\ allDead' \in BOOLEAN
  BY Zenon DEF Shutdown, NotifyAll, IInv, TypeOK
<1>3. TypeOK' /\ PcInv'
  BY <1>1, <1>2 DEF IInv, TypeOK, PcInv
<1>4. SizeInv' /\ NoStrandedTask'
  BY <1>1, <1>2, SameWork DEF IInv
<1>5. JoinInv' /\ OrderInv'
  BY <1>1, SameDead DEF IInv
<1>6. TaskInv'
  BY <1>1, SameTasks DEF IInv
<1>7. DrainInv'
  <2>1. allDead' => idle = {} /\ running = {}
    BY Zenon DEF Shutdown, IInv, DrainInv
  <2>2. idle = {} /\ running = {} => tasks = <<>>
    BY DEF IInv, NoStrandedTask, Alive
  <2>3. shutdownJoin = {}
    BY <1>1 DEF IInv, DrainInv
  <2> QED  BY <1>1, <2>1, <2>2, <2>3 DEF DrainInv
<1> QED  BY <1>3, <1>4, <1>5, <1>6, <1>7 DEF IInv

\* The loop of Shutdown under exit_monitor_.
LEMMA ExitMonitorInv ==
  ASSUME IInv, WaitForWorkers \/ ExitMonitorWakesSpuriously
  PROVE  IInv'
<1>1. /\ UNCHANGED <<pc, task, isBlocked, toJoin, waiting, idle, running, dead, tasks,
                     maxPoolSize, shuttingDown, allDead, shutdownJoin, accepted, ran>>
      /\ UNCHANGED history /\ waiting' \subseteq waiting
  BY DEF WaitForWorkers, ExitMonitorWakesSpuriously, lists, history
<1>2. /\ spc \in {"check", "wait"} /\ spc' \in {"check", "wait", "obtain"}
      /\ spc' = "obtain" => allDead
  BY DEF WaitForWorkers, ExitMonitorWakesSpuriously
<1>3. TypeOK' /\ PcInv'
  BY <1>1, <1>2 DEF IInv, TypeOK, PcInv
<1>4. SizeInv' /\ NoStrandedTask'
  BY <1>1, SameWork DEF IInv
<1>5. JoinInv' /\ OrderInv'
  BY <1>1, SameDead DEF IInv
<1>6. TaskInv'
  BY <1>1, SameTasks DEF IInv
<1>7. DrainInv'
  BY <1>1, <1>2 DEF IInv, DrainInv
<1> QED  BY <1>3, <1>4, <1>5, <1>6, <1>7 DEF IInv

LEMMA ObtainDeadWorkersInv ==
  ASSUME IInv, ObtainDeadWorkers
  PROVE  IInv'
<1>1. /\ UNCHANGED <<pc, task, isBlocked, toJoin, waiting, idle, running, tasks,
                     maxPoolSize, shuttingDown, allDead, accepted, ran>>
      /\ UNCHANGED history /\ waiting' \subseteq waiting
      /\ spc = "obtain" /\ spc' = "join" /\ shutdownJoin' = dead /\ dead' = {}
  BY Zenon DEF ObtainDeadWorkers, history
<1>2. TypeOK' /\ PcInv'
  BY <1>1 DEF IInv, TypeOK, PcInv
<1>3. SizeInv' /\ NoStrandedTask'
  BY <1>1, SameWork, Zenon DEF IInv
<1>4. JoinInv'
  <2>1. JoinInv /\ shutdownJoin = {}
    BY <1>1 DEF IInv, DrainInv
  <2> QED  BY <1>1, <2>1 DEF JoinInv
<1>5. OrderInv'
  BY <1>1 DEF IInv, OrderInv
<1>6. TaskInv'
  BY <1>1, SameTasks DEF IInv
<1>7. DrainInv'
  BY <1>1 DEF IInv, DrainInv
<1> QED  BY <1>2, <1>3, <1>4, <1>5, <1>6, <1>7 DEF IInv

LEMMA ShutdownJoinsInv ==
  ASSUME IInv, ShutdownJoins
  PROVE  IInv'
<1>1. /\ UNCHANGED <<task, isBlocked, toJoin, waiting, idle, running, dead, tasks,
                     maxPoolSize, shuttingDown, allDead, accepted, ran>>
      /\ UNCHANGED history /\ waiting' \subseteq waiting
  BY DEF ShutdownJoins, lists, history
<1>2. /\ TypeOK /\ PcInv /\ JoinInv /\ OrderInv /\ DrainInv /\ spc = "join"
      /\ allDead /\ dead = {} /\ idle = {} /\ running = {} /\ tasks = <<>>
  BY DEF IInv, DrainInv, ShutdownJoins
<1>3. SizeInv' /\ NoStrandedTask'
  BY <1>1, SameWork DEF IInv
<1>4. TaskInv'
  BY <1>1, SameTasks DEF IInv
<1>5. ASSUME NEW v \in shutdownJoin, pc[v] = "exited", pc' = [pc EXCEPT ![v] = "none"],
             shutdownJoin' = shutdownJoin \ {v}, spc' = spc
      PROVE  TypeOK' /\ PcInv' /\ JoinInv' /\ OrderInv' /\ DrainInv'
  <2>1. v \in Worker
    BY <1>2, Zenon DEF TypeOK
  <2>2. TypeOK'
    BY <1>1, <1>2, <1>5, <2>1, ZenonT(30) DEF TypeOK, PCs
  <2>3. PcInv'
    BY <1>1, <1>2, <1>5, <2>1 DEF TypeOK, PcInv, Idling
  <2>4. JoinInv' /\ OrderInv'
    BY <1>1, <1>2, <1>5, <2>1, JoinsInv, ZenonT(20) DEF Joins
  <2>5. DrainInv'
    BY <1>1, <1>2, <1>5 DEF DrainInv
  <2> QED  BY <2>2, <2>3, <2>4, <2>5
<1>6. CASE shutdownJoin = {} /\ spc' = "returned" /\ UNCHANGED <<pc, shutdownJoin>>
  <2>1. TypeOK' /\ PcInv'
    BY <1>1, <1>2, <1>6, ZenonT(30) DEF TypeOK, PcInv
  <2>2. JoinInv' /\ OrderInv'
    BY <1>1, <1>2, <1>6, SameDead
  <2>3. \A w \in Worker : pc[w] \notin Dying
    <3> DEFINE S == {w \in Worker : pc[w] \in Dying}
    <3>1. SUFFICES ASSUME S # {}  PROVE FALSE
      OBVIOUS
    <3>2. S \in SUBSET Worker /\ \A w \in S : pc[w] \in Dying
      OBVIOUS
    <3>3. PICK v \in S : \A w \in S : v \notin toJoin[w]
      BY <1>2, <3>1, <3>2, ZenonT(20) DEF OrderInv
    <3>4. PICK w \in Worker : v \in toJoin[w]
      BY <1>2, <1>6, Zenon DEF JoinInv
    <3>5. w \in S
      BY <1>2, <3>4, Zenon DEF JoinInv, Dying
    <3> QED  BY <3>3, <3>4, <3>5
  <2>4. \A w \in Worker : pc[w] = "none"
    BY <1>2, <2>3, Zenon DEF TypeOK, PcInv, PCs, Idling, Dying
  <2>5. DrainInv'
    BY <1>1, <1>2, <1>6, <2>4, Zenon DEF DrainInv
  <2> QED  BY <1>3, <1>4, <2>1, <2>2, <2>5, Zenon DEF IInv
<1> QED  BY <1>3, <1>4, <1>5, <1>6 DEF IInv, ShutdownJoins

-----------------------------------------------------------------------------
(* The theorems. *)

LEMMA NextInv ==
  ASSUME IInv, [Next]_vars
  PROVE  IInv'
<1>1. CASE UNCHANGED vars
  <2>1. /\ UNCHANGED <<pc, task, isBlocked, toJoin, waiting, idle, running, dead, tasks,
                       maxPoolSize, shuttingDown, allDead, spc, shutdownJoin, accepted, ran>>
        /\ UNCHANGED history /\ waiting' \subseteq waiting
    BY <1>1, Zenon DEF vars, lists, shutdownVars, history
  <2>2. TypeOK' /\ PcInv' /\ DrainInv'
    BY <2>1, ZenonT(20) DEF IInv, TypeOK, PcInv, DrainInv
  <2>3. SizeInv' /\ NoStrandedTask' /\ TaskInv' /\ JoinInv' /\ OrderInv'
    BY <2>1, SameWork, SameTasks, SameDead, Zenon DEF IInv
  <2> QED  BY <2>2, <2>3 DEF IInv
<1>2. ASSUME NEW t \in Task, RunImpl(t)  PROVE IInv'
  BY <1>2, RunImplInv
<1>3. ASSUME NEW w \in Worker,
             \/ WorkerLoop(w) \/ TaskDone(w) \/ IdleWaitReturns(w)
             \/ NotifyIdleReturns(w) \/ WaitReturns(w)
      PROVE  IInv'
  BY <1>3, LoopInv
<1>4. ASSUME NEW w \in Worker,
             NotifyExit(w) \/ JoinDeadWorkers(w) \/ WorkerExits(w)
      PROVE  IInv'
  BY <1>4, DeadWorkerInv, JoinDeadWorkersInv
<1>5. ASSUME NEW w \in Worker,
             \/ Timeout(w) \/ SpuriousWakeup(w)
             \/ MarkCurrentWorkerAsBlocked(w) \/ MarkCurrentWorkerAsUnBlocked(w)
      PROVE  IInv'
  BY <1>5, TimeoutInv, SpuriousWakeupInv, BlockInv, UnBlockInv
<1>6. CASE \/ Shutdown \/ WaitForWorkers \/ ExitMonitorWakesSpuriously
           \/ ObtainDeadWorkers \/ ShutdownJoins
  BY <1>6, ShutdownInv, ExitMonitorInv, ObtainDeadWorkersInv, ShutdownJoinsInv
<1> QED  BY <1>1, <1>2, <1>3, <1>4, <1>5, <1>6, Zenon DEF Next

(***************************************************************************)
(* The invariant of the thread pool.                                       *)
(***************************************************************************)
THEOREM Invariance == Spec => []IInv
<1>1. IInv /\ [Next]_vars => IInv'
  BY NextInv
<1> QED  BY <1>1, InitInv, PTL DEF Spec

(***************************************************************************)
(* Type correctness: in particular max_pool_size_ is never negative.       *)
(***************************************************************************)
THEOREM TypeCorrect == Spec => []TypeOK
<1>1. IInv => TypeOK
  BY DEF IInv
<1> QED  BY <1>1, Invariance, PTL

(***************************************************************************)
(* No task that RunImpl accepted is lost or run twice.                     *)
(***************************************************************************)
THEOREM TasksAreNeverLost == Spec => []EachTaskIsInOnePlace
<1>1. IInv => EachTaskIsInOnePlace
  BY DEF IInv, TaskInv
<1> QED  BY <1>1, Invariance, PTL

(***************************************************************************)
(* While a task is pending, a worker that is neither asleep nor blocked is *)
(* there to take it.                                                       *)
(***************************************************************************)
THEOREM NoTaskIsEverStranded == Spec => []NoStrandedTask
<1>1. IInv => NoStrandedTask
  BY DEF IInv
<1> QED  BY <1>1, Invariance, PTL

(***************************************************************************)
(* A pool without a maximum size has an idle worker, awake, for each       *)
(* pending task.                                                           *)
(***************************************************************************)
THEOREM EveryTaskHasAWorker == Spec => []WorkerPerPendingTask
<1>1. IInv => WorkerPerPendingTask
  BY DEF IInv, SizeInv, WorkerPerPendingTask, Awake
<1> QED  BY <1>1, Invariance, PTL

(***************************************************************************)
(* Every worker that has died is joined by exactly one thread.             *)
(***************************************************************************)
THEOREM DeadAreJoinedByOne == Spec => []JoinedByOne
<1>1. IInv => JoinedByOne
  <2> SUFFICES ASSUME IInv  PROVE JoinedByOne
    OBVIOUS
  <2>1. TypeOK /\ JoinInv
    BY DEF IInv
  <2>2. Cardinality(dead) <= 1
    <3>1. CASE dead = {}
      BY <3>1, FS_EmptySet
    <3>2. ASSUME NEW x \in dead
          PROVE  Cardinality(dead) <= 1
      <4>1. dead = {x}
        BY <2>1 DEF JoinInv
      <4>2. Cardinality({x}) = 1
        BY FS_Singleton, Zenon
      <4> QED  BY <4>1, <4>2
    <3> QED  BY <3>1, <3>2
  <2>3. ASSUME NEW v \in Worker
        PROVE  LET joiners == {w \in Worker : v \in toJoin[w]}
                   places  == Cardinality(joiners) + (IF v \in dead THEN 1 ELSE 0)
                              + (IF v \in shutdownJoin THEN 1 ELSE 0)
               IN  places = IF pc[v] \in {"notifyExit", "join", "exited"} THEN 1 ELSE 0
    <3> DEFINE joiners == {w \in Worker : v \in toJoin[w]}
    <3>1. pc[v] \in {"notifyExit", "join", "exited"} <=>
            v \in dead \/ v \in shutdownJoin \/ joiners # {}
      BY <2>1 DEF JoinInv, Dying
    <3>2. v \in dead => v \notin shutdownJoin
      BY <2>1 DEF JoinInv
    <3>3. joiners # {} => v \notin dead /\ v \notin shutdownJoin
      BY <2>1 DEF JoinInv
    <3>4. joiners = {} => Cardinality(joiners) = 0
      BY FS_EmptySet
    <3>5. joiners # {} => Cardinality(joiners) = 1
      <4>1. SUFFICES ASSUME NEW u \in joiners
                     PROVE  Cardinality(joiners) = 1
        OBVIOUS
      <4>2. joiners = {u}
        BY <2>1 DEF JoinInv
      <4>3. Cardinality({u}) = 1
        BY FS_Singleton, Zenon
      <4> QED  BY <4>2, <4>3
    <3> HIDE DEF joiners
    <3>6. Cardinality(joiners) + (IF v \in dead THEN 1 ELSE 0)
            + (IF v \in shutdownJoin THEN 1 ELSE 0)
            = IF pc[v] \in {"notifyExit", "join", "exited"} THEN 1 ELSE 0
      BY <3>1, <3>2, <3>3, <3>4, <3>5
    <3> QED  BY <3>6 DEF joiners
  <2> QED  BY <2>2, <2>3 DEF JoinedByOne
<1> QED  BY <1>1, Invariance, PTL

(***************************************************************************)
(* When Shutdown has waited, every accepted task has run and no worker is  *)
(* left in the lists; when it has returned, no worker thread is left.      *)
(***************************************************************************)
THEOREM ShutdownAlwaysDrains == Spec => []ShutdownDrains
<1>1. IInv => ShutdownDrains
  <2> SUFFICES ASSUME IInv  PROVE ShutdownDrains
    OBVIOUS
  <2>1. ASSUME idle = {}, running = {}, tasks = <<>>
        PROVE  ran = accepted
    <3>1. Pending = {} /\ {task[w] : w \in running} = {}
      BY <2>1 DEF Pending
    <3> QED  BY <3>1 DEF IInv, TaskInv, EachTaskIsInOnePlace
  <2> QED  BY <2>1, Zenon DEF IInv, DrainInv, ShutdownDrains
<1> QED  BY <1>1, Invariance, PTL
=============================================================================
