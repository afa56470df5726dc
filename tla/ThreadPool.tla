----------------------------- MODULE ThreadPool -----------------------------
(***************************************************************************)
(* A thread pool of the VM: tasks are queued, workers are started, fall    *)
(* idle, time out and join one another, and Shutdown drains the queue and  *)
(* waits for the last worker.                                              *)
(*                                                                         *)
(* Sources: runtime/vm/thread_pool.{h,cc}, and OnEnterIdleLocked of the    *)
(* isolate groups' MutatorThreadPool in runtime/vm/isolate.cc.             *)
(*                                                                         *)
(* Grain.  A step is a critical section of pool_monitor_ or exit_monitor_. *)
(* The one that nests them, the death of the last worker, is two steps, pc *)
(* "notifyExit" between them.  The count_*_ fields change together with    *)
(* their lists and are not modelled apart from them.                       *)
(***************************************************************************)
EXTENDS Integers, Sequences, FiniteSets

CONSTANTS
  Worker,        \* bound: the Worker objects; a deleted one is used again
  Task,          \* bound: the tasks given to RunImpl
  MaxPoolSizes   \* the values of max_pool_size_ to start from; 0: no limit

ASSUME PoolConstants == MaxPoolSizes \subseteq Nat /\ IsFiniteSet(Worker)

VARIABLES
  pc,            \* where each worker is; see PCs
  task,          \* the task a worker runs
  isBlocked,     \* Worker::is_blocked_
  toJoin,        \* dead_workers_to_join of each worker
  waiting,       \* workers inside WaitMicros that nobody has notified
  idle, running, dead,  \* idle_workers_, running_workers_, dead_workers_
  tasks,         \* tasks_
  maxPoolSize,   \* max_pool_size_
  shuttingDown,  \* shutting_down_
  allDead,       \* all_workers_dead_
  spc,           \* where Shutdown is
  shutdownJoin,  \* dead_workers_to_join of Shutdown
  accepted, ran  \* history: the tasks RunImpl took, and those that have run

lists == <<idle, running, dead>>
shutdownVars == <<shuttingDown, allDead, spc, shutdownJoin>>
history == <<accepted, ran>>
vars == <<pc, task, isBlocked, toJoin, waiting, lists, tasks, maxPoolSize,
          shutdownVars, history>>

NoTask == "none"

(***************************************************************************)
(* "none": no such worker.  "loop": at the top of WorkerLoop, or not yet   *)
(* there.  "run": inside Task::Run.  "idleWait", "notifyIdle": inside      *)
(* OnEnterIdleLocked.  "wait": inside the sleep of WorkerLoop.             *)
(* "idleTimedOut", "timedOut": such a wait has timed out and pool_monitor_ *)
(* is not yet entered again.  "notifyExit": holds pool_monitor_ and is     *)
(* about to notify Shutdown.  "join": joins other workers.  "exited": the  *)
(* thread has ended.                                                       *)
(***************************************************************************)
PCs == {"none", "loop", "run", "idleWait", "idleTimedOut", "notifyIdle",
        "wait", "timedOut", "notifyExit", "join", "exited"}

PoolFree == \A w \in Worker : pc[w] # "notifyExit"

TypeOK ==
  /\ pc \in [Worker -> PCs]
  /\ task \in [Worker -> Task \cup {NoTask}]
  /\ isBlocked \in [Worker -> BOOLEAN]
  /\ toJoin \in [Worker -> SUBSET Worker]
  /\ waiting \subseteq Worker
  /\ idle \subseteq Worker /\ running \subseteq Worker /\ dead \subseteq Worker
  /\ tasks \in Seq(Task)
  /\ maxPoolSize \in Nat
  /\ shuttingDown \in BOOLEAN /\ allDead \in BOOLEAN
  /\ spc \in {"none", "check", "wait", "obtain", "join", "returned"}
  /\ shutdownJoin \subseteq Worker
  /\ accepted \subseteq Task /\ ran \subseteq Task

Init ==
  /\ pc = [w \in Worker |-> "none"]
  /\ task = [w \in Worker |-> NoTask]
  /\ isBlocked = [w \in Worker |-> FALSE]
  /\ toJoin = [w \in Worker |-> {}]
  /\ waiting = {}
  /\ idle = {} /\ running = {} /\ dead = {}
  /\ tasks = <<>>
  /\ maxPoolSize \in MaxPoolSizes
  /\ shuttingDown = FALSE /\ allDead = FALSE
  /\ spc = "none"
  /\ shutdownJoin = {}
  /\ accepted = {} /\ ran = {}

-----------------------------------------------------------------------------
(* Scheduling. *)

Notify == \/ \E w \in waiting : waiting' = waiting \ {w}
          \/ waiting = {} /\ UNCHANGED waiting

\* new Worker, appended to idle_workers_.  Its thread is started after
\* pool_monitor_ has been left, which is the same as starting late.
NewWorker ==
  \E w \in Worker :
    /\ pc[w] = "none"
    /\ pc' = [pc EXCEPT ![w] = "loop"]
    /\ idle' = idle \cup {w}
    /\ UNCHANGED waiting

NotifyIfAnyIsIdle(n) ==
  \/ idle # {} /\ Notify /\ UNCHANGED <<pc, idle>>
  \/ idle = {} /\ NewWorker

\* Wake one of the idle workers if there is one for each of the n pending
\* tasks or the pool has its maximum size, else start another.
WakeOrStartWorker(n) ==
  LET full == maxPoolSize > 0 /\ Cardinality(idle) + Cardinality(running) >= maxPoolSize
  IN  \/ (Cardinality(idle) >= n \/ (full /\ idle # {})) /\ Notify /\ UNCHANGED <<pc, idle>>
      \/ Cardinality(idle) < n /\ full /\ idle = {} /\ UNCHANGED <<pc, idle, waiting>>
      \/ Cardinality(idle) < n /\ ~full /\ NewWorker

ScheduleTaskLocked(t) ==
  /\ tasks' = Append(tasks, t)
  /\ WakeOrStartWorker(Len(tasks) + 1)

RunImpl(t) ==
  /\ PoolFree /\ t \notin accepted
  /\ ~shuttingDown
  /\ accepted' = accepted \cup {t}
  /\ ScheduleTaskLocked(t)
  /\ UNCHANGED <<task, isBlocked, toJoin, running, dead, maxPoolSize,
                 shutdownVars, ran>>

MarkCurrentWorkerAsBlocked(w) ==
  /\ PoolFree /\ pc[w] = "run" /\ ~isBlocked[w]
  /\ isBlocked' = [isBlocked EXCEPT ![w] = TRUE]
  /\ maxPoolSize' = IF maxPoolSize > 0 THEN maxPoolSize + 1 ELSE 0
  /\ IF maxPoolSize > 0 /\ idle = {} /\ tasks # <<>> THEN NewWorker
     ELSE UNCHANGED <<pc, idle, waiting>>
  /\ UNCHANGED <<task, toJoin, running, dead, tasks, shutdownVars, history>>

ShrinkEvenIfUnlimited == maxPoolSize - 1

ShrinkPool == IF maxPoolSize > 0 THEN maxPoolSize - 1 ELSE 0

MarkCurrentWorkerAsUnBlocked(w) ==
  /\ PoolFree /\ pc[w] = "run" /\ isBlocked[w]
  /\ isBlocked' = [isBlocked EXCEPT ![w] = FALSE]
  /\ maxPoolSize' = ShrinkPool
  /\ UNCHANGED <<pc, task, toJoin, waiting, lists, tasks, shutdownVars, history>>

-----------------------------------------------------------------------------
(* WorkerLoop. *)

DeadNotCleared(w) == dead \cup {w}

\* dead_workers_ after ObtainDeadWorkersLocked and IdleToDeadLocked.
DeadAfter(w) == {w}

NobodyRuns(r, i) == r = {}

\* The last worker has died.
NobodyLeft(r, i) == r = {} /\ i = {}

\* ObtainDeadWorkersLocked and IdleToDeadLocked; r and i are the lists before.
Die(w, r, i) ==
  /\ toJoin' = [toJoin EXCEPT ![w] = dead]
  /\ dead' = DeadAfter(w)
  /\ running' = r /\ idle' = i \ {w}
  /\ IF shuttingDown /\ NobodyLeft(r, i \ {w})
     THEN allDead' = TRUE /\ pc' = [pc EXCEPT ![w] = "notifyExit"]
     ELSE UNCHANGED allDead /\ pc' = [pc EXCEPT ![w] = "join"]
  /\ waiting' = waiting \ {w}

Sleep(w, p, r, i) ==
  /\ pc' = [pc EXCEPT ![w] = p]
  /\ waiting' = waiting \cup {w}
  /\ running' = r /\ idle' = i
  /\ UNCHANGED <<toJoin, dead, allDead>>

GoTo(w, p, r, i) ==
  /\ pc' = [pc EXCEPT ![w] = p]
  /\ running' = r /\ idle' = i
  /\ UNCHANGED <<toJoin, dead, allDead, waiting>>

\* From the return of OnEnterIdleLocked to the sleep.
AfterIdle(w, r, i) ==
  \/ tasks # <<>> /\ GoTo(w, "loop", r, i)
  \/ tasks = <<>> /\ shuttingDown /\ Die(w, r, i)
  \/ tasks = <<>> /\ ~shuttingDown /\ Sleep(w, "wait", r, i)

\* The queue is empty.  The last worker to fall idle calls OnEnterIdleLocked,
\* which returns at once, or notifies the idle time handler with the monitor
\* left, or waits for the idle time to expire.
EnterIdle(w, r, i) ==
  \/ AfterIdle(w, r, i)
  \/ r = {} /\ GoTo(w, "notifyIdle", r, i)
  \/ r = {} /\ ~shuttingDown /\ Sleep(w, "idleWait", r, i)

loopUnchanged == <<isBlocked, maxPoolSize, shuttingDown, spc, shutdownJoin, accepted>>

RunFirstAndKeepIt(w) ==
  /\ task' = [task EXCEPT ![w] = Head(tasks)]
  /\ UNCHANGED tasks
  /\ GoTo(w, "run", running \cup {w}, idle \ {w})

\* IdleToRunningLocked, unless already running, and the next task.
RunFirst(w) ==
  /\ task' = [task EXCEPT ![w] = Head(tasks)]
  /\ tasks' = Tail(tasks)
  /\ GoTo(w, "run", running \cup {w}, idle \ {w})

\* The top of the loop, and the first task.
WorkerLoop(w) ==
  /\ PoolFree /\ pc[w] = "loop"
  /\ \/ tasks # <<>> /\ RunFirst(w)
     \/ tasks = <<>> /\ EnterIdle(w, running, idle) /\ UNCHANGED <<task, tasks>>
  /\ UNCHANGED <<loopUnchanged, ran>>

\* Task::Run has returned: the next task, or RunningToIdleLocked.
TaskDone(w) ==
  /\ PoolFree /\ pc[w] = "run" /\ ~isBlocked[w]
  /\ ran' = ran \cup {task[w]}
  /\ \/ tasks # <<>> /\ RunFirst(w)
     \/ /\ tasks = <<>> /\ EnterIdle(w, running \ {w}, idle \cup {w})
        /\ task' = [task EXCEPT ![w] = NoTask] /\ UNCHANGED tasks
  /\ UNCHANGED loopUnchanged

\* The waits return: notified or spuriously, or timed out.
Timeout(w) ==
  /\ w \in waiting
  /\ waiting' = waiting \ {w}
  /\ pc' = [pc EXCEPT ![w] = IF pc[w] = "wait" THEN "timedOut" ELSE "idleTimedOut"]
  /\ UNCHANGED <<task, isBlocked, toJoin, lists, tasks, maxPoolSize,
                 shutdownVars, history>>

SpuriousWakeup(w) ==
  /\ w \in waiting
  /\ waiting' = waiting \ {w}
  /\ UNCHANGED <<pc, task, isBlocked, toJoin, lists, tasks, maxPoolSize,
                 shutdownVars, history>>

\* The rest of OnEnterIdleLocked after its wait.
IdleWaitReturns(w) ==
  /\ PoolFree /\ pc[w] \in {"idleWait", "idleTimedOut"} /\ w \notin waiting
  /\ \/ AfterIdle(w, running, idle)
     \/ /\ tasks = <<>> /\ ~shuttingDown /\ pc[w] = "idleTimedOut"
        /\ GoTo(w, "notifyIdle", running, idle)
  /\ UNCHANGED <<loopUnchanged, task, tasks, ran>>

NotifyIdleReturns(w) ==
  /\ PoolFree /\ pc[w] = "notifyIdle"
  /\ AfterIdle(w, running, idle)
  /\ UNCHANGED <<loopUnchanged, task, tasks, ran>>

DoneWhateverIsPending(w) == shuttingDown \/ pc[w] = "timedOut"

\* The worker gives up: it found no task, and was told to, or timed out.
Done(w) == tasks = <<>> /\ (shuttingDown \/ pc[w] = "timedOut")

WaitReturns(w) ==
  /\ PoolFree /\ pc[w] \in {"wait", "timedOut"} /\ w \notin waiting
  /\ \/ Done(w) /\ Die(w, running, idle)
     \/ ~Done(w) /\ tasks # <<>> /\ GoTo(w, "loop", running, idle)
     \/ ~Done(w) /\ tasks = <<>> /\ Sleep(w, "wait", running, idle)
  /\ UNCHANGED <<loopUnchanged, task, tasks, ran>>

\* The end of IdleToDeadLocked, when the last worker dies.
NotifyExit(w) ==
  /\ pc[w] = "notifyExit"
  /\ pc' = [pc EXCEPT ![w] = "join"]
  /\ spc' = IF spc = "wait" THEN "check" ELSE spc
  /\ UNCHANGED <<task, isBlocked, toJoin, waiting, lists, tasks, maxPoolSize,
                 shuttingDown, allDead, shutdownJoin, history>>

\* OSThread::Join returns when the thread has ended; the Worker is deleted.
JoinDeadWorkers(w) ==
  /\ pc[w] = "join"
  /\ \E v \in toJoin[w] :
       /\ pc[v] = "exited"
       /\ pc' = [pc EXCEPT ![v] = "none"]
       /\ toJoin' = [toJoin EXCEPT ![w] = @ \ {v}]
  /\ UNCHANGED <<task, isBlocked, waiting, lists, tasks, maxPoolSize,
                 shutdownVars, history>>

WorkerExits(w) ==
  /\ pc[w] = "join" /\ toJoin[w] = {}
  /\ pc' = [pc EXCEPT ![w] = "exited"]
  /\ UNCHANGED <<task, isBlocked, toJoin, waiting, lists, tasks, maxPoolSize,
                 shutdownVars, history>>

-----------------------------------------------------------------------------
(* Shutdown. *)

NotifyOne == Notify

NotifyAll == waiting' = {}

\* Called by the owner, and once more by the destructor.
Shutdown ==
  /\ PoolFree /\ spc \in {"none", "returned"}
  /\ shuttingDown' = TRUE
  /\ spc' = "check"
  /\ IF running = {} /\ idle = {} THEN allDead' = TRUE /\ UNCHANGED waiting
     ELSE NotifyAll /\ UNCHANGED allDead
  /\ UNCHANGED <<pc, task, isBlocked, toJoin, lists, tasks, maxPoolSize,
                 shutdownJoin, history>>

\* The loop under exit_monitor_.
WaitForWorkers ==
  /\ spc = "check"
  /\ spc' = IF allDead THEN "obtain" ELSE "wait"
  /\ UNCHANGED <<pc, task, isBlocked, toJoin, waiting, lists, tasks,
                 maxPoolSize, shuttingDown, allDead, shutdownJoin, history>>

ExitMonitorWakesSpuriously ==
  /\ spc = "wait"
  /\ spc' = "check"
  /\ UNCHANGED <<pc, task, isBlocked, toJoin, waiting, lists, tasks,
                 maxPoolSize, shuttingDown, allDead, shutdownJoin, history>>

ObtainDeadWorkers ==
  /\ PoolFree /\ spc = "obtain"
  /\ spc' = "join"
  /\ shutdownJoin' = dead
  /\ dead' = {}
  /\ UNCHANGED <<pc, task, isBlocked, toJoin, waiting, idle, running, tasks,
                 maxPoolSize, shuttingDown, allDead, history>>

ShutdownJoins ==
  /\ spc = "join"
  /\ \/ \E v \in shutdownJoin :
          /\ pc[v] = "exited"
          /\ pc' = [pc EXCEPT ![v] = "none"]
          /\ shutdownJoin' = shutdownJoin \ {v}
          /\ UNCHANGED spc
     \/ shutdownJoin = {} /\ spc' = "returned" /\ UNCHANGED <<pc, shutdownJoin>>
  /\ UNCHANGED <<task, isBlocked, toJoin, waiting, lists, tasks, maxPoolSize,
                 shuttingDown, allDead, history>>

WorkerStep(w) ==
  \/ WorkerLoop(w) \/ TaskDone(w) \/ IdleWaitReturns(w)
  \/ NotifyIdleReturns(w) \/ WaitReturns(w) \/ NotifyExit(w)
  \/ JoinDeadWorkers(w) \/ WorkerExits(w)

ShutdownStep == WaitForWorkers \/ ObtainDeadWorkers \/ ShutdownJoins

Next ==
  \/ \E t \in Task : RunImpl(t)
  \/ \E w \in Worker :
       \/ WorkerLoop(w) \/ TaskDone(w) \/ IdleWaitReturns(w)
       \/ NotifyIdleReturns(w) \/ WaitReturns(w) \/ NotifyExit(w)
       \/ JoinDeadWorkers(w) \/ WorkerExits(w)
       \/ Timeout(w) \/ SpuriousWakeup(w)
       \/ MarkCurrentWorkerAsBlocked(w) \/ MarkCurrentWorkerAsUnBlocked(w)
  \/ Shutdown \/ WaitForWorkers \/ ExitMonitorWakesSpuriously
  \/ ObtainDeadWorkers \/ ShutdownJoins

Spec == Init /\ [][Next]_vars

-----------------------------------------------------------------------------
(* Safety. *)

Pending == {tasks[k] : k \in 1 .. Len(tasks)}
Alive == idle \cup running

(***************************************************************************)
(* No accepted task is lost and none is run twice: a task RunImpl took is  *)
(* queued once, or in the hands of one worker, or has run.                 *)
(***************************************************************************)
EachTaskIsInOnePlace ==
  /\ accepted = Pending \cup {task[w] : w \in running} \cup ran
  /\ Cardinality(accepted) = Len(tasks) + Cardinality(running) + Cardinality(ran)

(***************************************************************************)
(* A pending task is never stranded: while tasks_ is not empty there is a  *)
(* live worker that is neither asleep nor blocked, whatever notifications  *)
(* timeouts and MarkCurrentWorkerAsBlocked have raced for.                 *)
(***************************************************************************)
NoStrandedTask ==
  tasks # <<>> => \E w \in Alive : w \notin waiting /\ ~isBlocked[w]

(***************************************************************************)
(* A pool without a maximum size has one wakeful idle worker for each      *)
(* pending task: no task waits for another task to end.                    *)
(***************************************************************************)
WorkerPerPendingTask ==
  maxPoolSize = 0 => Cardinality(idle \ waiting) >= Len(tasks)

(***************************************************************************)
(* A worker that died is to be joined by exactly one thread: it is in      *)
(* dead_workers_ or in one dead_workers_to_join list, and nothing else is. *)
(* Joining twice would use a deleted Worker, joining never would leak it.  *)
(* As every death joins the workers that died before, at most one is ever  *)
(* left in dead_workers_, as a comment in WorkerLoop has it.               *)
(***************************************************************************)
JoinedByOne ==
  /\ \A v \in Worker :
       LET joiners == {w \in Worker : v \in toJoin[w]}
           places  == Cardinality(joiners) + (IF v \in dead THEN 1 ELSE 0)
                      + (IF v \in shutdownJoin THEN 1 ELSE 0)
       IN  places = IF pc[v] \in {"notifyExit", "join", "exited"} THEN 1 ELSE 0
  /\ Cardinality(dead) <= 1

(***************************************************************************)
(* The assertions in Shutdown after its wait: no worker is idle or running *)
(* any more; every task that was ever accepted has run by then; and when   *)
(* it has returned, and the pool may be deleted, no worker thread is left  *)
(* that could touch it.                                                    *)
(***************************************************************************)
ShutdownDrains ==
  /\ spc \in {"obtain", "join", "returned"} =>
       idle = {} /\ running = {} /\ tasks = <<>> /\ ran = accepted
  /\ spc = "returned" => dead = {} /\ \A w \in Worker : pc[w] = "none"

-----------------------------------------------------------------------------
(* Liveness. *)

\* Threads are scheduled and unblocked tasks end.  Nobody need call RunImpl or
\* Shutdown, no timeout need expire, and a blocked worker may stay blocked.
FairWorkers ==
  /\ Spec
  /\ \A w \in Worker : WF_vars(WorkerStep(w))

\* Blocked workers are unblocked, tasks end, and so does Shutdown.
TasksEnd ==
  /\ \A w \in Worker : SF_vars(TaskDone(w)) /\ WF_vars(MarkCurrentWorkerAsUnBlocked(w))
  /\ WF_vars(ShutdownStep)

(***************************************************************************)
(* Every accepted task is started, even if every worker that marked itself *)
(* blocked stays so: this is what MarkCurrentWorkerAsBlocked is for.       *)
(***************************************************************************)
TaskIsStarted == \A t \in Task : t \in Pending ~> t \notin Pending

(***************************************************************************)
(* Shutdown returns once every task ends.                                  *)
(***************************************************************************)
ShutdownReturns == TasksEnd => (spc = "check" ~> spc = "returned")
=============================================================================
