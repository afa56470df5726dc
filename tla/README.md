# Verification of the Dart VM's concurrent core

TLA+ modules for the parts of the Dart SDK in which threads cooperate, with the
TLC configurations that check them on small instances and TLAPS proofs for
every instance. Source paths are relative to the repository root.

1. Parts of the system
2. Modules and how they correspond to the code
3. Runs
4. Theorems
5. What is abstracted
6. Observations
7. Not modelled

## 1. Parts of the system

An **isolate group** shares a heap. A **thread** (`runtime/vm/thread.{h,cc}`)
joins a group as the mutator of an isolate, as a helper (GC workers, background
compiler) or as a thread that bypasses safepoints. Anything that needs the
others to stand still (garbage collection, lazy deoptimization, hot reload) is
a **safepoint operation** (`runtime/vm/heap/safepoint.{h,cc}`). Tasks (message
handlers, GC workers, the background compiler) run on **thread pools**
(`runtime/vm/thread_pool.{h,cc}`); every group has one for its mutators.
**Message handlers** (`message_handler.cc`) queue the messages that **ports**
(`port.cc`, `port_set.h`) address and run them on the pool. On top of these sit
the collector, the compilers, the core libraries (timers, futures, streams) and
the tools under `pkg/`.

| Part | Source | State here |
|---|---|---|
| Safepoint handler | `runtime/vm/heap/safepoint.*` | modelled, proved |
| Threads: joining, leaving, transitions, scopes, interrupts | `runtime/vm/thread.*`, `thread_registry.*` | the part that safepoints depend on |
| Thread pool | `runtime/vm/thread_pool.*`, `isolate.cc` (`OnEnterIdleLocked`) | modelled, proved |
| Mutator slots, safepoint-aware locks | `runtime/vm/isolate.cc`, `lockers.*` | modelled with safepoint operations, proved |
| Message handlers | `runtime/vm/message_handler.*`, `message.cc`, `isolate.cc`, `native_api_impl.cc` | modelled, proved |
| Ports | `runtime/vm/port.*`, `port_set.h` | modelled as a refinement of a set, proved |
| Collector: phases, tasks and who waits for them | `runtime/vm/heap/{heap,pages,marker,sweeper,scavenger}.cc` | modelled, proved |
| Collector: objects, pages, parallel marking and scavenging | `runtime/vm/heap/*` | not modelled |
| Timers; futures, streams, microtasks | `sdk/lib/_internal/vm/lib/timer_impl.dart`, `sdk/lib/async/*` | not modelled |
| Background compiler, event handler | `runtime/vm/compiler/jit/*`, `runtime/bin/eventhandler_*` | not modelled |
| Compilers, code generation, snapshots, front end, analyzer, dart2js, dart2wasm | `runtime/vm/compiler`, `pkg/*` | not modelled: sequential transformations of large data |
| Collections, conversions, URI | `sdk/lib/{collection,convert,core}` | not modelled: sequential, reached by ordinary tests |
| Embedding API, service, debugger, profiler, tools | `runtime/vm`, `pkg/dds`, `tools` | not modelled: glue and I/O |

`PROJECT.json` lists every part with its files and the reason, and the hazards
of the code with the properties that would catch them.

## 2. Modules and how they correspond to the code

### Safepoint

One isolate group, any number of `Thread` objects. A step is one critical
section of `threads_lock` or of a thread's `thread_lock`, or one
compare-and-swap on `safepoint_state_`. Walks of the active list hold
`threads_lock` over many steps, because each thread's lock is taken in turn and
the threads keep moving: these are the pcs `spNotify` and `resume`, and every
action that takes `threads_lock` has `ThreadsLockFree` as its guard.

| State | Code |
|---|---|
| `at`, `req`, `blocked` | the bit fields of `Thread::safepoint_state_`; the bypass bit is `kind = "bypass"` |
| `owner`, `count`, `notParked` | `owner_`, `operation_count_`, `num_threads_not_parked_` of each `LevelHandler` |
| `scopes` | the levels of the open `SafepointOperationScope`s of a thread |
| `cannotLazyDeopt`, `noReload` | `runtime_call_deopt_ability_`, `no_reload_scope_depth_`, which give `current_safepoint_level` |
| `vmInterrupt`, `oob` | the `kVMInterrupt` bit, and a pending `kCheckForReload` message |
| `waiting` | threads inside `Monitor::Wait` that have not been notified |
| `iter`, `oobIsolates` | the rest of a walk, and the messages the reloading thread still has to send |

| Actions | Code |
|---|---|
| `TransitionToNative`, `TransitionFromNative` | the transition classes of `safepoint.h`, fast and slow path |
| `ExitIsolate`, `EnterIsolate` | suspension and resumption of a descheduled isolate's thread |
| `AddActiveThread`, `RetryAddActiveThread`, `FreeActiveThread` | joining and leaving the group |
| `CheckForSafepoint`, `HandleVMInterrupt`, `HandleCheckForReload`, `RetryExitSafepoint` | the ways a running thread parks and goes on |
| `EnterRuntimeCallDeoptScope`, `EnterNoReloadScope` and their `Leave` | scopes that lower a thread's level |
| `SafepointThreads`, `RetrySafepointThreads`, `NotifyThread`, `NotifyThreadsDone`, `SendCheckForReload`, `WaitUntilThreadsReachedSafepointLevel`, `AcquireLowerLevelSafepoints`, `StartOperation` | `SafepointHandler::SafepointThreads`, in order |
| `SafepointThreadsNested` | the same on a level the thread owns |
| `ResumeThreads`, `ContinueThread`, `ResumeThreadsDone` | `SafepointHandler::ResumeThreads` |
| `SpuriousWakeup` | the operating system's condition variables |

`SafepointInvariant` holds the inductive invariant, `SafepointThreadProofs` and
`SafepointProofs` the proofs (section 4).

### ThreadPool

One pool, its workers, its tasks and the thread that calls `Shutdown`. A step
is one critical section of `pool_monitor_` or `exit_monitor_`. Only the last
worker to die nests the two, and this is split in two steps, the pool staying
locked in between (`notifyExit`). `idle`, `running` and `dead` are the worker
lists; the `count_*_` fields change together with them and are their sizes.
`toJoin` and `shutdownJoin` are the lists of dead workers that left the pool and
have not been joined. `accepted` and `ran` are history.

| Actions | Code |
|---|---|
| `RunImpl` | `RunImpl` with `ScheduleTaskLocked`; starting the new worker's thread is part of it |
| `WorkerLoop`, `TaskDone` | the loop body around `Task::Run` |
| `IdleWaitReturns`, `NotifyIdleReturns` | the two waits of `MutatorThreadPool::OnEnterIdleLocked` |
| `WaitReturns`, `Timeout`, `SpuriousWakeup` | `WaitMicros`; a worker that has timed out re-enters the monitor later |
| `NotifyExit`, `JoinDeadWorkers`, `WorkerExits` | death of a worker |
| `MarkCurrentWorkerAsBlocked`, `MarkCurrentWorkerAsUnBlocked` | the same |
| `Shutdown`, `WaitForWorkers`, `ObtainDeadWorkers`, `ShutdownJoins`, `ExitMonitorWakesSpuriously` | `Shutdown`, callable a second time, by the destructor |

The base class's empty `OnEnterIdleLocked` is the case that it returns at once.
`ThreadPoolProofs` has the proofs.

### GroupLocks

What the threads of a group wait for, composed: mutator slots, one
`SafepointRwLock`, safepoint operations. A step is a critical section of the
slots' monitor or of the lock's. Operations are those of module `Safepoint` at
one level, as it shows them to be: while one is requested no thread leaves a
safepoint, and it runs once the others are at one.

| State | Code |
|---|---|
| `active`, `waiting`, `slotSleep` | `active_mutators_`, `waiting_mutators_`, and who sleeps in `IncreaseMutatorCount` |
| `state`, `writer`, `lockSleep` | `state_`, `writer_id_` of the lock, and who sleeps in it |
| `scopes` | the open `SafepointReadRwLocker`s and `SafepointWriteRwLocker`s of a thread |
| `op`, `exitFrame` | the thread that has requested an operation, and its `top_exit_frame_info()` |

| Actions | Code |
|---|---|
| `EnterIsolate`, `SlotWaitReturns`, `ExitSafepoint` | `Thread::EnterIsolate` with `IncreaseMutatorCount` |
| `ExitIsolate`, `ReleaseSlot` | `Thread::ExitIsolate` with `DecreaseMutatorCount` |
| `EnterRead`, `BlockedEnterRead`, `EnterWrite`, `BlockedEnterWrite` | the same, first attempt and blocked at a safepoint |
| `LeaveRead`, `LeaveFree`, `LeaveWrite` | the ends of the scopes |
| `RequestOperation`, `RunOperation`, `EndOperation`, `Park` | a safepoint operation and the other threads |

An operation's owner may leave its isolate and enter it again inside the
operation. With frames on its stack it keeps its slot meanwhile, without it
gives it back (`KeepsSlot`, `thread.cc:376-382` and `476`). `GroupLocksProofs` has the proofs.

### MessageHandler

One handler, of an isolate or of a native port, with everybody who uses it:
posters, the pool, the run loops of an embedder, the debugger's pause and
resume, the collector that posts for finalizers, and whoever deletes it. A step
is a critical section of `monitor_`. A normal message is its number in the order
of posting and the two flags that `Enqueue` looks at; out-of-band messages are
counted.

| State | Code |
|---|---|
| `queue`, `oob` | `queue_`, `oob_queue_` |
| `paused`, `shouldPause`, `isPaused`, `remembered` | `paused_`, `should_pause_on_*_`, `is_paused_on_*_`, `remembered_paused_on_exit_status_` |
| `taskRunning`, `scheduled`, `tpc` | `task_running_`, tasks the pool has not started, where `TaskCallback` is |
| `frames` | the calls of `HandleMessages` on the stack, with their locals |
| `interrupt` | the mutator's `Thread`: whether there is one, and whether `kMessageInterrupt` is pending on it |
| `notifying` | the poster between `PostMessage` and the end of `MessageNotify`, under `PortMap::mutex_` |
| `owner`, `closer`, `shutdown`, `deleteMe`, `deleted` | who still uses or deletes the handler |

| Actions | Code |
|---|---|
| `PortMapPostMessage`, `MessageNotify`, `MournFinalizerEntry`, `PostDelayedAction` | the four ways to post |
| `TaskCallback`, `PausedOnStartLocked`, `PausedOnExitLocked`, `EndCallback` | `TaskCallback`, cut where it releases `monitor_` |
| `HandleMessages`, `MessageHandled`, `HandleNormalMessage`, `HandleOOBMessage` | `HandleMessages` around the virtual `HandleMessage` |
| `HandleOOBMessages`, `AcquiredQueues`, `HandleNextMessage` | the same |
| `EnterIsolate`, `ExitIsolate`, `StartIsolateScope` | the owner's and the task's entries into the isolate; the `Thread` that is left is kept or destroyed, as `ShouldSuspend` decides from the number of isolates |
| `RunLoop`, `NewNativePort` | the calls of `Run` in `Dart_RunLoop`, `Isolate::Run`, `Dart_NewNativePort` |
| `ShutdownIsolate` to `DeleteIsolateHandler` | the steps of an isolate's shutdown that touch its handler |
| `CloseNativePort`, `RequestDeletion`, `DeleteNativeHandler` | `Dart_CloseNativePort` and the two places of `delete this` |

### PortSet and PortTable

`PortSet` is the open-addressing table with linear probing of `port_set.h`, as
`PortMap` uses it for all ports and every `MessageHandler` for its own. An
operation is a step up to the call of `Rehash`; an iteration of the loop of
`Rehash` is a step. `map`, `capacity`, `used`, `deleted` are the fields,
`newPorts`, `newCapacity`, `index` the locals of `Rehash`, and `reply` what the
last lookup answered. `Port` are the numbers that `AllocatePort` draws, `Asked`
those that callers pass to lookups and closes: ports, `ILLEGAL_PORT`, numbers
that were never allocated. Actions: `CreatePort` (with `AllocatePort` and `Insert`),
`TryLookup`, `ClosePort`, `ClosePortsInPortMap` (also `Cleanup`),
`ClosePortsInHandler`, `RehashEntry`, `RehashEnds`. `PortTable` is the abstract
specification, a set of open ports; the refinement mapping is
`open <- Ports(map, capacity)`.

### OldSpace

The phases of an old-space collection, the marker tasks and the sweeper task,
and the threads that collect, scavenge, iterate over the heap or wait. A step is
a critical section of `tasks_lock_` or what happens up to the next one. `todo`
is what a thread is doing and what it does after that: the callers in `heap.cc`
make sequences of calls inside one safepoint operation, and a call replaces its
name by its steps.

| State | Code |
|---|---|
| `phase`, `tasks`, `markers`, `active`, `paused`, `marker` | `phase_`, `tasks_`, `concurrent_marker_tasks_`, `concurrent_marker_tasks_active_`, `pause_concurrent_marking_`, `marker_` |
| `slices` | `root_slices_started_` |
| `mt`, `sw` | where the marker tasks and the sweeper task are |
| `owner`, `irq` | the owner of the safepoint, pending `kVMInterrupt`s |
| `sleep`, `shut` | who sleeps on `tasks_lock_`; the group's shutdown |

| Actions | Code |
|---|---|
| `CollectGarbage`, `CheckConcurrentMarking`, `StoreBufferOverflows`, `HandleInterrupts`, `CheckFinalizeMarking`, `WaitForTasks` | what makes a thread collect or wait |
| `RequestOperation`, `SafepointThreads`, `ResumeThreads` | a `GcSafepointOperationScope` |
| `AfterScavenge` to `Account` | `CollectNewSpaceGarbage`, `CollectOldSpaceGarbage`, `PageSpace::CollectGarbage`, `StartConcurrentMark` |
| `Abort`, `PauseConcurrentMarking` to `ResumeConcurrentMarking`, `WaitForSweeperTasksAtSafepoint` | a scavenge |
| `Iterate` to `IterateEnd` | `HeapIterationScope` |
| `WaitForSweeperTasks`, `WaitForMarkerTasks`, `WaitWithSafepointCheckReturns` | the waits outside an operation |
| `TakeRootSlice` to `MarkerTaskDone` | `ConcurrentMarkTask`, with `YieldConcurrentMarking` |
| `SweepLargeDone`, `LeaveSweeping`, `SweeperTaskDone` | `ConcurrentSweeperTask` |
| `BeginShutdown`, `Shutdown` | `IsolateGroup::Shutdown` |

### How the modules fit together

`Safepoint` is the ground: `GroupLocks` and `OldSpace` use of an operation only
what `Safepoint` shows, that the others are stopped while it runs
(`MutatorsStopped`) and that it starts (`OperationStarts`). `MessageHandler` and
`OldSpace` use of a pool only that an accepted task is started (`TaskIsStarted`
of `ThreadPool`). `MessageHandler` uses of the port map that a lookup of a port
answers as a set would (`PortSet`).

## 3. Runs

| Run | Bounds | States | Shows |
|---|---|---|---|
| `Safepoint` | 3 threads, all kinds and levels, no nesting | 555,543 | 6 invariants and an action property, below |
| `SafepointNested` | 2 threads, 3 nested operations, 1 `NoReloadScope` | 45,451 | counts match the scopes; innermost operation for downward nesting |
| `SafepointDeoptLive` | 2 threads, GC and deopt | 4,571 | operations start, waiters are notified |
| `SafepointReloadLive` | 2 mutators, deopt and reload, 1 `NoReloadScope` | 16,463 | operations start although reload messages are dropped |
| `SafepointInnermost` | 2 mutators, 3 nested operations | violation | section 6 |
| `ThreadPool` | 4 workers, 4 tasks, size 1, 2 or unlimited | 14,285 | 6 invariants, below |
| `ThreadPoolLive` | 3 workers, 3 tasks, size 1, 2 or unlimited | 50,504 | every task is started; `Shutdown` returns |
| `PortSet` | 6 ports, other numbers asked for, table of 4 slots at first | 93,860 | 2 invariants, refinement of `PortTable` |
| `AllocatePort` | 5 numbers, the marker among them | violation | section 6 |
| `MessageHandler` | 2 normal and 2 out-of-band messages, `paused_` up to 1, calls nested twice | 429,134 | 6 invariants; messages are taken, handlers deleted |
| `GroupLocks` | 3 mutators, 2 slots, 1 helper, 2 nested scopes | 111,064 | 3 invariants; operations end, with one exception |
| `OldSpace` | 2 threads, 2 marker tasks, 2 root slices | 106,737 | 3 invariants; operations end, marking is finalized |

**Bounds.** Three threads are the least for two starters and a bystander that
both of them count, or for starters at all three levels. Three nested
operations are the least for a level to be left and entered again inside. In
the pool a live worker is always owed to a task that was once pending, so four
workers serve four tasks; blocking and unblocking the first two while two more
are pending exceeds every maximum used. Six ports of the form `4n + 3`, the only
ones `AllocatePort` draws, share one home slot in a table of four and two in a
table of eight; the table is flushed, grows, and is iterated with deletions. Two
messages of each kind are the least for their order to matter and for one to
arrive while the other is handled; two calls of `HandleMessages` are one and an
interrupt inside it. Three mutators for two slots leave one waiting while
another is notified; the helper operates and locks without a slot. Two threads
race for an operation with two marker tasks, of which one can end or yield
before the other; two root slices let a task and the thread hold one each.
`TypeOK` of each module holds the
ranges; the runs of `ThreadPool` and `MessageHandler` check it, and it is proved
for all six modules (section 4). The bounds limit how much work is started, never a transition of the
protocol. Symmetry is used only for safety properties.

**Safety of `Safepoint`.**
- `MutatorsStopped`: while an operation runs, all others are parked at its level.
- `NotParkedIsExact`: `num_threads_not_parked_` is the number of threads that
  are requested and not parked. This is what makes the wait in
  `SafepointThreads` mean something.
- `StopIsKept`, of every step: a request stands until the owner of the level
  gives it up, and a thread that has stopped for it stays, although operations
  at other levels end meanwhile and clear request bits of the same threads.
- `RequestHasOwner`, `LowerLevelsFree`: the assertions of `NotifyWeAreParked`
  and `AcquireLowerLevelSafepoints`.
- `OwnerIsNotRequested`: the owner is never held back by its own exit from the
  safepoint.
- `NoLostWakeup`: whoever waits unnotified has somebody left to notify them.
- `CountsMatchScopes`, `InnermostWhenNestedDownward`: nesting.

**Safety of `ThreadPool`.**
- `EachTaskIsInOnePlace`: accepted tasks are queued, running or done, once.
- `NoStrandedTask`: while a task is pending, some live worker is neither asleep
  nor blocked.
- `WorkerPerPendingTask`: an unlimited pool has a wakeful idle worker for every
  pending task.
- `JoinedByOne`: every dead worker is joined by exactly one thread.
- `ShutdownDrains`: the assertions of `Shutdown`, and what its caller relies on.

**Safety of `PortSet`.**
- `CountsAreExact`: `used_` and `deleted_`, from which alone the table decides
  to grow or to be flushed.
- `ProbesEnd`: every table that is probed has a free slot, also the handler's
  own set, which `ClosePorts` leaves without the `Rebalance` that the comment of
  `Iterator::Delete` asks for.
- `ImplementsPortTable`: the refinement, as a property: lookups and closes of
  ports and of other numbers answer as on a set, except that a lookup of the
  marker of deleted slots may find one (section 6).

**Safety of `MessageHandler`.**
- `OneTask`: `task_running_` stands for exactly one task.
- `NoStrandedMessage`: a task that ends leaves no out-of-band message behind,
  and a normal one only if the handler is paused.
- `NoUseAfterDelete`: nobody who would use a deleted handler is left.
- `OOBInterruptsCode`: while Dart code handles a normal message, a queued
  out-of-band message has its interrupt pending or its poster still to notify.
  Code that the owner runs outside `HandleMessages` has no such promise
  (section 6).
- `EventsInOrder`: the queue keeps the order of posting within the events and
  within the messages that go before them.

**Safety of `GroupLocks`.**
- `SlotsAreExact`, `NoIdleSlot`: the counters, with the slot of an operation's
  owner that left its isolate with frames on its stack; and that one notification
  for each released slot is enough.
- `LockIsExact`: exclusion, and `state_` is the number of open scopes.

**Safety of `OldSpace`.**
- `TasksAreExact`: counters, phase and `marker_` agree with the tasks there are.
- `TasksAreHeld`: tasks, which bypass safepoints, are gone or have yielded when
  an operation needs it, and gone when the group is torn down.
- `NoLostWakeup`: every sleeper on `tasks_lock_` still has its reason to sleep.

**Liveness.** `OperationStarts`, `WaiterIsNotified` (`Safepoint`);
`TaskIsStarted`, `ShutdownReturns` (`ThreadPool`); `MessageIsTaken`,
`DeletionHappens` (`MessageHandler`); `OperationEnds` (`GroupLocks`: nobody waits
for everybody, but for the owner that gave its slot back, section 6; `OldSpace`: no wait inside an operation is for something that
only another operation could do); `MarkingIsFinalized` (`OldSpace`).

**Fairness.** Every thread inside the protocol is scheduled (weak fairness of
its next step). Beyond that the safepoint runs assume that operations, runtime
calls and native calls end, and, with strong fairness because the thread may do
other things in between, that a mutator comes by an interrupt check and a helper
by a safepoint check. Generated code checks at every loop and function entry.
For reload, a mutator also has to come by an interrupt check outside its
`NoReloadScope`s: one that handles every reload message inside such a scope
would be asked again for ever. That a thread in `spWait` ever gets the level is
not claimed: the code gives it no priority over later starters. `ThreadPoolLive`
assumes that every worker goes on and that tasks end unless they are blocked;
`ShutdownReturns` states on top, as its hypothesis `TasksEnd`, that blocked
workers are unblocked and that the thread in `Shutdown` goes on.

`MessageHandler` assumes that the pool runs accepted tasks, that a task gets to
enter its isolate, that no thread stops inside the handler's code, and that a message that is being handled returns
(strongly, as interrupts can come in between). `GroupLocks` assumes that threads
go on, come by a safepoint check, and end their operation, entering their isolate
again first. Nothing is assumed of the lock's scopes: an operation does not
depend on their end. `OldSpace` assumes strong fairness of a thread's next step
and of `HandleInterrupts`, because other threads' operations suspend both: that a
thread that asks for an operation gets its turn is an assumption, as above. No
run assumes that a timeout fires or that a condition variable wakes spuriously.

Each property of a passing run has a mutant of the modelled code in
`PROJECT.json` that violates it; the mutated forms are defined next to the
definitions they mutate.

## 4. Theorems

For any finite set of threads, any levels, any nesting bounds, module
`SafepointProofs` proves

| Theorem | Property |
|---|---|
| `Invariance` | `IInv`, the inductive invariant |
| `TypeCorrect` | `TypeOK`: in particular no counter is ever negative |
| `StopsTheWorld` | `MutatorsStopped` |
| `NotParkedExact` | `NotParkedIsExact` |
| `StopsAreKept` | `StopIsKept`, an action property |
| `RequestsAreOwned` | `RequestHasOwner` |
| `LowerLevelsAreFree` | `LowerLevelsFree` |
| `OwnersAreNotRequested` | `OwnerIsNotRequested` |
| `CountsAreScopes` | `CountsMatchScopes` |
| `InnermostIsFound` | `InnermostWhenNestedDownward` |
| `NoWakeupIsLost` | `NoLostWakeup` |

The only assumption is `ConstantsAssumption` of module `Safepoint`, which TLC
evaluates in every run.

**The invariant.** None of the properties is inductive. `MutatorsStopped` needs
to know why a parked thread cannot leave: it is requested. So `IInv` says
exactly who is requested by whom (`Requesting`: a level is requested of a
participating thread iff another thread's operation is past it in its first
walk and not past it in its last), which bits a thread holds at each pc
(`Parking`), who owns which level (`Owning`), what the counts are (`Counting`),
who holds `threads_lock` (`Locking`), and that from the end of the wait on
everybody is parked (`Stopping`). `Stopping` is established at the end of
`WaitUntilThreadsReachedSafepointLevel` from `NotParkedIsExact`: the counter is
zero, so the set it counts is empty, and whoever joined since is impossible
because `AddActiveThread` waits while a level is owned. It is preserved because
a thread at a level requested of it does not leave (`ExitSafepointLocked`).
`Waiting` is the strengthened `NoLostWakeup`.

**Why a stop is kept.** `ResumeThreads` clears the request bits of its level and
of all lower ones, whoever set them. `Locking` says that nobody owns these
levels during its walk, so the request of an operation that has its level is not
among them (`ContinueKeeps`). The exits from a safepoint clear the bits of
levels that are not requested (`ExitKeeps`), and the entries clear none
(`EnterKeeps`).

**Why two operations do not collide.** If `t` has stopped everybody at level
`l`, any other starter `u` is parked at `l` or above, and its at bits are those
of the level it starts, so it started at a level of at least `l` and, not owning
`l`, waits or counts `t` as missing. This is `OthersFrame` to `NobodyRequests`
in `SafepointThreadProofs`.

**Nesting.** `InnermostSafepointOperation` looks for the level at which
`operation_count_` starts to fall. For scopes that never go up this is the level
of the last one. The step from neighbouring scopes to all of them is an induction
on the position in the sequence, which `LastIsLowest` makes by the least position
that fails (`Least`, from the well-foundedness of the natural numbers).

**Layout.** `SafepointInvariant` has the invariant, `SafepointThreadProofs` the
lemmas about the operators; one lemma per action follows, there (transitions,
joining, leaving, then `SafepointThreads` up to `NotifyThread`) and in
`SafepointProofs` (the rest of `SafepointThreads`, nested operations and
`ResumeThreads`), each with a step per conjunct that the action disturbs;
`SafepointProofs` ends with the theorems.

**`PortSetProofs`**, for any finite set of ports, any numbers asked for and any
initial capacity, under one hypothesis, `NoMarker`: the marker 3 is never drawn as a port (section 6).

| Theorem | Property |
|---|---|
| `Invariance`, `TypeCorrect` | `IndInv`, `TypeOK` |
| `CountsAreAlwaysExact` | `CountsAreExact` |
| `ProbesAlwaysEnd` | `ProbesEnd` |
| `Refinement` | `ImplementsPortTable`: `PortSet` implements `PortTable` |

A lookup stops at a free slot, so it is right only if no free slot lies between
the home slot of an entry and the entry: `IsTable`, of the old table and of the
new one while `Rehash` fills it, says so, and that no port is there twice. A
table keeps a free slot because its counts are exact and `MaintainInvariants`
acts before the sum of entries and deleted slots reaches the capacity. The
handler's own set, where `ClosePorts` does not call it, is safe because the sum
does not change there. `RehashInv` relates the new table to the part of the old
one that was visited.

**`GroupLocksProofs`**, for any finite sets of mutators and helpers, any number
of slots and any depth of scopes, from `GroupConstants` alone.

| Theorem | Property |
|---|---|
| `Invariance`, `TypeCorrect` | `IInv`, `TypeOK`: `active_mutators_` never exceeds its maximum |
| `SlotsAreAlwaysExact` | `SlotsAreExact` |
| `NoSlotIsEverIdle` | `NoIdleSlot` |
| `LockIsAlwaysExact` | `LockIsExact` |

`PcInv` says who can be where, above all that only sleepers of
`IncreaseMutatorCount` are in `slotSleep`, where the owner of an operation may
be, and that an owner that keeps its slot never waits for one; `LockInv` adds to `LockIsExact` that the writer's outermost scope is a write
scope, so that leaving the innermost scopes first never frees the lock under a
read scope; `BlockInv` that who is blocked for the lock holds nothing of it.

**`ThreadPoolProofs`**, for any finite set of workers, any tasks and any initial
size of the pool, from `PoolConstants` alone: all the invariants that the run
`ThreadPool` checks.

| Theorem | Property |
|---|---|
| `Invariance`, `TypeCorrect` | `IInv`, `TypeOK`: `max_pool_size_` is never negative |
| `TasksAreNeverLost` | `EachTaskIsInOnePlace` |
| `NoTaskIsEverStranded` | `NoStrandedTask` |
| `EveryTaskHasAWorker` | `WorkerPerPendingTask` |
| `DeadAreJoinedByOne` | `JoinedByOne` |
| `ShutdownAlwaysDrains` | `ShutdownDrains` |

`PcInv` says which list a worker is in at each pc. `SizeInv` is the argument
that no notification is missing. While anyone sleeps there are as many idle
workers awake as there are tasks. In a limited pool `max_pool_size_` exceeds the
number of blocked workers, because each of them has raised it by one: a pool
that is full has a worker that is not blocked. `JoinInv` is `JoinedByOne`
without counting. `OrderInv` says that in any set of dead workers there is one
that no other of the set is to join. So the joins never form a circle, and when
`Shutdown` has joined the last worker nobody is left (`ShutdownJoinsInv`).
`TaskInv` adds that the tasks that are queued, running and done are different,
`DrainInv` how far `Shutdown` has come; `all_workers_dead_` implies an empty
queue by `NoStrandedTask`. The steps of `WorkerLoop` all run a task, rest or die,
`LoopStep`, and are proved together.

**`MessageHandlerProofs`**, for any numbers of normal and out-of-band messages
and any bounds on `paused_` and on nested calls, from `HandlerConstants` alone:
all the invariants that the run `MessageHandler` checks.

| Theorem | Property |
|---|---|
| `Invariance`, `TypeCorrect` | `IInv`, `TypeOK` |
| `ThereIsOneTask` | `OneTask` |
| `NoMessageIsStranded` | `NoStrandedMessage` |
| `DeletedIsUnused` | `NoUseAfterDelete` |
| `OOBMessagesInterrupt` | `OOBInterruptsCode` |
| `EventsStayInOrder` | `EventsInOrder` |

`Tasking` says who may own the handler while the pool has its task, and which
callback then ends the task; `Calling` where the task is while a call of
`HandleMessages` is open; `Queueing` adds to `EventsInOrder` that a queued message
was posted earlier than the next one will be. `Deleting` is the argument for the
deletion: a native handler is closed before `delete_me_` is set, so that nobody
posts any more, and `task_running_`, read in the same critical section, decides
whether the task or the closing thread deletes it; the handler of an isolate is
deleted by its shutdown, after its ports are closed and its task has ended.
`Native` says that a native handler gets no out-of-band message and nests no
calls. `Interrupting` has two parts. `Entered` says that an isolate without
a `Thread` is entered by nobody, except for a task that is about to. The other
says that the innermost call of `HandleMessages` handles a normal message only if
an out-of-band one has its interrupt pending or its poster still to notify: the
call looked at both queues, in one critical section, before it took the normal
message, and what is posted after that meets a `Thread`.

**`OldSpaceProofs`**, for any finite sets of threads and of marker tasks and any
number of root slices, from `OldSpaceConstants` alone: all the invariants that
the run `OldSpace` checks.

| Theorem | Property |
|---|---|
| `Invariance`, `TypeCorrect` | `IInv`, `TypeOK` |
| `CountersAreExact` | `TasksAreExact` |
| `TasksStayHeld` | `TasksAreHeld` |
| `NoWakeupIsLost` | `NoLostWakeup` |

A thread's `todo` is a stack of the calls it is in. `Stack` says which call may
stand on which (`Fits`), so that what a call returns to is known, whatever the
depth. `ThreadInv` says what the top of the stack of a thread means for the
tasks: a thread inside an operation is its owner; between
`PauseConcurrentMarking` and `ResumeConcurrentMarking` the marking is paused, and
after the wait all marker tasks have yielded; whoever collects or iterates found
`tasks_` at zero. `Holding` is the converse for the owner: the others are at a
safepoint, marking is paused only by it, and roots are marked only under it.
`HoldsRoots` strengthens the part of `TasksAreHeld` on roots: a task that is
started while slices are left may still take one. `Counting` and `Phases` are
`TasksAreExact`, with the owner for the one thread that counts (`OneDriver`). A
step of a thread outside operations disturbs only its own stack (`Moves`), one of
the owner is covered by `InsideStep`, and one of a task by `TaskStep`: it creates
no task, takes back no yield and starts no phase that a thread relies on being
over. `OldSpaceThreadProofs` has the invariant, these lemmas and the steps up to
the start of a concurrent mark; `OldSpaceProofs` has the others and the theorems.

**Only model-checked.** Liveness (`OperationStarts`, `WaiterIsNotified`, `TaskIsStarted`,
`ShutdownReturns`, `MessageIsTaken`, `DeletionHappens`, `OperationEnds`,
`MarkingIsFinalized`): the prover handles neither fairness nor `ENABLED`.

## 5. What is abstracted

- Memory is sequentially consistent. The code uses acquire and release orders on
  `safepoint_state_`; their sufficiency is not examined.
- The unwind-error bit of `safepoint_state_`, `no_callback_scope_depth_` and the
  growth control of `ForceGrowthSafepointOperationScope` are left out: they do
  not influence the protocol.
- The wait for threads to park is a timed wait in a loop, so a missed
  notification only delays it; it is the guard `AllParked`.
- The owner of a GC or deopt operation does not transition. Where it would take
  a safepoint-aware lock the code asserts `CanAcquireSafepointLocks`; that it does
  not call out to native code is a convention, which the transition classes do
  not assert.
- A `NoReloadScope` inside a runtime call that cannot deoptimize is left out: the
  level is `kGC` there already.
- `GroupLocks` has one lock and one level of operations. The pool's side of a
  mutator that leaves its isolate with frames on its stack, a blocked worker, is
  in `ThreadPool`.
- `MessageHandler` has one handler. What a message does is an outcome (a status,
  a change of the live ports, a pause, a nested call), chosen freely. The order
  of out-of-band messages is left out. `PauseAndHandleAllMessages` is left out:
  it serves a native of the VM's tests. `start_callback` is null at every call.
- `PortSet` starts with tables of four slots where the code starts with eight, so
  that few ports fill them; the theorems are about any capacity. The iteration
  of `ClosePorts` is one step: the mutex is held, and it neither probes nor
  rehashes.
- `OldSpace` leaves out objects, pages and marking stacks: a marker task that
  marks may find its stack empty at any time. Whether a threshold is reached is
  chosen freely. A thread in `run` counts as at a safepoint, since it gets to a
  safepoint check by itself. The last marker task schedules the interrupts in the
  step that ends marking. The code takes `isolates_lock_` for reading there while
  it holds `tasks_lock_`; its writers (`isolate.cc:452-480`) neither wait nor
  reach a safepoint. `ScheduleInterrupts` reaches every thread of the model, the
  code those isolates that have a mutator `Thread` (`isolate.cc:1971`): the
  threads are mutators that stay in their isolates, and `MarkingIsFinalized` says
  nothing of a group whose isolates are all left.
- In the pool, task contents, names, timing and the operating system's failure to
  start a thread (which ends the process) are left out.

## 6. Observations

- **Innermost operation.** `SafepointThreads` accepts a deopt operation in a GC
  operation in a deopt operation. `InnermostSafepointOperation`
  (`safepoint.cc:314`) climbs the levels while the counts do not fall and answers
  `kGC`, where the comment at `safepoint.h:93` promises "the innermost safepoint
  level of the current thread". Run `SafepointInnermost` shows it. The nesting
  that the class comment shows, each operation at most as high as the one around
  it, is answered correctly (`InnermostWhenNestedDownward`).
- `MarkCurrentWorkerAsBlocked` starts no worker while one is idle, even if more
  tasks are pending than workers are idle; the idle one takes them in turn, so
  nothing is stranded. Repeated blocking and unblocking can leave more workers
  than the maximum.
- A task can wait behind a long `NotifyIdle` of the only idle worker.
- **A marker as a port.** `AllocatePort` (`port.cc:44`) means to draw again when
  it has drawn a marker, but its `continue` goes to the condition of the do-while
  loop, `ports_->Contains(result)`. For 3, the marker of deleted slots, the answer
  is no unless the probe meets a deleted slot, and 3 is returned, where the
  comment above says that the markers "cannot be used as actual ports". Run
  `AllocatePort` shows it. The number is one of 2^51, so this is a matter of
  intent rather than of practice; it is the hypothesis of the theorems.
- **An owner without its slot.** An operation's owner that leaves its isolate
  with no frames on its stack gives its slot back (`thread.cc:476`) and asks for
  one when it returns (`thread.cc:380`). Mutators that took all the slots
  meanwhile are held at the safepoint by the operation that the owner cannot end.
  `OperationEnds` names this state, `OwnerWaitsForSlot`, as its one exception.
- **A lookup of the marker.** `FindIndexOfPort` turns `ILLEGAL_PORT` away before
  it probes, because the probe "could return the index to a deleted port"
  (`port_set.h:169`). It does not turn away 3, the marker of deleted slots, for
  which the probe does just that; the entry that is found has no handler.
  `PortTable` leaves the answer for this number open.
- **Interrupts of the owner's code.** `Isolate::ScheduleInterrupts` does nothing
  for an isolate without a `Thread`, and `ExitIsolate` may destroy a `Thread` with
  its pending interrupt. An out-of-band message posted while the owner is outside
  can so be queued without an interrupt when the owner enters again and runs
  code; it is taken by the next call of `HandleMessages`. `OOBInterruptsCode` is
  about the handling of messages, where this cannot happen.
- While an isolate is paused on start, a status of `kError` that an out-of-band
  message returns (`Isolate.kill`) is dropped with the task: it counts when the
  isolate is resumed only if another message returns it again. `Isolate::Run`
  ignores the result of `MessageHandler::Run`.
- The comment of `Iterator::Delete` in `port_set.h` demands a call of `Rebalance`
  after deletions. `PortMap::ClosePorts` makes it for its own set and not for the
  handler's; `ProbesEnd` holds all the same.

## 7. Not modelled

- **Objects, pages, free lists, marking stacks and the parallel parts of the
  collector.** That marking finds every live object is about heaps and
  interleavings of write barriers far larger than TLC enumerates; the parallel
  workers inside one operation meet only at a barrier.
- **The stack limit word.** `Thread::SetStackLimit` (`thread.cc:694`) tests for
  interrupts and stores the limit. In the modules an interrupt is a bit of its
  own, so that a loss in between is not seen. It is the one hazard of
  `PROJECT.json` without a property.
- **Isolate spawning and the registration of isolates and groups**, the event
  handler, processes and sockets: calls of the operating system and of an
  embedder, with little shared state of their own.
- **Background compiler.** A queue under one monitor on top of the thread pool.
- **Timers, futures, streams, microtasks, zones, collections and conversions.**
  Dart code that runs in one isolate, one event at a time.
- **Compilers, front ends, analyzers, snapshots, object model, regular
  expressions, debugger, service, profiler, tools.** Sequential transformations
  of large data, or glue. They are most of the repository's lines, and the reason
  why the modules cover a small share of them.
