------------------------------ MODULE OldSpace ------------------------------
(***************************************************************************)
(* The phases of an old-space collection and the tasks that run in them:   *)
(* concurrent marking, pausing it for a scavenge, finalization, concurrent *)
(* sweeping, the iteration of the heap, and the threads that wait for any  *)
(* of these to end.                                                        *)
(*                                                                         *)
(* Sources: runtime/vm/heap/{heap,pages,marker,sweeper,scavenger,          *)
(* incremental_compactor}.cc, HandleInterrupts in runtime/vm/thread.cc,    *)
(* IsolateGroup::Shutdown in runtime/vm/isolate.cc.                        *)
(*                                                                         *)
(* Grain.  A step is a critical section of tasks_lock_, or what a thread   *)
(* or a task does up to its next one.  Objects, pages and marking stacks   *)
(* are left out: marking and sweeping are the states of the tasks that do  *)
(* them.  Safepoint operations are what module Safepoint shows them to be, *)
(* at the level kGC; marker and sweeper tasks bypass them.  A task handed  *)
(* to the thread pool is started: module ThreadPool.                       *)
(***************************************************************************)
EXTENDS Integers, Sequences, FiniteSets

CONSTANTS
  Thread,     \* bound: the threads of the group that may own a safepoint
  MarkerTask, \* the FLAG_marker_tasks marker tasks
  RootSlices  \* kNumFixedRootSlices

NoThread == "none"

ASSUME OldSpaceConstants ==
  /\ IsFiniteSet(Thread) /\ IsFiniteSet(MarkerTask)
  /\ NoThread \notin Thread
  /\ MarkerTask # {}
  /\ RootSlices \in Nat

VARIABLES
  todo,    \* what each thread is doing, and what it goes on with after that
  owner,   \* the thread that has requested a safepoint operation
  irq,     \* the threads with a pending kVMInterrupt
  phase,   \* phase_
  tasks,   \* tasks_
  markers, \* concurrent_marker_tasks_
  active,  \* concurrent_marker_tasks_active_
  paused,  \* pause_concurrent_marking_
  marker,  \* marker_ # nullptr
  slices,  \* root_slices_started_, up to RootSlices
  mt,      \* where each marker task is
  sw,      \* where the sweeper task is
  sleep,   \* threads in a wait for tasks_lock_, not notified
  shut     \* the shutdown of the group

counters == <<tasks, markers, active>>
spaceVars == <<phase, counters, paused, marker>>
taskVars == <<slices, mt, sw>>
waitVars == <<sleep, shut>>
vars == <<todo, owner, irq, spaceVars, taskVars, waitVars>>

Phase == {"done", "marking", "awaitingFinalization", "sweepingLarge",
          "sweepingRegular"}
Sweeping == phase \in {"sweepingLarge", "sweepingRegular"}

(***************************************************************************)
(* A marker task is "counted" before it is handed to the pool, "started"   *)
(* until it has found no more root slices, at "roots" with a slice, at     *)
(* "mark", "asleep" in the wait of YieldConcurrentMarking or "yield"       *)
(* notified there, and "left" when it is out of the isolate group but is   *)
(* still counted.                                                          *)
(***************************************************************************)
MarkerPC == {"none", "counted", "started", "roots", "mark", "asleep", "yield", "left"}
SweeperPC == {"none", "started", "regular", "left"}

(***************************************************************************)
(* What a thread may be doing.  "run" is any code between the calls below, *)
(* "request" the wait for its turn to own a safepoint, "stopping" that for *)
(* the other threads, "release" the end of the operation; "sweepAsleep"    *)
(* and "markAsleep" are the waits with a safepoint check.                  *)
(***************************************************************************)
Doing == {"run", "request", "stopping", "release", "afterScavenge", "retry", "finalize",
          "collect", "collecting", "start", "startWait",
          "starting", "startTasks", "mainRoots", "rootsWait", "account", "abort", "pause",
          "pauseWait", "cards", "sweepWait", "resume", "iterate",
          "iterAssist", "iterWait", "iterating", "sweepCheck",
          "sweepAsleep", "markCheck", "markAsleep", "finalizeCheck"}

Now(t) == Head(todo[t])

\* The thread replaces what it is doing by the steps of seq.
Become(t, seq) == todo' = [todo EXCEPT ![t] = seq \o Tail(@)]

Return(t) == Become(t, <<>>)

TypeOK ==
  /\ todo \in [Thread -> Seq(Doing)] /\ \A t \in Thread : todo[t] # <<>>
  /\ owner \in Thread \cup {NoThread} /\ irq \subseteq Thread
  /\ phase \in Phase
  /\ tasks \in Nat /\ markers \in Nat /\ active \in Nat
  /\ paused \in BOOLEAN /\ marker \in BOOLEAN
  /\ slices \in 0 .. RootSlices
  /\ mt \in [MarkerTask -> MarkerPC] /\ sw \in SweeperPC
  /\ sleep \subseteq Thread /\ shut \in {"no", "wait", "asleep", "gone"}

Init ==
  /\ todo = [t \in Thread |-> <<"run">>] /\ owner = NoThread /\ irq = {}
  /\ phase = "done" /\ tasks = 0 /\ markers = 0 /\ active = 0
  /\ paused = FALSE /\ marker = FALSE
  /\ slices = 0 /\ mt = [i \in MarkerTask |-> "none"] /\ sw = "none"
  /\ sleep = {} /\ shut = "no"

Notified(tasksAt) ==
  [i \in MarkerTask |-> IF tasksAt[i] = "asleep" THEN "yield" ELSE tasksAt[i]]

\* NotifyAll on tasks_lock_; tasksAt is where the marker tasks are otherwise.
NotifyAll(tasksAt) ==
  /\ sleep' = {}
  /\ shut' = IF shut = "asleep" THEN "wait" ELSE shut
  /\ mt' = Notified(tasksAt)

Wait(t) ==
  /\ sleep' = sleep \cup {t}
  /\ UNCHANGED <<todo, owner, irq, spaceVars, taskVars, shut>>

\* A wait loop: sleeps again as long as condition holds, goes on to seq.
WaitWhile(t, condition, seq) ==
  /\ t \notin sleep
  /\ \/ condition /\ Wait(t)
     \/ ~condition /\ Become(t, seq)
        /\ UNCHANGED <<owner, irq, spaceVars, taskVars, waitVars>>

-----------------------------------------------------------------------------
(* Safepoint operations. *)

\* "run" stands for code that reaches a safepoint check at once.
AtSafepoint(t) == Now(t) \in {"run", "request", "sweepAsleep", "markAsleep"}

\* A thread that has not been stopped yet goes on while another one waits
\* for it.
MayRun(t) ==
  /\ Now(t) = "run" /\ shut = "no"
  /\ owner # NoThread => Now(owner) = "stopping"

\* The thread asks for an operation that makes the given calls.
Operation(calls) == <<"request">> \o calls \o <<"release">>

RequestOperation(t) ==
  /\ Now(t) = "request" /\ owner = NoThread
  /\ owner' = t
  /\ Become(t, <<"stopping">>)
  /\ UNCHANGED <<irq, spaceVars, taskVars, waitVars>>

SafepointThreads(t) ==
  /\ Now(t) = "stopping"
  /\ \A u \in Thread \ {t} : AtSafepoint(u)
  /\ Return(t)
  /\ UNCHANGED <<owner, irq, spaceVars, taskVars, waitVars>>

ResumeThreads(t) ==
  /\ Now(t) = "release"
  /\ owner' = NoThread
  /\ Return(t)
  /\ UNCHANGED <<irq, spaceVars, taskVars, waitVars>>

-----------------------------------------------------------------------------
(* What starts a collection. *)

Scavenge == <<"pause", "cards", "resume">>

\* CollectNewSpaceGarbage for kStoreBuffer.
Evacuate == <<"abort">> \o Scavenge

\* The operations a thread may ask for whatever the phase: a scavenge for an
\* allocation or when idle; the old-space part of an allocation that has
\* failed, or of an idle notification; the iteration of the heap.
Operations ==
  {Scavenge \o <<"afterScavenge">>, <<"collect", "retry">>, <<"afterScavenge">>,
   <<"iterate">>}

\* What CheckConcurrentMarking and CheckFinalizeMarking call for the phase
\* they have read; the soft threshold need not be reached.
CallsFor(mayStart) ==
  {calls \in {<<>>, <<"finalize">>, <<"start">>} :
     \/ phase = "awaitingFinalization" /\ calls = <<"finalize">>
     \/ phase = "done" /\ mayStart /\ calls = <<"start">>
     \/ phase # "awaitingFinalization" /\ calls = <<>>}

CollectGarbage(t) ==
  /\ MayRun(t)
  /\ \E calls \in Operations : Become(t, Operation(calls) \o <<"run">>)
  /\ UNCHANGED <<owner, irq, spaceVars, taskVars, waitVars>>

CheckConcurrentMarking(t) ==
  /\ MayRun(t)
  /\ \E calls \in CallsFor(TRUE) \ {<<>>} : Become(t, Operation(calls) \o <<"run">>)
  /\ UNCHANGED <<owner, irq, spaceVars, taskVars, waitVars>>

\* StoreBuffer::PushBlock, when the store buffer overflows.
StoreBufferOverflows(t) ==
  /\ MayRun(t) /\ t \notin irq
  /\ irq' = irq \cup {t}
  /\ UNCHANGED <<todo, owner, spaceVars, taskVars, waitVars>>

\* With kVMInterrupt set; the store buffer may have overflowed.
HandleInterrupts(t) ==
  /\ MayRun(t) /\ t \in irq
  /\ irq' = irq \ {t}
  /\ \E first \in {<<>>, Operation(Evacuate)} :
       Become(t, first \o <<"finalizeCheck", "run">>)
  /\ UNCHANGED <<owner, spaceVars, taskVars, waitVars>>

CheckFinalizeMarking(t) ==
  /\ Now(t) = "finalizeCheck"
  /\ \E calls \in CallsFor(FALSE) :
       Become(t, IF calls = <<>> THEN <<>> ELSE Operation(calls))
  /\ UNCHANGED <<owner, irq, spaceVars, taskVars, waitVars>>

\* What follows a scavenge in CollectNewSpaceGarbage and in NotifyIdle: a
\* collection if the hard threshold is reached, CheckConcurrentMarking, or
\* nothing.
AfterScavenge(t) ==
  /\ Now(t) = "afterScavenge"
  /\ \E calls \in {<<>>, <<"collect">>} \cup CallsFor(TRUE) : Become(t, calls)
  /\ UNCHANGED <<owner, irq, spaceVars, taskVars, waitVars>>

\* The attempts of AllocateOld after its first collection.
RetryAllocation(t) ==
  /\ Now(t) = "retry"
  /\ \E calls \in {<<>>, <<"sweepWait">>, <<"sweepWait", "collect", "sweepWait">>} :
       Become(t, calls)
  /\ UNCHANGED <<owner, irq, spaceVars, taskVars, waitVars>>

WaitForTasks(t) ==
  /\ MayRun(t)
  /\ Become(t, <<"sweepCheck", "run">>) \/ Become(t, <<"markCheck", "run">>)
  /\ UNCHANGED <<owner, irq, spaceVars, taskVars, waitVars>>

-----------------------------------------------------------------------------
(* Collecting, at a safepoint. *)

\* The test for a lost race in CollectOldSpaceGarbage.
Finalize(t) ==
  /\ Now(t) = "finalize"
  /\ Become(t, IF phase = "awaitingFinalization" THEN <<"collect">> ELSE <<>>)
  /\ UNCHANGED <<owner, irq, spaceVars, taskVars, waitVars>>

\* The test at the start of PageSpace::CollectGarbage.
Start(t) ==
  /\ Now(t) = "start"
  /\ Become(t, IF phase \in {"marking", "awaitingFinalization"} THEN <<>>
               ELSE <<"startWait">>)
  /\ UNCHANGED <<owner, irq, spaceVars, taskVars, waitVars>>

\* Waits for pending tasks, then accounts for the driver.
WaitForPendingTasks(t, next) ==
  /\ t \notin sleep
  /\ \/ tasks > 0 /\ Wait(t)
     \/ /\ tasks = 0
        /\ tasks' = 1
        /\ Become(t, next)
        /\ UNCHANGED <<owner, irq, phase, markers, active, paused, marker, taskVars, waitVars>>

CollectWait(t) ==
  /\ Now(t) = "collect"
  /\ WaitForPendingTasks(t, <<"collecting", "account">>)

StartWait(t) ==
  /\ Now(t) = "startWait"
  /\ WaitForPendingTasks(t, <<"starting", "rootsWait", "account">>)

\* CollectGarbageHelper with finalize: marks all objects, and sweeps or
\* compacts at once, or hands the sweeping to a ConcurrentSweeperTask.
CollectGarbageHelper(t) ==
  /\ Now(t) = "collecting"
  /\ marker' = FALSE /\ slices' = 0
  /\ \/ phase' = "done" /\ UNCHANGED <<tasks, sw>>
     \/ phase' = "sweepingLarge" /\ tasks' = tasks + 1 /\ sw' = "started"
  /\ Return(t)
  /\ UNCHANGED <<owner, irq, markers, active, paused, mt, waitVars>>

\* The first critical section of StartConcurrentMark, with ResetSlices.
StartConcurrentMark(t) ==
  /\ Now(t) = "starting"
  /\ marker' = TRUE /\ phase' = "marking"
  /\ tasks' = tasks + Cardinality(MarkerTask)
  /\ markers' = markers + Cardinality(MarkerTask)
  /\ active' = active + Cardinality(MarkerTask)
  /\ mt' = [i \in MarkerTask |-> "counted"]
  /\ slices' = 0
  /\ Become(t, <<"startTasks">>)
  /\ UNCHANGED <<owner, irq, paused, sw, waitVars>>

Counted == {i \in MarkerTask : mt[i] = "counted"}

StartMarkerTask(i) == mt' = [mt EXCEPT ![i] = "started"]

\* The loop of StartConcurrentMark.  Before it starts the last task the
\* thread marks roots itself.
StartTasks(t) ==
  /\ Now(t) = "startTasks"
  /\ \E i \in Counted :
       \/ /\ Counted # {i}
          /\ StartMarkerTask(i) /\ UNCHANGED <<todo, slices>>
       \/ /\ Counted = {i} /\ slices < RootSlices
          /\ slices' = slices + 1
          /\ Become(t, <<"mainRoots", "startTasks">>) /\ UNCHANGED mt
       \/ /\ Counted = {i} /\ slices = RootSlices
          /\ StartMarkerTask(i) /\ Return(t) /\ UNCHANGED slices
  /\ UNCHANGED <<owner, irq, spaceVars, sw, waitVars>>

MainRootsDone(t) ==
  /\ Now(t) = "mainRoots"
  /\ Return(t)
  /\ UNCHANGED <<owner, irq, spaceVars, taskVars, waitVars>>

\* root_slices_finished_ = root_slices_count_: the wait for it is that of
\* one thread for a monitor of its own.
RootsFinished == slices = RootSlices /\ \A i \in MarkerTask : mt[i] # "roots"

\* A mutant of RootsWait: waits until all slices are taken.
RootsWaitForTaken(t) ==
  /\ Now(t) = "rootsWait" /\ slices = RootSlices
  /\ Return(t)
  /\ UNCHANGED <<owner, irq, spaceVars, taskVars, waitVars>>

RootsWait(t) ==
  /\ Now(t) = "rootsWait" /\ RootsFinished
  /\ Return(t)
  /\ UNCHANGED <<owner, irq, spaceVars, taskVars, waitVars>>

\* The end of PageSpace::CollectGarbage.
Account(t) ==
  /\ Now(t) = "account"
  /\ tasks' = tasks - 1
  /\ NotifyAll(mt)
  /\ Return(t)
  /\ UNCHANGED <<owner, irq, phase, markers, active, paused, marker, slices, sw>>

-----------------------------------------------------------------------------
(* Scavenging. *)

\* GCIncrementalCompactor::Abort.
Abort(t) ==
  /\ Now(t) = "abort"
  /\ Become(t, IF phase \in {"marking", "awaitingFinalization"}
               THEN <<"pause", "resume">> ELSE <<>>)
  /\ UNCHANGED <<owner, irq, spaceVars, taskVars, waitVars>>

PauseConcurrentMarking(t) ==
  /\ Now(t) = "pause"
  /\ paused' = TRUE
  /\ Become(t, <<"pauseWait">>)
  /\ UNCHANGED <<owner, irq, phase, counters, marker, taskVars, waitVars>>

PauseWait(t) == Now(t) = "pauseWait" /\ WaitWhile(t, active # 0, <<>>)

\* A scavenge that is aborted later waits for the sweeper, in ReverseScavenge.
VisitRememberedCards(t) ==
  /\ Now(t) = "cards"
  /\ \E next \in {<<>>, <<"sweepWait">>} : WaitWhile(t, phase = "sweepingLarge", next)

ResumeConcurrentMarking(t) ==
  /\ Now(t) = "resume"
  /\ paused' = FALSE
  /\ NotifyAll(mt)
  /\ Return(t)
  /\ UNCHANGED <<owner, irq, phase, counters, marker, slices, sw>>

WaitForSweeperTasksAtSafepoint(t) ==
  Now(t) = "sweepWait" /\ WaitWhile(t, Sweeping, <<>>)

-----------------------------------------------------------------------------
(* The iteration of the heap. *)

\* The loop of the constructor of HeapIterationScope: its condition, what
\* follows AssistTasks, which leaves the monitor, and its inner loop.
Iterate(t) ==
  /\ Now(t) = "iterate"
  /\ \/ /\ tasks > 0 \/ phase # "done"
        /\ Become(t, <<"iterAssist">>) /\ UNCHANGED tasks
     \/ /\ tasks = 0 /\ phase = "done"
        /\ tasks' = 1
        /\ Become(t, <<"iterating">>)
  /\ UNCHANGED <<owner, irq, phase, markers, active, paused, marker, taskVars, waitVars>>

\* A mutant of IterateAfterAssist: waits for the finalization.
IterateWithoutFinalizing(t) ==
  /\ Now(t) = "iterAssist"
  /\ Become(t, <<"iterWait">>)
  /\ UNCHANGED <<owner, irq, spaceVars, taskVars, waitVars>>

IterateAfterAssist(t) ==
  /\ Now(t) = "iterAssist"
  /\ Become(t, IF phase = "awaitingFinalization"
               THEN <<"finalize", "iterWait">> ELSE <<"iterWait">>)
  /\ UNCHANGED <<owner, irq, spaceVars, taskVars, waitVars>>

IterateWait(t) == Now(t) = "iterWait" /\ WaitWhile(t, tasks > 0, <<"iterate">>)

IterateEnd(t) ==
  /\ Now(t) = "iterating"
  /\ tasks' = 0
  /\ NotifyAll(mt)
  /\ Return(t)
  /\ UNCHANGED <<owner, irq, phase, markers, active, paused, marker, slices, sw>>

-----------------------------------------------------------------------------
(* Waiting outside an operation.  WaitWithSafepointCheck sleeps at a       *)
(* safepoint, and does not return during an operation.                     *)

WaitForSweeperTasks(t) ==
  /\ Now(t) = "sweepCheck"
  /\ \/ Sweeping /\ Become(t, <<"sweepAsleep">>) /\ sleep' = sleep \cup {t}
     \/ ~Sweeping /\ Return(t) /\ UNCHANGED sleep
  /\ UNCHANGED <<owner, irq, spaceVars, taskVars, shut>>

WaitForMarkerTasks(t) ==
  /\ Now(t) = "markCheck"
  /\ \/ phase = "marking" /\ Become(t, <<"markAsleep">>) /\ sleep' = sleep \cup {t}
     \/ /\ phase = "awaitingFinalization"
        /\ Become(t, Operation(<<"finalize">>) \o <<"markCheck">>) /\ UNCHANGED sleep
     \/ /\ phase \notin {"marking", "awaitingFinalization"}
        /\ Return(t) /\ UNCHANGED sleep
  /\ UNCHANGED <<owner, irq, spaceVars, taskVars, shut>>

WaitWithSafepointCheckReturns(t) ==
  /\ t \notin sleep /\ owner = NoThread
  /\ \/ Now(t) = "sweepAsleep" /\ Become(t, <<"sweepCheck">>)
     \/ Now(t) = "markAsleep" /\ Become(t, <<"markCheck">>)
  /\ UNCHANGED <<owner, irq, spaceVars, taskVars, waitVars>>

-----------------------------------------------------------------------------
(* The tasks. *)

\* IterateRoots: takes a slice, or finds none left.
TakeRootSlice(i) ==
  /\ mt[i] = "started"
  /\ \/ /\ slices < RootSlices
        /\ slices' = slices + 1
        /\ mt' = [mt EXCEPT ![i] = "roots"]
     \/ /\ slices = RootSlices
        /\ mt' = [mt EXCEPT ![i] = "mark"]
        /\ UNCHANGED slices
  /\ UNCHANGED <<todo, owner, irq, spaceVars, sw, waitVars>>

RootSliceDone(i) ==
  /\ mt[i] = "roots"
  /\ mt' = [mt EXCEPT ![i] = "started"]
  /\ UNCHANGED <<todo, owner, irq, spaceVars, slices, sw, waitVars>>

\* A mutant of YieldConcurrentMarking: does not notify.
YieldSilently(i) ==
  /\ mt[i] = "mark" /\ paused
  /\ active' = active - 1
  /\ mt' = [mt EXCEPT ![i] = "asleep"]
  /\ UNCHANGED <<todo, owner, irq, phase, tasks, markers, paused, marker, slices, sw, waitVars>>

YieldConcurrentMarking(i) ==
  /\ mt[i] = "mark" /\ paused
  /\ active' = active - 1
  /\ \/ active' = 0 /\ NotifyAll([mt EXCEPT ![i] = "asleep"])
     \/ active' # 0 /\ mt' = [mt EXCEPT ![i] = "asleep"] /\ UNCHANGED waitVars
  /\ UNCHANGED <<todo, owner, irq, phase, tasks, markers, paused, marker, slices, sw>>

YieldWaitReturns(i) ==
  /\ mt[i] = "yield"
  /\ \/ paused /\ mt' = [mt EXCEPT ![i] = "asleep"] /\ UNCHANGED active
     \/ ~paused /\ mt' = [mt EXCEPT ![i] = "mark"] /\ active' = active + 1
  /\ UNCHANGED <<todo, owner, irq, phase, tasks, markers, paused, marker, slices, sw, waitVars>>

\* The marking stack is empty; ExitIsolateGroupAsHelper.
LeaveMarking(i) ==
  /\ mt[i] = "mark"
  /\ mt' = [mt EXCEPT ![i] = "left"]
  /\ UNCHANGED <<todo, owner, irq, spaceVars, slices, sw, waitVars>>

\* A mutant of ScheduleInterrupts: left out.
NoInterrupt == UNCHANGED irq

ScheduleInterrupts == irq' = Thread

\* A mutant of MarkerTaskDone: the last task is told by tasks_.
MarkerTaskDoneByTasks(i) ==
  /\ mt[i] = "left"
  /\ tasks' = tasks - 1 /\ markers' = markers - 1 /\ active' = active - 1
  /\ \/ tasks' = 0 /\ phase' = "awaitingFinalization" /\ ScheduleInterrupts
     \/ tasks' # 0 /\ UNCHANGED <<phase, irq>>
  /\ NotifyAll([mt EXCEPT ![i] = "none"])
  /\ UNCHANGED <<todo, owner, paused, marker, slices, sw>>

MarkerTaskDone(i) ==
  /\ mt[i] = "left"
  /\ tasks' = tasks - 1 /\ markers' = markers - 1 /\ active' = active - 1
  /\ \/ markers' = 0 /\ phase' = "awaitingFinalization" /\ ScheduleInterrupts
     \/ markers' # 0 /\ UNCHANGED <<phase, irq>>
  /\ NotifyAll([mt EXCEPT ![i] = "none"])
  /\ UNCHANGED <<todo, owner, paused, marker, slices, sw>>

SweepLargeDone ==
  /\ sw = "started"
  /\ sw' = "regular" /\ phase' = "sweepingRegular"
  /\ NotifyAll(mt)
  /\ UNCHANGED <<todo, owner, irq, counters, paused, marker, slices>>

LeaveSweeping ==
  /\ sw = "regular"
  /\ sw' = "left"
  /\ UNCHANGED <<todo, owner, irq, spaceVars, slices, mt, waitVars>>

SweeperTaskDone ==
  /\ sw = "left"
  /\ tasks' = tasks - 1 /\ phase' = "done" /\ sw' = "none"
  /\ NotifyAll(mt)
  /\ UNCHANGED <<todo, owner, irq, markers, active, paused, marker, slices>>

-----------------------------------------------------------------------------
(* The shutdown of the group, once its last isolate is gone. *)

BeginShutdown ==
  /\ shut = "no" /\ \A t \in Thread : Now(t) = "run"
  /\ shut' = "wait"
  /\ UNCHANGED <<todo, owner, irq, spaceVars, taskVars, sleep>>

\* The wait for pending GC tasks, and AbandonMarkingForShutdown.
Shutdown ==
  /\ shut = "wait"
  /\ \/ tasks > 0 /\ shut' = "asleep" /\ UNCHANGED marker
     \/ tasks = 0 /\ shut' = "gone" /\ marker' = FALSE
  /\ UNCHANGED <<todo, owner, irq, phase, counters, paused, taskVars, sleep>>

SpuriousWakeup ==
  /\ \/ \E t \in sleep : sleep' = sleep \ {t} /\ UNCHANGED <<mt, shut>>
     \/ \E i \in MarkerTask : /\ mt[i] = "asleep"
                              /\ mt' = [mt EXCEPT ![i] = "yield"]
                              /\ UNCHANGED waitVars
     \/ shut = "asleep" /\ shut' = "wait" /\ UNCHANGED <<mt, sleep>>
  /\ UNCHANGED <<todo, owner, irq, spaceVars, slices, sw>>

-----------------------------------------------------------------------------
\* What a running thread does of its own accord.
Call(t) ==
  \/ CollectGarbage(t) \/ CheckConcurrentMarking(t) \/ WaitForTasks(t)
  \/ StoreBufferOverflows(t)

CollectStep(t) ==
  \/ AfterScavenge(t) \/ RetryAllocation(t) \/ Finalize(t) \/ Start(t)
  \/ CollectWait(t) \/ StartWait(t) \/ CollectGarbageHelper(t)
  \/ StartConcurrentMark(t) \/ StartTasks(t) \/ MainRootsDone(t)
  \/ RootsWait(t) \/ Account(t)

ScavengeStep(t) ==
  \/ Abort(t) \/ PauseConcurrentMarking(t) \/ PauseWait(t)
  \/ VisitRememberedCards(t) \/ ResumeConcurrentMarking(t)
  \/ WaitForSweeperTasksAtSafepoint(t)

IterateStep(t) ==
  Iterate(t) \/ IterateAfterAssist(t) \/ IterateWait(t) \/ IterateEnd(t)

\* What a thread does once it has begun.
ThreadStep(t) ==
  \/ RequestOperation(t) \/ SafepointThreads(t) \/ ResumeThreads(t)
  \/ CollectStep(t) \/ ScavengeStep(t) \/ IterateStep(t)
  \/ CheckFinalizeMarking(t) \/ WaitForSweeperTasks(t) \/ WaitForMarkerTasks(t)
  \/ WaitWithSafepointCheckReturns(t)

MarkerStep(i) ==
  \/ TakeRootSlice(i) \/ RootSliceDone(i) \/ YieldConcurrentMarking(i)
  \/ YieldWaitReturns(i) \/ LeaveMarking(i) \/ MarkerTaskDone(i)

SweeperStep == SweepLargeDone \/ LeaveSweeping \/ SweeperTaskDone

Next ==
  \/ \E t \in Thread :
       Call(t) \/ HandleInterrupts(t) \/ ThreadStep(t)
  \/ \E i \in MarkerTask : MarkerStep(i)
  \/ SweeperStep \/ BeginShutdown \/ Shutdown \/ SpuriousWakeup

Spec == Init /\ [][Next]_vars

\* Threads and tasks go on.  Running threads get to safepoint checks and to
\* stack checks between the operations of others, and a thread that asks for
\* an operation gets its turn.
FairSpec ==
  /\ Spec
  /\ \A t \in Thread : SF_vars(ThreadStep(t)) /\ SF_vars(HandleInterrupts(t))
  /\ \A i \in MarkerTask : WF_vars(MarkerStep(i))
  /\ WF_vars(SweeperStep) /\ WF_vars(Shutdown)

-----------------------------------------------------------------------------
(* Properties. *)

Live == {i \in MarkerTask : mt[i] # "none"}
Yielded == {i \in MarkerTask : mt[i] \in {"asleep", "yield"}}

Drivers ==
  {t \in Thread : Now(t) \in {"collecting", "starting", "startTasks", "mainRoots",
                              "rootsWait", "account", "iterating"}}

(***************************************************************************)
(* The counters of tasks_lock_ are those of the tasks that exist, with one *)
(* for the thread that collects or iterates, and the phase says which      *)
(* tasks there are. These are the assertions of CollectGarbage,            *)
(* CollectGarbageHelper, StartConcurrentMark, ConcurrentMarkTask and       *)
(* ConcurrentSweeperTask on phase_ and marker_.                            *)
(***************************************************************************)
TasksAreExact ==
  /\ markers = Cardinality(Live)
  /\ active = Cardinality(Live \ Yielded)
  /\ tasks = markers + (IF sw = "none" THEN 0 ELSE 1) + Cardinality(Drivers)
  /\ phase = "marking" <=> Live # {}
  /\ phase = "sweepingLarge" <=> sw = "started"
  /\ phase = "sweepingRegular" <=> sw \in {"regular", "left"}
  /\ marker <=> phase \in {"marking", "awaitingFinalization"} /\ shut # "gone"
  /\ \A t \in Thread : Now(t) = "starting" => phase = "done"

(***************************************************************************)
(* Tasks bypass safepoints, so an operation has to hold them itself. No    *)
(* task is left while a thread collects or iterates; every marker task has *)
(* yielded between PauseConcurrentMarking and ResumeConcurrentMarking;     *)
(* roots are marked while the other threads are stopped; and a group that  *)
(* is torn down has no task.                                               *)
(***************************************************************************)
TasksAreHeld ==
  /\ \A t \in Thread :
       /\ Now(t) \in {"collecting", "iterating"} => Live = {} /\ sw = "none"
       /\ paused /\ Now(t) \in {"cards", "sweepWait", "resume"} => Live = Yielded
  /\ (\E i \in MarkerTask : mt[i] \in {"counted", "roots"}) =>
       /\ owner # NoThread
       /\ \A t \in Thread \ {owner} : AtSafepoint(t)
  /\ shut = "gone" => Live = {} /\ sw = "none"

(***************************************************************************)
(* Every wait on tasks_lock_ is for a condition of its own and all share   *)
(* one monitor. Whoever sleeps there still has something to wait for: each *)
(* change that ends a wait comes with a notification, the one of phase_ in *)
(* CollectGarbageHelper without a lock included.                           *)
(***************************************************************************)
NoLostWakeup ==
  /\ \A t \in sleep :
       \/ Now(t) \in {"collect", "startWait", "iterWait"} /\ tasks > 0
       \/ Now(t) = "pauseWait" /\ active # 0
       \/ Now(t) = "cards" /\ phase = "sweepingLarge"
       \/ Now(t) \in {"sweepWait", "sweepAsleep"} /\ Sweeping
       \/ Now(t) = "markAsleep" /\ phase = "marking"
  /\ \A i \in MarkerTask : mt[i] = "asleep" => paused
  /\ shut = "asleep" => tasks > 0

(***************************************************************************)
(* A thread that stops the others gives up its safepoint again: waiting    *)
(* for tasks at a safepoint, pausing marking, and the loop of              *)
(* HeapIterationScope, which starts collections itself, all end.           *)
(***************************************************************************)
OperationEnds == owner # NoThread ~> owner = NoThread

(***************************************************************************)
(* Marking that has ended is finalized: the last marker task interrupts    *)
(* the threads, and one of them wins the race to CollectOldSpaceGarbage,   *)
(* unless the group is shut down.                                          *)
(***************************************************************************)
MarkingIsFinalized ==
  phase = "awaitingFinalization" ~> phase # "awaitingFinalization" \/ shut = "gone"
=============================================================================
