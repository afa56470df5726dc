---------------------------- MODULE MessageHandler ----------------------------
(***************************************************************************)
(* A message handler: its two queues, the one task that handles messages   *)
(* on a thread pool, pausing, and the end of the handler.  The handler     *)
(* belongs to an isolate or to a native port.                              *)
(*                                                                         *)
(* Sources: runtime/vm/message_handler.{h,cc}, message.cc, and the code    *)
(* that calls them: PostMessage and ClosePort of port.cc, the              *)
(* IsolateMessageHandler and the shutdown of isolate.cc, EnterIsolate and  *)
(* ExitIsolate of thread.cc, native_api_impl.cc, and the run loops of      *)
(* dart_api_impl.cc.                                                       *)
(*                                                                         *)
(* Grain.  A step is a critical section of monitor_, from one release of   *)
(* it to the next, or what a thread does between two of them.              *)
(* PortMap::mutex_ is held by a poster from the lookup of the port to the  *)
(* end of MessageNotify: those posts are one at a time, in two steps.      *)
(***************************************************************************)
EXTENDS Integers, Sequences, FiniteSets

CONSTANTS
  MaxPosts,  \* bound: the normal messages posted
  MaxOOB,    \* bound: the out-of-band messages posted
  MaxPaused, \* bound: paused_
  MaxDepth   \* bound: calls of HandleMessages inside each other

ASSUME HandlerConstants ==
  MaxPosts \in Nat /\ MaxOOB \in Nat /\ MaxPaused \in Nat /\ MaxDepth \in Nat \ {0}

VARIABLES
  kind,       \* whose handler it is: "isolate" or "native"
  deleted,    \* the handler has been deleted
  queue,      \* queue_
  oob,        \* how many messages are in oob_queue_
  posted, postedOOB,   \* history: how many messages were posted
  paused,     \* paused_
  shouldPause,         \* should_pause_on_start_ and should_pause_on_exit_
  isPaused,   \* is_paused_on_start_ and is_paused_on_exit_
  remembered, \* remembered_paused_on_exit_status_
  taskRunning, deleteMe,
  pool,       \* pool_ is set
  endCallback,
  scheduled,  \* tasks of this handler the pool has not started
  tpc,        \* where TaskCallback is
  frames,     \* the active calls of HandleMessages, the innermost last
  interrupt,  \* whether the isolate has a mutator Thread, and if it does,
              \* whether kMessageInterrupt is pending on it
  notifying,  \* what the poster inside MessageNotify has posted
  open,       \* PortMap has a port of this handler
  live,       \* the isolate has live ports or open native callables
  owner,      \* the thread that created the handler: it "owns" an isolate
              \* it has entered, and is "outside" one it has left
  closer,     \* the thread that closes the native port
  shutdown    \* where Isolate::Shutdown is

queues == <<queue, oob, posted, postedOOB>>
pausing == <<paused, shouldPause, isPaused, remembered>>
task == <<taskRunning, pool, endCallback, scheduled, tpc>>
life == <<deleted, deleteMe, open, live, owner, closer, shutdown>>
vars == <<kind, queues, pausing, task, frames, interrupt, notifying, life>>

kOK == 0
kError == 1
kShutdown == 2
Status == kOK .. kShutdown

\* A normal message: its place in the order of posting, if its destination
\* is the isolate library (dest_port() is kIllegalPort) rather than a port,
\* and if it was enqueued before the events.
Message == [id : 1 .. MaxPosts, lib : BOOLEAN, before : BOOLEAN]

\* A call of HandleMessages: "start" while StartIsolateScope runs,
\* "handling" while HandleMessage runs, "handled" once it has returned
\* result.  status is max_status, normal allow_normal_messages.
Frame == [pc : {"start", "handling", "handled"}, normal : BOOLEAN,
          multi : BOOLEAN, status : Status, result : Status,
          message : {"none", "normal", "oob"}]

NewFrame(normal, multi) ==
  [pc |-> "start", normal |-> normal, multi |-> multi, status |-> kOK,
   result |-> kOK, message |-> "none"]

Top == frames[Len(frames)]
Below == SubSeq(frames, 1, Len(frames) - 1)

MutexFree == notifying = "none"

TypeOK ==
  /\ kind \in {"isolate", "native"}
  /\ deleted \in BOOLEAN
  /\ queue \in Seq(Message) /\ oob \in 0 .. MaxOOB
  /\ posted \in 0 .. MaxPosts /\ postedOOB \in 0 .. MaxOOB
  /\ paused \in 0 .. MaxPaused
  /\ shouldPause \in [start : BOOLEAN, exit : BOOLEAN]
  /\ isPaused \in [start : BOOLEAN, exit : BOOLEAN]
  /\ remembered \in Status
  /\ taskRunning \in BOOLEAN /\ deleteMe \in BOOLEAN /\ pool \in BOOLEAN
  /\ endCallback \in {"none", "RunLoopDone", "ShutdownIsolate"}
  /\ scheduled \in Nat
  /\ tpc \in {"none", "notifyStart", "onStart", "onExit", "main",
              "notifyExit", "afterExit", "endCallback", "delete"}
  /\ frames \in Seq(Frame) /\ Len(frames) <= MaxDepth
  /\ interrupt \in {"noThread", "clear", "pending"}
  /\ notifying \in {"none", "normal", "oob"}
  /\ open \in BOOLEAN /\ live \in BOOLEAN
  /\ owner \in {"owns", "outside", "creating", "runLoop", "gone"}
  /\ closer \in {"none", "request", "delete", "done"}
  /\ shutdown \in {"none", "finalizers", "closePorts", "closeAllPorts",
                   "delete", "done"}

\* An isolate is entered by its creator, and may start paused, by its spawner
\* or by the debugging flags.
Init ==
  /\ kind \in {"isolate", "native"}
  /\ deleted = FALSE
  /\ queue = <<>> /\ oob = 0 /\ posted = 0 /\ postedOOB = 0
  /\ paused \in IF kind = "isolate" THEN {0, 1} \cap 0 .. MaxPaused ELSE {0}
  /\ shouldPause \in [start : BOOLEAN, exit : BOOLEAN]
  /\ kind = "native" => shouldPause = [start |-> FALSE, exit |-> FALSE]
  /\ isPaused = [start |-> FALSE, exit |-> FALSE]
  /\ remembered = kOK
  /\ taskRunning = FALSE /\ deleteMe = FALSE /\ pool = FALSE
  /\ endCallback = "none" /\ scheduled = 0 /\ tpc = "none"
  /\ frames = <<>>
  /\ interrupt = IF kind = "isolate" THEN "clear" ELSE "noThread"
  /\ notifying = "none"
  /\ open = TRUE /\ live = FALSE
  /\ owner = IF kind = "isolate" THEN "owns" ELSE "creating"
  /\ closer = "none" /\ shutdown = "none"

-----------------------------------------------------------------------------
(* Posting. *)

\* A mutant of Enqueue: at the head of the queue.
EnqueueAtHead(q, m) == IF m.before THEN <<m>> \o q ELSE Append(q, m)

\* The place of a message enqueued before the events: after the isolate
\* library's messages at the head of the queue.
Enqueue(q, m) ==
  LET n == CHOOSE i \in 0 .. Len(q) : /\ \A j \in 1 .. i : q[j].lib
                                      /\ i = Len(q) \/ ~q[i + 1].lib
  IN  IF m.before THEN SubSeq(q, 1, n) \o <<m>> \o SubSeq(q, n + 1, Len(q))
                  ELSE Append(q, m)

\* A mutant of StartTask: without a look at task_running_.
StartAnotherTask ==
  IF pool THEN taskRunning' = TRUE /\ scheduled' = scheduled + 1
          ELSE UNCHANGED <<taskRunning, scheduled>>

\* A task is started if the handler runs on a pool and has none.
StartTask ==
  IF pool /\ ~taskRunning
  THEN taskRunning' = TRUE /\ scheduled' = scheduled + 1
  ELSE UNCHANGED <<taskRunning, scheduled>>

\* The locked part of MessageHandler::PostMessage.
PostNormal(lib, before) ==
  /\ posted < MaxPosts
  /\ posted' = posted + 1
  /\ queue' = Enqueue(queue, [id |-> posted + 1, lib |-> lib, before |-> before])
  /\ StartTask
  /\ UNCHANGED <<kind, oob, postedOOB, pausing, pool, endCallback, tpc, frames,
                 interrupt, life>>

PostOOB ==
  /\ postedOOB < MaxOOB
  /\ postedOOB' = postedOOB + 1
  /\ oob' = oob + 1
  /\ StartTask
  /\ UNCHANGED <<kind, queue, posted, pausing, pool, endCallback, tpc, frames,
                 interrupt, life>>

\* PortMap::PostMessage, up to the release of monitor_.  The number of a
\* native port is known once Dart_NewNativePort has returned.
PortMapPostMessage ==
  /\ MutexFree /\ open
  /\ owner # "creating"
  /\ \/ PostNormal(FALSE, FALSE) /\ notifying' = "normal"
     \/ kind = "isolate" /\ PostOOB /\ notifying' = "oob"

\* The rest of it: MessageNotify schedules an interrupt on the isolate's
\* mutator Thread, if it has one, and mutex_ is released.
MessageNotify ==
  /\ notifying # "none"
  /\ interrupt' = IF notifying = "oob" /\ interrupt # "noThread"
                  THEN "pending" ELSE interrupt
  /\ notifying' = "none"
  /\ UNCHANGED <<kind, queues, pausing, task, frames, life>>

\* The collector posts for a finalizer without PortMap, in a safepoint
\* operation; the finalizer still refers to its isolate.
MournFinalizerEntry ==
  /\ kind = "isolate" /\ shutdown \in {"none", "finalizers"}
  /\ PostNormal(TRUE, FALSE)
  /\ UNCHANGED notifying

\* HandleLibMessage delays an action until the next event or makes it one.
PostDelayedAction ==
  /\ frames # <<>> /\ Top.pc = "handling" /\ Top.message = "oob"
  /\ \E before \in BOOLEAN : PostNormal(TRUE, before)
  /\ UNCHANGED notifying

-----------------------------------------------------------------------------
(* Entering and leaving the isolate.  A Thread that is left without active  *)
(* state is kept for the next entry, or destroyed with its interrupt when   *)
(* the group has many isolates.                                             *)

Enter == interrupt' = IF interrupt = "noThread" THEN "clear" ELSE interrupt

Exit == interrupt' \in {interrupt, "noThread"}

\* Dart_EnterIsolate and Dart_ExitIsolate by the owner.
EnterIsolate ==
  /\ owner = "outside" /\ owner' = "owns"
  /\ Enter
  /\ UNCHANGED <<kind, queues, pausing, task, frames, notifying, deleted,
                 deleteMe, open, live, closer, shutdown>>

ExitIsolate ==
  /\ owner = "owns" /\ frames = <<>> /\ owner' = "outside"
  /\ Exit
  /\ UNCHANGED <<kind, queues, pausing, task, frames, notifying, deleted,
                 deleteMe, open, live, closer, shutdown>>

\* StartIsolateScope in HandleMessages, for a task that finds no Thread.
StartIsolateScope ==
  /\ kind = "isolate" /\ frames # <<>> /\ Top.pc = "start"
  /\ interrupt = "noThread" /\ Enter
  /\ UNCHANGED <<kind, queues, pausing, task, frames, notifying, life>>

-----------------------------------------------------------------------------
(* TaskCallback.  Its steps end where monitor_ is released: in a call of    *)
(* HandleMessages, in a notification or at the end.                         *)

ShouldPauseOnStart(status) ==
  kind = "isolate" /\ status # kShutdown /\ shouldPause.start

ShouldPauseOnExit(status) ==
  kind = "isolate" /\ status # kShutdown /\ shouldPause.exit

\* A mutant of KeepAliveLocked: a request for deletion does not matter.
KeepAliveIfLive == kind = "isolate" => live

KeepAliveLocked == ~deleteMe /\ (kind = "isolate" => live)

CallHandleMessages(pc, normal, multi) ==
  /\ tpc' = pc
  /\ frames' = <<NewFrame(normal, multi)>>
  /\ UNCHANGED <<taskRunning, pool, remembered>>

\* A mutant of TaskEnds: task_running_ is not cleared.
TaskEndsUnnoticed ==
  /\ tpc' = "none"
  /\ frames' = <<>>
  /\ UNCHANGED <<taskRunning, pool, remembered>>

\* The task ends and the handler stays.
TaskEnds ==
  /\ taskRunning' = FALSE
  /\ tpc' = "none"
  /\ frames' = <<>>
  /\ UNCHANGED <<pool, remembered>>

\* The handler stops: it leaves the pool, and the task goes on without
\* monitor_ to the end callback or to the deletion of the handler.
Stop ==
  /\ pool' = FALSE
  /\ taskRunning' = FALSE
  /\ tpc' = IF endCallback # "none" THEN "endCallback"
            ELSE IF deleteMe THEN "delete" ELSE "none"
  /\ frames' = <<>>
  /\ UNCHANGED remembered

StopOrPause(status) ==
  \/ /\ status = kOK /\ KeepAliveLocked
     /\ TaskEnds
  \/ /\ status # kOK \/ ~KeepAliveLocked
     /\ ShouldPauseOnExit(status)
     /\ remembered' = status
     /\ tpc' = "notifyExit"
     /\ frames' = <<>>
     /\ UNCHANGED <<taskRunning, pool>>
  \/ /\ status # kOK \/ ~KeepAliveLocked
     /\ ~ShouldPauseOnExit(status)
     /\ Stop

\* A mutant of HandlePending: a task handles one normal message.
HandleOnePending(status) ==
  \/ status = kOK /\ CallHandleMessages("main", TRUE, FALSE)
  \/ status # kOK /\ StopOrPause(status)

HandlePending(status) ==
  \/ status = kOK /\ CallHandleMessages("main", TRUE, TRUE)
  \/ status # kOK /\ StopOrPause(status)

CheckPausedOnExit(status) ==
  \/ isPaused.exit /\ CallHandleMessages("onExit", FALSE, FALSE)
  \/ ~isPaused.exit /\ HandlePending(status)

Resumed(where) == isPaused' = [isPaused EXCEPT ![where] = FALSE]

\* What TaskCallback does when HandleMessages returns status to it.
TaskContinues(status) ==
  \/ /\ tpc = "onStart"
     /\ \/ ShouldPauseOnStart(status) /\ TaskEnds /\ UNCHANGED isPaused
        \/ ~ShouldPauseOnStart(status) /\ Resumed("start") /\ CheckPausedOnExit(status)
  \/ /\ tpc = "onExit"
     /\ \/ ShouldPauseOnExit(status) /\ TaskEnds /\ UNCHANGED isPaused
        \/ /\ ~ShouldPauseOnExit(status) /\ Resumed("exit")
           /\ HandlePending(IF status = kShutdown THEN status ELSE remembered)
  \/ /\ tpc = "main"
     /\ StopOrPause(status)
     /\ UNCHANGED isPaused
  \/ /\ tpc = "afterExit"
     /\ \/ ShouldPauseOnExit(status) /\ TaskEnds /\ UNCHANGED isPaused
        \/ ~ShouldPauseOnExit(status) /\ Resumed("exit") /\ Stop

\* A worker of the pool starts the task.
TaskCallback ==
  /\ scheduled > 0
  /\ scheduled' = scheduled - 1
  /\ \/ /\ ShouldPauseOnStart(kOK)
        /\ \/ /\ ~isPaused.start
              /\ tpc' = "notifyStart"
              /\ UNCHANGED <<frames, taskRunning, pool, remembered>>
           \/ isPaused.start /\ CallHandleMessages("onStart", FALSE, FALSE)
     \/ ~ShouldPauseOnStart(kOK) /\ CheckPausedOnExit(kOK)
  /\ UNCHANGED <<kind, queues, paused, shouldPause, isPaused, endCallback,
                 interrupt, notifying, life>>

\* NotifyPauseOnStart or NotifyPauseOnExit has returned, monitor_ is held
\* again, and messages that came in meanwhile are looked at.
PausedLocked(where, at, next) ==
  /\ tpc = at
  /\ isPaused' = [isPaused EXCEPT ![where] = TRUE]
  /\ CallHandleMessages(next, FALSE, FALSE)
  /\ UNCHANGED <<kind, queues, paused, shouldPause, endCallback, scheduled,
                 interrupt, notifying, life>>

PausedOnStartLocked == PausedLocked("start", "notifyStart", "onStart")
PausedOnExitLocked == PausedLocked("exit", "notifyExit", "afterExit")

-----------------------------------------------------------------------------
(* HandleMessages. *)

\* The innermost call of HandleMessages returns: to TaskCallback, leaving the
\* isolate if there is one, or to the mutator that called HandleNextMessage or
\* HandleOOBMessages.
Return(status) ==
  \/ /\ Len(frames) = 1 /\ tpc # "none"
     /\ Exit
     /\ TaskContinues(status)
  \/ /\ Len(frames) > 1 \/ tpc = "none"
     /\ frames' = Below
     /\ UNCHANGED <<taskRunning, pool, tpc, isPaused, remembered, interrupt>>

Handle(f, message) ==
  /\ frames' = Append(Below, [f EXCEPT !.pc = "handling", !.message = message,
                                     !.result = kOK])
  /\ UNCHANGED <<taskRunning, pool, tpc, isPaused, remembered, interrupt>>

\* DequeueMessage, with the least priority that f's call allows now.
DequeueMessage(f) ==
  LET normal == f.status = kOK /\ f.normal /\ paused = 0
  IN  \/ /\ oob > 0
         /\ oob' = oob - 1
         /\ Handle(f, "oob")
         /\ UNCHANGED queue
      \/ /\ oob = 0 /\ normal /\ queue # <<>>
         /\ queue' = Tail(queue)
         /\ Handle(f, "normal")
         /\ UNCHANGED oob
      \/ /\ oob = 0 /\ (normal => queue = <<>>)
         /\ Return(f.status)
         /\ UNCHANGED <<queue, oob>>

\* monitor_ is entered again with the isolate entered.
HandleMessages ==
  /\ frames # <<>> /\ Top.pc = "start"
  /\ kind = "native" \/ interrupt # "noThread"
  /\ DequeueMessage(Top)
  /\ UNCHANGED <<kind, posted, postedOOB, paused, shouldPause, endCallback,
                 scheduled, notifying, life>>

\* ... and after a message has been handled.
MessageHandled ==
  LET status == IF Top.result > Top.status THEN Top.result ELSE Top.status
      normal == Top.normal /\ (Top.message = "normal" => Top.multi)
  IN  /\ frames # <<>> /\ Top.pc = "handled"
      /\ \/ /\ Top.result = kShutdown
            /\ oob' = 0
            /\ Return(status)
            /\ UNCHANGED queue
         \/ /\ Top.result # kShutdown
            /\ DequeueMessage([Top EXCEPT !.status = status, !.normal = normal])
      /\ UNCHANGED <<kind, posted, postedOOB, paused, shouldPause, endCallback,
                     scheduled, notifying, life>>

Returns(result) ==
  frames' = Append(Below, [Top EXCEPT !.pc = "handled", !.result = result])

\* HandleMessage of a normal message: Dart code, which opens and closes
\* ports, or the native function of the port.
HandleNormalMessage ==
  /\ frames # <<>> /\ Top.pc = "handling" /\ Top.message = "normal"
  /\ \/ kind = "isolate" /\ live' \in BOOLEAN /\ \E s \in Status : Returns(s)
     \/ kind = "native" /\ Returns(kOK) /\ UNCHANGED live
  /\ UNCHANGED <<kind, queues, pausing, task, interrupt, notifying, deleted,
                 deleteMe, open, owner, closer, shutdown>>

PauseMsg == paused < MaxPaused /\ paused' = paused + 1 /\ UNCHANGED shouldPause

\* A mutant of ResumeMsg: every resume message counts.
ResumeAnyway == paused' = paused - 1 /\ UNCHANGED shouldPause

ResumeMsg == paused > 0 /\ paused' = paused - 1 /\ UNCHANGED shouldPause

\* The service's resume and its setting of the pause mode.
ServiceMsg ==
  /\ \/ /\ isPaused.start \/ shouldPause.start
        /\ shouldPause' = [shouldPause EXCEPT !.start = FALSE]
     \/ /\ ~isPaused.start /\ ~shouldPause.start /\ isPaused.exit
        /\ shouldPause' = [shouldPause EXCEPT !.exit = FALSE]
     \/ \E b \in BOOLEAN : shouldPause' = [shouldPause EXCEPT !.exit = b]
  /\ UNCHANGED paused

\* HandleMessage of an out-of-band message.
HandleOOBMessage ==
  /\ frames # <<>> /\ Top.pc = "handling" /\ Top.message = "oob"
  /\ \/ (PauseMsg \/ ResumeMsg \/ ServiceMsg) /\ Returns(kOK)
     \/ UNCHANGED <<paused, shouldPause>> /\ \E s \in Status : Returns(s)
  /\ UNCHANGED <<kind, queues, isPaused, remembered, task, interrupt,
                 notifying, life>>

\* The thread that has entered the isolate runs code that may be
\* interrupted: it handles a message, or owns the isolate itself.
RunsCode ==
  /\ kind = "isolate"
  /\ \/ frames # <<>> /\ Top.pc = "handling"
     \/ frames = <<>> /\ owner = "owns"

\* A stack overflow check finds the interrupt, or the embedder calls
\* Dart_HandleServiceMessages.
HandleOOBMessages ==
  /\ RunsCode /\ Len(frames) < MaxDepth
  /\ interrupt' \in {"clear", interrupt}
  /\ frames' = Append(frames, NewFrame(FALSE, FALSE))
  /\ UNCHANGED <<kind, queues, pausing, task, notifying, life>>

\* A mutant of AcquiredQueues: a normal message holds the queues, too.
AcquiredQueuesAnywhere ==
  /\ RunsCode /\ frames # <<>>
  /\ interrupt = "pending" /\ interrupt' = "clear"
  /\ UNCHANGED <<kind, queues, pausing, task, frames, notifying, life>>

\* An interrupt while a service handler holds monitor_ to print the queues:
\* oob_message_handling_allowed_ is false, and the interrupt is dropped.
AcquiredQueues ==
  /\ RunsCode /\ frames # <<>> /\ Top.message = "oob"
  /\ interrupt = "pending" /\ interrupt' = "clear"
  /\ UNCHANGED <<kind, queues, pausing, task, frames, notifying, life>>

\* The embedder runs the event loop of an isolate that is not on a pool.
HandleNextMessage ==
  /\ kind = "isolate" /\ owner = "owns" /\ frames = <<>> /\ ~pool
  /\ frames' = <<NewFrame(TRUE, FALSE)>>
  /\ UNCHANGED <<kind, queues, pausing, task, interrupt, notifying, life>>

-----------------------------------------------------------------------------
(* The beginning and the end of a handler. *)

\* MessageHandler::Run; the pool refuses the task when it is shutting down.
Run(callback, succeeds) ==
  /\ ~pool
  /\ IF succeeds
     THEN /\ pool' = TRUE /\ taskRunning' = TRUE
          /\ scheduled' = scheduled + 1
          /\ endCallback' = callback
     ELSE /\ endCallback' = "none"
          /\ UNCHANGED <<pool, taskRunning, scheduled>>
  /\ UNCHANGED <<kind, queues, pausing, tpc, frames, notifying, deleted,
                 deleteMe>>

\* The owner leaves the isolate.  Dart_RunLoop waits for the end callback and
\* enters the isolate again; Isolate::Run does not look at what Run returns.
\* The isolate may have opened ports before.
RunLoop ==
  /\ kind = "isolate" /\ owner = "owns" /\ frames = <<>>
  /\ Exit
  /\ \E ok \in BOOLEAN :
       \/ Run("RunLoopDone", ok) /\ owner' = IF ok THEN "runLoop" ELSE "outside"
       \/ Run("ShutdownIsolate", ok) /\ owner' = "gone"
  /\ live' \in BOOLEAN
  /\ UNCHANGED <<open, closer, shutdown>>

\* Dart_NewNativePort starts the handler, or closes its port.
NewNativePort ==
  /\ owner = "creating"
  /\ \/ Run("none", TRUE) /\ owner' = "gone" /\ UNCHANGED <<open, closer>>
     \/ /\ Run("none", FALSE) /\ owner' = "gone"
        /\ open' = FALSE /\ closer' = "request"
  /\ UNCHANGED <<interrupt, live, shutdown>>

\* The end callbacks.  RunLoopDone gives the isolate back to its owner,
\* ShutdownIsolate enters it.
EndCallback ==
  /\ tpc = "endCallback"
  /\ tpc' = "none"
  /\ \/ /\ endCallback = "RunLoopDone"
        /\ owner' = "outside"
        /\ UNCHANGED <<shutdown, interrupt>>
     \/ /\ endCallback = "ShutdownIsolate"
        /\ shutdown' = "finalizers"
        /\ Enter
        /\ UNCHANGED owner
  /\ UNCHANGED <<kind, queues, pausing, taskRunning, pool, endCallback,
                 scheduled, frames, notifying, deleted, deleteMe, open, live,
                 closer>>

\* ... who may shut it down once it has entered it.
ShutdownIsolate ==
  /\ kind = "isolate" /\ owner = "owns" /\ frames = <<>>
  /\ owner' = "gone"
  /\ shutdown' = "finalizers"
  /\ UNCHANGED <<kind, queues, pausing, task, frames, interrupt, notifying,
                 deleted, deleteMe, open, live, closer>>

ClearQueues == queue' = <<>> /\ oob' = 0 /\ UNCHANGED <<posted, postedOOB>>

ShutdownUnchanged ==
  UNCHANGED <<kind, pausing, task, frames, notifying, deleteMe, live, owner,
              closer>>

\* RunAndCleanupFinalizersOnShutdown: finalizers forget the isolate.
CleanupFinalizers ==
  /\ shutdown = "finalizers"
  /\ shutdown' = "closePorts"
  /\ UNCHANGED <<queues, interrupt, open, deleted>> /\ ShutdownUnchanged

\* A mutant of ClosePorts: without mutex_.
ClosePortsUnlocked ==
  /\ shutdown = "closePorts"
  /\ shutdown' = "closeAllPorts"
  /\ open' = FALSE
  /\ UNCHANGED <<queues, interrupt, deleted>> /\ ShutdownUnchanged

ClosePorts ==
  /\ shutdown = "closePorts"
  /\ MutexFree
  /\ shutdown' = "closeAllPorts"
  /\ open' = FALSE
  /\ UNCHANGED <<queues, interrupt, deleted>> /\ ShutdownUnchanged

CloseAllPorts ==
  /\ shutdown = "closeAllPorts"
  /\ shutdown' = "delete"
  /\ ClearQueues
  /\ UNCHANGED <<interrupt, open, deleted>> /\ ShutdownUnchanged

\* LowLevelCleanup: the Thread goes before the isolate and its handler.
DeleteIsolateHandler ==
  /\ shutdown = "delete"
  /\ shutdown' = "done"
  /\ interrupt' = "noThread"
  /\ deleted' = TRUE /\ ClearQueues
  /\ UNCHANGED open /\ ShutdownUnchanged

\* Dart_CloseNativePort: PortMap::ClosePort, then RequestDeletion.
CloseNativePort ==
  /\ kind = "native" /\ owner = "gone" /\ open
  /\ MutexFree
  /\ open' = FALSE
  /\ closer' = "request"
  /\ UNCHANGED <<kind, queues, pausing, task, frames, interrupt, notifying,
                 deleted, deleteMe, live, owner, shutdown>>

RequestDeletion ==
  /\ closer = "request"
  /\ \/ taskRunning /\ deleteMe' = TRUE /\ closer' = "done"
     \/ ~taskRunning /\ closer' = "delete" /\ UNCHANGED deleteMe
  /\ UNCHANGED <<kind, queues, pausing, task, frames, interrupt, notifying,
                 deleted, open, live, owner, shutdown>>

\* "delete this" at the end of RequestDeletion or of TaskCallback.
DeleteNativeHandler ==
  /\ \/ closer = "delete" /\ closer' = "done" /\ UNCHANGED tpc
     \/ tpc = "delete" /\ tpc' = "none" /\ UNCHANGED closer
  /\ deleted' = TRUE /\ ClearQueues
  /\ UNCHANGED <<kind, pausing, taskRunning, pool, endCallback, scheduled,
                 frames, interrupt, notifying, deleteMe, open, live, owner,
                 shutdown>>

-----------------------------------------------------------------------------
PostStep == PortMapPostMessage \/ MournFinalizerEntry \/ PostDelayedAction

TaskStep ==
  \/ TaskCallback
  \/ PausedOnStartLocked
  \/ PausedOnExitLocked
  \/ EndCallback

HandleStep ==
  \/ StartIsolateScope
  \/ HandleMessages
  \/ MessageHandled
  \/ HandleNormalMessage
  \/ HandleOOBMessage

DeleteStep ==
  \/ CleanupFinalizers
  \/ ClosePorts
  \/ CloseAllPorts
  \/ DeleteIsolateHandler
  \/ RequestDeletion
  \/ DeleteNativeHandler

Next ==
  \/ PostStep
  \/ MessageNotify
  \/ TaskStep
  \/ HandleStep
  \/ HandleOOBMessages
  \/ AcquiredQueues
  \/ HandleNextMessage
  \/ EnterIsolate
  \/ ExitIsolate
  \/ RunLoop
  \/ NewNativePort
  \/ ShutdownIsolate
  \/ CloseNativePort
  \/ DeleteStep

Spec == Init /\ [][Next]_vars

\* The pool runs the tasks it has accepted, a task gets to enter the isolate,
\* HandleMessage returns, and no thread stops inside the handler's code.
FairSpec ==
  /\ Spec
  /\ WF_vars(MessageNotify \/ TaskStep \/ DeleteStep)
  /\ WF_vars(StartIsolateScope \/ HandleMessages \/ MessageHandled)
  /\ SF_vars(HandleNormalMessage \/ HandleOOBMessage)

-----------------------------------------------------------------------------
(* Properties. *)

(***************************************************************************)
(* task_running_ is true exactly while one task of the handler is queued   *)
(* in the pool or inside the locked part of TaskCallback: messages are     *)
(* never handled by two tasks at once, whoever posts and whenever.         *)
(***************************************************************************)
OneTask ==
  LET active == tpc \notin {"none", "endCallback", "delete"}
  IN  scheduled + (IF active THEN 1 ELSE 0) = IF taskRunning THEN 1 ELSE 0

(***************************************************************************)
(* No message is left behind when a task ends: a handler on a pool without *)
(* a task has an empty oob_queue_, as TaskCallback asserts before it       *)
(* clears task_running_, and normal messages only while it is paused.      *)
(***************************************************************************)
NoStrandedMessage ==
  pool /\ ~taskRunning =>
    /\ oob = 0
    /\ queue # <<>> => paused > 0 \/ isPaused.start \/ isPaused.exit

(***************************************************************************)
(* Once a handler is deleted nobody is left that would use it: no poster   *)
(* in MessageNotify, no port that leads to it, no task, no message being   *)
(* handled, no owner, no second deletion, no finalizer of its isolate.     *)
(***************************************************************************)
NoUseAfterDelete ==
  deleted =>
    /\ ~open /\ notifying = "none"
    /\ scheduled = 0 /\ tpc = "none" /\ frames = <<>>
    /\ owner = "gone" /\ closer \notin {"request", "delete"}
    /\ shutdown = IF kind = "native" THEN "none" ELSE "done"

(***************************************************************************)
(* "Handle out of band messages even if the mutator thread is busy": while *)
(* Dart code handles a normal message, a queued out-of-band message has    *)
(* its interrupt pending or about to be scheduled, although service        *)
(* handlers drop interrupts, calls nest, and ScheduleInterrupts does       *)
(* nothing for an isolate that has no Thread.  Code that the owner runs    *)
(* outside HandleMessages has no such promise: a message posted while the  *)
(* owner was outside may have met no Thread, or one that was destroyed.    *)
(***************************************************************************)
OOBInterruptsCode ==
  /\ oob > 0
  /\ RunsCode /\ frames # <<>> /\ Top.message = "normal"
  => interrupt = "pending" \/ notifying = "oob"

(***************************************************************************)
(* Messages are queued in the order of posting, except that those posted   *)
(* with before_events are in front of every event; those too keep their    *)
(* order.                                                                  *)
(***************************************************************************)
EventsInOrder ==
  \A i, j \in 1 .. Len(queue) : i < j =>
    /\ queue[i].before = queue[j].before => queue[i].id < queue[j].id
    /\ queue[j].before => queue[i].lib

\* Message i waits while the handler is on its pool and not paused.
Due(i) ==
  /\ \E j \in 1 .. Len(queue) : queue[j].id = i
  /\ pool /\ paused = 0 /\ ~isPaused.start /\ ~isPaused.exit

(***************************************************************************)
(* Every message posted to a handler on a pool is taken from the queue,    *)
(* unless the handler stops or is paused: a post that finds a task about   *)
(* to end is seen by it or starts another.                                 *)
(***************************************************************************)
MessageIsTaken == \A i \in 1 .. MaxPosts : Due(i) ~> ~Due(i)

(***************************************************************************)
(* A handler that is to be deleted is deleted: after RequestDeletion, by   *)
(* its running task if there is one, and when its isolate shuts down.      *)
(***************************************************************************)
DeletionHappens == closer = "request" \/ shutdown # "none" ~> deleted
=============================================================================
