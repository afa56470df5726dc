----------------------------- MODULE Safepoint -----------------------------
(***************************************************************************)
(* The safepoint protocol of one isolate group: how a thread stops every   *)
(* other mutator at a point where it is safe to collect garbage (kGC), to  *)
(* deoptimize (kGCAndDeopt) or to reload (kGCAndDeoptAndReload), while     *)
(* other threads start operations of their own, enter and leave native     *)
(* code, and join and leave the group.                                     *)
(*                                                                         *)
(* Sources: runtime/vm/heap/safepoint.{h,cc}, runtime/vm/thread.{h,cc}.    *)
(*                                                                         *)
(* Grain.  A step is a critical section of threads_lock, or of one         *)
(* thread's thread_lock, or one compare-and-swap on safepoint_state_.      *)
(* threads_lock is held over several steps only while the active list is   *)
(* walked (pc "spNotify" and "resume").  The memory is taken to be         *)
(* sequentially consistent.                                                *)
(***************************************************************************)
EXTENDS Integers, Sequences, FiniteSets

CONSTANTS
  Thread,        \* the Thread objects of the isolate group
  NoThread,      \* nullptr, as a value of owner_
  OpLevels,      \* bound: the levels at which operations are started
  MaxNest,       \* bound: nested SafepointOperationScopes of one thread
  MaxNoReload,   \* bound: nested NoReloadScopes of one thread
  Kinds          \* bound: the kinds of threads that join the group

kGC == 0
kGCAndDeopt == 1
kGCAndDeoptAndReload == 2
Level == kGC .. kGCAndDeoptAndReload
kNoSafepoint == 4

ASSUME ConstantsAssumption ==
  /\ IsFiniteSet(Thread)
  /\ NoThread \notin Thread
  /\ OpLevels \subseteq Level
  /\ MaxNest \in Nat \ {0}
  /\ MaxNoReload \in Nat
  /\ Kinds \subseteq {"mutator", "helper", "bypass"}

VARIABLES
  pc,              \* where each thread is; see PCs
  kind,            \* how it joined the group: "mutator" runs an isolate,
                   \* "helper" does not, "bypass" takes no part in safepoints
  at,              \* safepoint_state_: the At*Safepoint bits
  req,             \* safepoint_state_: the *SafepointRequested bits
  blocked,         \* safepoint_state_: the BlockedForSafepoint bit
  cannotLazyDeopt, \* runtime_call_deopt_ability_ = kCannotLazyDeopt
  noReload,        \* no_reload_scope_depth_
  vmInterrupt,     \* kVMInterrupt is scheduled on the thread
  oob,             \* a kCheckForReload message is pending for its isolate
  scopes,          \* levels of its SafepointOperationScopes, innermost last
  waiting,         \* threads inside Monitor::Wait that nobody has notified
  owner,           \* per level: LevelHandler::owner_
  count,           \* per level: LevelHandler::operation_count_
  notParked,       \* per level: LevelHandler::num_threads_not_parked_
  iter,            \* rest of the active list in a walk under threads_lock
  oobIsolates      \* kCheckForReload messages the reloading thread must send

threadVars == <<kind, cannotLazyDeopt, noReload>>
wordVars == <<at, req, blocked>>
signalVars == <<vmInterrupt, oob, oobIsolates>>
levelVars == <<owner, count>>
vars == <<pc, threadVars, wordVars, signalVars, levelVars, scopes, waiting,
          notParked, iter>>

(***************************************************************************)
(* "free": not in the active list.  "addWait": AddActiveThread waits.      *)
(* "running": in VM or generated code.  "native": in native code or        *)
(* blocked on a safepoint-aware lock.  "suspended": its isolate is         *)
(* descheduled.  "blocked": in the loop of ExitSafepointLocked;            *)
(* "blockedReload": the same, under a ReloadParticipationScope.  "sp...":  *)
(* inside SafepointThreads.  "op": runs a safepoint operation.  "resume":  *)
(* inside ResumeThreads.                                                   *)
(***************************************************************************)
PCs == {"free", "addWait", "running", "native", "suspended", "blocked",
        "blockedReload", "spWait", "spNotify", "spSend", "spAcquire",
        "spExit", "op", "resume"}

Active == {t \in Thread : pc[t] \notin {"free", "addWait"}}
Top(t) == scopes[t][Len(scopes[t])]
Pop(t) == [scopes EXCEPT ![t] = SubSeq(@, 1, Len(@) - 1)]

\* Where t goes on executing when it leaves a safepoint.
Home(t) == IF scopes[t] = <<>> THEN "running" ELSE "op"

\* allow_reload_scope_depth_ > 0: RELOAD_OPERATION_SCOPE holds a
\* ReloadParticipationScope, and so do EnterIsolate and the OOB handler.
AllowReload(t) ==
  pc[t] = "blockedReload" \/ \E i \in DOMAIN scopes[t] : scopes[t][i] = kGCAndDeoptAndReload

SafepointLevelIf(t, allow) ==
  IF cannotLazyDeopt[t] THEN kGC
  ELSE IF noReload[t] > 0 \/ ~allow THEN kGCAndDeopt
  ELSE kGCAndDeoptAndReload
current_safepoint_level(t) == SafepointLevelIf(t, AllowReload(t))
\* The level under one more RawReloadParticipationScope.
ReloadScopeLevel(t) == SafepointLevelIf(t, TRUE)

IsSafepointRequestedAt(t, l) == l \in req[t]
IsSafepointRequested(t, l) == \E i \in 0..l : i \in req[t]
IsAtSafepointAny(t, l) == at[t] # {}
IsAtSafepoint(t, l) == 0..l \subseteq at[t]

ThreadsLockFree == \A t \in Thread : pc[t] \notin {"spNotify", "resume"}
SafepointInProgress(l) == count[l] > 0 /\ owner[l] # NoThread
AnySafepointInProgressLocked == \E l \in Level : SafepointInProgress(l)

TypeOK ==
  /\ pc \in [Thread -> PCs]
  /\ kind \in [Thread -> {"mutator", "helper", "bypass"}]
  /\ at \in [Thread -> SUBSET Level]
  /\ req \in [Thread -> SUBSET Level]
  /\ blocked \in [Thread -> BOOLEAN]
  /\ cannotLazyDeopt \in [Thread -> BOOLEAN]
  /\ noReload \in [Thread -> Nat]
  /\ vmInterrupt \in [Thread -> BOOLEAN]
  /\ oob \in [Thread -> BOOLEAN]
  /\ scopes \in [Thread -> Seq(Level)]
  /\ waiting \in SUBSET Thread
  /\ owner \in [Level -> Thread \cup {NoThread}]
  /\ count \in [Level -> Nat]
  /\ notParked \in [Level -> Nat]
  /\ iter \in SUBSET Thread
  /\ oobIsolates \in SUBSET Thread

Init ==
  /\ pc = [t \in Thread |-> "free"]
  /\ kind = [t \in Thread |-> "helper"]
  /\ at = [t \in Thread |-> {}]
  /\ req = [t \in Thread |-> {}]
  /\ blocked = [t \in Thread |-> FALSE]
  /\ cannotLazyDeopt = [t \in Thread |-> FALSE]
  /\ noReload = [t \in Thread |-> 0]
  /\ vmInterrupt = [t \in Thread |-> FALSE]
  /\ oob = [t \in Thread |-> FALSE]
  /\ scopes = [t \in Thread |-> <<>>]
  /\ waiting = {}
  /\ owner = [l \in Level |-> NoThread]
  /\ count = [l \in Level |-> 0]
  /\ notParked = [l \in Level |-> 0]
  /\ iter = {}
  /\ oobIsolates = {}

-----------------------------------------------------------------------------
(* Entering and leaving a safepoint. *)

\* The whole safepoint_state_ word is zero, or is AtSafepointBits(l).
WordIs(t, bits) ==
  at[t] = bits /\ req[t] = {} /\ ~blocked[t] /\ kind[t] # "bypass"

NotifyParkedAtOneLevel(t, l) ==
  notParked' = [i \in Level |-> IF i = l /\ i \in req[t] THEN notParked[i] - 1
                                ELSE notParked[i]]
\* NotifyWeAreParked for each requested level the thread now parks at.
NotifyParked(t, l) ==
  notParked' = [i \in Level |-> IF i <= l /\ i \in req[t] THEN notParked[i] - 1
                                ELSE notParked[i]]

EnterSafepointLocked(t, l) ==
  /\ at' = [at EXCEPT ![t] = @ \cup 0..l]
  /\ NotifyParked(t, l)

EnterSafepoint(t, l) ==
  IF WordIs(t, {})
  THEN at' = [at EXCEPT ![t] = 0..l] /\ UNCHANGED notParked
  ELSE EnterSafepointLocked(t, l)

\* One round of the loop of ExitSafepointLocked: t waits, at waitPc, while a
\* level up to l is requested of it, and else leaves the safepoint.
ExitSafepointLocked(t, l, waitPc) ==
  \/ /\ IsSafepointRequested(t, l)
     /\ blocked' = [blocked EXCEPT ![t] = TRUE]
     /\ waiting' = waiting \cup {t}
     /\ pc' = [pc EXCEPT ![t] = waitPc]
     /\ UNCHANGED at
  \/ /\ ~IsSafepointRequested(t, l)
     /\ blocked' = [blocked EXCEPT ![t] = FALSE]
     /\ at' = [at EXCEPT ![t] = @ \ 0..l]
     /\ pc' = [pc EXCEPT ![t] = Home(t)]
     /\ UNCHANGED waiting

ExitSafepoint(t, l, waitPc) ==
  IF WordIs(t, 0..l)
  THEN /\ at' = [at EXCEPT ![t] = {}]
       /\ pc' = [pc EXCEPT ![t] = Home(t)]
       /\ UNCHANGED <<blocked, waiting>>
  ELSE ExitSafepointLocked(t, l, waitPc)

\* CheckForSafepoint and BlockForSafepoint, at level l: enter the safepoint
\* and wait in ExitSafepointLocked, under one hold of thread_lock.
BlockForSafepoint(t, l, waitPc) ==
  IF IsSafepointRequested(t, l)
  THEN /\ EnterSafepointLocked(t, l)
       /\ blocked' = [blocked EXCEPT ![t] = TRUE]
       /\ waiting' = waiting \cup {t}
       /\ pc' = [pc EXCEPT ![t] = waitPc]
  ELSE UNCHANGED <<at, notParked, blocked, waiting, pc>>

HighestSafepointOperation(t) ==
  LET level == {l \in Level : \A i \in 0..l : owner[i] = t}
  IN  IF level = {} THEN kNoSafepoint
      ELSE CHOOSE l \in level : \A k \in level : k <= l
\* The innermost safepoint operation of t, by the handlers' owner_ and
\* operation_count_: the last level, from kGC up, that t owns without the
\* count falling.
InnermostSafepointOperation(t) ==
  LET owned == {l \in Level : \A i \in 0..l : owner[i] = t}
      level == {l \in owned : \A i \in 1..l : count[i] >= count[i - 1]}
  IN  IF level = {} THEN kNoSafepoint
      ELSE CHOOSE l \in level : \A k \in level : k <= l

CanAcquireSafepointLocks(t) ==
  InnermostSafepointOperation(t) >= kGCAndDeoptAndReload

\* t executes VM code in which it may transition out of the VM: it runs no
\* safepoint operation, or one that CanAcquireSafepointLocks.
MayTransition(t) == pc[t] \in {"running", "op"} /\ CanAcquireSafepointLocks(t)

TransitionToNative(t) ==
  /\ MayTransition(t)
  /\ EnterSafepoint(t, current_safepoint_level(t))
  /\ pc' = [pc EXCEPT ![t] = "native"]
  /\ UNCHANGED <<threadVars, req, blocked, signalVars, levelVars, scopes,
                 waiting, iter>>

TransitionFromNative(t) ==
  /\ pc[t] = "native"
  /\ ExitSafepoint(t, current_safepoint_level(t), "blocked")
  /\ UNCHANGED <<threadVars, req, signalVars, levelVars, scopes, notParked,
                 iter>>

\* ExitIsolate, when the thread is kept: the descheduled isolate is parked
\* under a RawReloadParticipationScope.
ExitIsolate(t) ==
  /\ MayTransition(t) /\ kind[t] = "mutator" /\ ~cannotLazyDeopt[t]
  /\ EnterSafepoint(t, ReloadScopeLevel(t))
  /\ pc' = [pc EXCEPT ![t] = "suspended"]
  /\ UNCHANGED <<threadVars, req, blocked, signalVars, levelVars, scopes,
                 waiting, iter>>

\* EnterIsolate, when the isolate has kept its thread.
EnterIsolate(t) ==
  /\ pc[t] = "suspended"
  /\ ExitSafepoint(t, ReloadScopeLevel(t), "blockedReload")
  /\ UNCHANGED <<threadVars, req, signalVars, levelVars, scopes, notParked,
                 iter>>

\* A safepoint check in VM code, or on the way between VM and generated code.
CheckForSafepoint(t) ==
  /\ pc[t] = "running" /\ kind[t] # "bypass"
  /\ IsSafepointRequested(t, current_safepoint_level(t))
  /\ BlockForSafepoint(t, current_safepoint_level(t), "blocked")
  /\ UNCHANGED <<threadVars, req, signalVars, levelVars, scopes, iter>>

\* HandleInterrupts, which generated code calls where it can lazily deopt:
\* the kVMInterrupt bit.
HandleVMInterrupt(t) ==
  /\ pc[t] = "running" /\ kind[t] = "mutator" /\ ~cannotLazyDeopt[t]
  /\ vmInterrupt[t]
  /\ vmInterrupt' = [vmInterrupt EXCEPT ![t] = FALSE]
  /\ BlockForSafepoint(t, current_safepoint_level(t), "blocked")
  /\ UNCHANGED <<threadVars, req, oob, oobIsolates, levelVars, scopes, iter>>

\* The OOB message kCheckForReload, from HandleInterrupts (kMessageInterrupt)
\* or from the isolate's message loop.
HandleCheckForReload(t) ==
  /\ pc[t] = "running" /\ kind[t] = "mutator" /\ ~cannotLazyDeopt[t]
  /\ oob[t]
  /\ oob' = [oob EXCEPT ![t] = FALSE]
  /\ BlockForSafepoint(t, ReloadScopeLevel(t), "blockedReload")
  /\ UNCHANGED <<threadVars, req, vmInterrupt, oobIsolates, levelVars, scopes,
                 iter>>

\* The level ExitSafepointLocked was called with by a thread that waits in it.
ExitLevel(t) == IF scopes[t] = <<>> THEN current_safepoint_level(t) ELSE Top(t)

\* Monitor::Wait has returned in the loop of ExitSafepointLocked.
RetryExitSafepoint(t) ==
  /\ pc[t] \in {"blocked", "blockedReload"} /\ t \notin waiting
  /\ ExitSafepointLocked(t, ExitLevel(t), pc[t])
  /\ UNCHANGED <<threadVars, req, signalVars, levelVars, scopes, notParked,
                 iter>>

\* A condition variable may wake a thread that nobody notified.
SpuriousWakeup(t) ==
  /\ t \in waiting
  /\ waiting' = waiting \ {t}
  /\ UNCHANGED <<pc, threadVars, wordVars, signalVars, levelVars, scopes,
                 notParked, iter>>

-----------------------------------------------------------------------------
(* Joining and leaving the isolate group; scopes that change the level. *)

AddActiveThreadLocked(t, k) ==
  IF k # "bypass" /\ AnySafepointInProgressLocked
  THEN pc' = [pc EXCEPT ![t] = "addWait"] /\ waiting' = waiting \cup {t}
  ELSE pc' = [pc EXCEPT ![t] = "running"] /\ UNCHANGED waiting

AddActiveThread(t, k) ==
  /\ pc[t] = "free" /\ ThreadsLockFree
  /\ kind' = [kind EXCEPT ![t] = k]
  /\ AddActiveThreadLocked(t, k)
  /\ UNCHANGED <<cannotLazyDeopt, noReload, wordVars, signalVars, levelVars,
                 scopes, notParked, iter>>

RetryAddActiveThread(t) ==
  /\ pc[t] = "addWait" /\ t \notin waiting /\ ThreadsLockFree
  /\ AddActiveThreadLocked(t, kind[t])
  /\ UNCHANGED <<kind, cannotLazyDeopt, noReload, wordVars, signalVars, levelVars,
                 scopes, notParked, iter>>

\* Checks in with any pending operation, under a RawReloadParticipationScope,
\* and returns the Thread with a zero safepoint_state_ to the free list.
FreeActiveThread(t) ==
  /\ pc[t] = "running" /\ ~cannotLazyDeopt[t] /\ noReload[t] = 0
  /\ ThreadsLockFree
  /\ IF kind[t] = "bypass" THEN UNCHANGED notParked
     ELSE NotifyParked(t, ReloadScopeLevel(t))
  /\ at' = [at EXCEPT ![t] = {}]
  /\ req' = [req EXCEPT ![t] = {}]
  /\ blocked' = [blocked EXCEPT ![t] = FALSE]
  /\ vmInterrupt' = [vmInterrupt EXCEPT ![t] = FALSE]
  /\ oob' = [oob EXCEPT ![t] = FALSE]
  /\ kind' = [kind EXCEPT ![t] = "helper"]
  /\ pc' = [pc EXCEPT ![t] = "free"]
  /\ UNCHANGED <<cannotLazyDeopt, noReload, oobIsolates, levelVars, scopes,
                 waiting, iter>>

\* A runtime call that cannot be lazily deoptimized.
EnterRuntimeCallDeoptScope(t) ==
  /\ pc[t] = "running" /\ kind[t] = "mutator" /\ ~cannotLazyDeopt[t]
  /\ cannotLazyDeopt' = [cannotLazyDeopt EXCEPT ![t] = TRUE]
  /\ UNCHANGED <<pc, kind, noReload, wordVars, signalVars, levelVars, scopes,
                 waiting, notParked, iter>>

LeaveRuntimeCallDeoptScope(t) ==
  /\ pc[t] = "running" /\ cannotLazyDeopt[t]
  /\ cannotLazyDeopt' = [cannotLazyDeopt EXCEPT ![t] = FALSE]
  /\ UNCHANGED <<pc, kind, noReload, wordVars, signalVars, levelVars, scopes,
                 waiting, notParked, iter>>

\* NoReloadScopes and runtime calls nest.  A NoReloadScope inside a call that
\* cannot deopt is left out: the level is kGC there already.
EnterNoReloadScope(t) ==
  /\ pc[t] = "running" /\ kind[t] # "bypass" /\ ~cannotLazyDeopt[t]
  /\ noReload[t] < MaxNoReload
  /\ noReload' = [noReload EXCEPT ![t] = @ + 1]
  /\ UNCHANGED <<pc, kind, cannotLazyDeopt, wordVars, signalVars, levelVars,
                 scopes, waiting, notParked, iter>>

NoResend(t) == FALSE
\* A kCheckForReload message that came during the scope has been dropped.
ResendCheckForReload(t) ==
  noReload[t] = 1 /\ kind[t] = "mutator" /\ kGCAndDeoptAndReload \in req[t]

LeaveNoReloadScope(t) ==
  /\ pc[t] = "running" /\ noReload[t] > 0 /\ ~cannotLazyDeopt[t]
  /\ noReload' = [noReload EXCEPT ![t] = @ - 1]
  /\ oob' = [oob EXCEPT ![t] = @ \/ ResendCheckForReload(t)]
  /\ UNCHANGED <<pc, kind, cannotLazyDeopt, wordVars, vmInterrupt, oobIsolates,
                 levelVars, scopes, waiting, notParked, iter>>

-----------------------------------------------------------------------------
(* A safepoint operation: SafepointThreads, the operation, ResumeThreads. *)

EnterSafepointToStartAtCurrentLevel(t, l) ==
  EnterSafepointLocked(t, SafepointLevelIf(t, l = kGCAndDeoptAndReload))
\* SafepointThreads parks its thread at the level of the operation only, even
\* if the thread's own level is higher: it is not going to stay parked.
EnterSafepointToStart(t, l) == EnterSafepointLocked(t, l)

CountScopeAtItsLevel(l, d) ==
  [i \in Level |-> IF i = l THEN count[i] + d ELSE count[i]]
\* A nested operation is counted at its level and at all lower ones.
CountScope(l, d) ==
  [i \in Level |-> IF i <= l THEN count[i] + d ELSE count[i]]

\* The end of the loop that waits for the level, and SetSafepointInProgress.
SetSafepointInProgress(t, l) ==
  IF SafepointInProgress(l)
  THEN /\ pc' = [pc EXCEPT ![t] = "spWait"]
       /\ waiting' = waiting \cup {t}
       /\ UNCHANGED <<levelVars, iter>>
  ELSE /\ pc' = [pc EXCEPT ![t] = "spNotify"]
       /\ owner' = [owner EXCEPT ![l] = t]
       /\ count' = [count EXCEPT ![l] = 1]
       /\ iter' = Active \ {t}
       /\ UNCHANGED waiting

\* SafepointThreads on a level that t owns already.
SafepointThreadsNested(t, l) ==
  /\ pc[t] = "op" /\ Len(scopes[t]) < MaxNest /\ l \in OpLevels
  /\ ThreadsLockFree
  /\ owner[l] = t
  /\ count' = CountScope(l, 1)
  /\ scopes' = [scopes EXCEPT ![t] = Append(@, l)]
  /\ UNCHANGED <<pc, threadVars, wordVars, signalVars, owner, waiting,
                 notParked, iter>>

\* SafepointThreads on a level that t does not own.
SafepointThreads(t, l) ==
  /\ pc[t] = "running" /\ kind[t] # "bypass" /\ l \in OpLevels
  /\ l <= SafepointLevelIf(t, l = kGCAndDeoptAndReload)
  /\ ThreadsLockFree
  /\ EnterSafepointToStart(t, l)
  /\ scopes' = [scopes EXCEPT ![t] = Append(@, l)]
  /\ SetSafepointInProgress(t, l)
  /\ UNCHANGED <<threadVars, req, blocked, signalVars>>

RetrySafepointThreads(t) ==
  /\ pc[t] = "spWait" /\ t \notin waiting /\ ThreadsLockFree
  /\ SetSafepointInProgress(t, Top(t))
  /\ UNCHANGED <<threadVars, wordVars, signalVars, scopes, notParked>>

NoInterrupt(u) == vmInterrupt
ScheduleInterrupts(u) == [vmInterrupt EXCEPT ![u] = TRUE]

\* One thread of the walk of NotifyThreadsToGetToSafepointLevel.
NotifyThread(t, u) ==
  LET l == Top(t)
      missing == kind[u] # "bypass" /\ ~IsAtSafepoint(u, l)
      mutator == missing /\ kind[u] = "mutator"
  IN  /\ pc[t] = "spNotify" /\ u \in iter
      /\ iter' = iter \ {u}
      /\ req' = IF kind[u] = "bypass" THEN req
                ELSE [req EXCEPT ![u] = @ \cup {l}]
      /\ notParked' = IF missing THEN [notParked EXCEPT ![l] = @ + 1]
                      ELSE notParked
      /\ oobIsolates' = IF mutator /\ l = kGCAndDeoptAndReload
                        THEN oobIsolates \cup {u} ELSE oobIsolates
      /\ vmInterrupt' = IF mutator /\ l # kGCAndDeoptAndReload
                        THEN ScheduleInterrupts(u) ELSE vmInterrupt
      /\ UNCHANGED <<pc, threadVars, at, blocked, oob, levelVars, scopes,
                     waiting>>

NotifyThreadsDone(t) ==
  /\ pc[t] = "spNotify" /\ iter = {}
  /\ pc' = [pc EXCEPT ![t] = "spSend"]
  /\ UNCHANGED <<threadVars, wordVars, signalVars, levelVars, scopes, waiting,
                 notParked, iter>>

\* The message is dropped when the isolate has gone.
SendCheckForReload(t, u) ==
  /\ pc[t] = "spSend" /\ Top(t) = kGCAndDeoptAndReload /\ u \in oobIsolates
  /\ oobIsolates' = oobIsolates \ {u}
  /\ oob' = [oob EXCEPT ![u] = (kind[u] = "mutator" /\ u \in Active) \/ @]
  /\ UNCHANGED <<pc, threadVars, wordVars, vmInterrupt, levelVars, scopes,
                 waiting, notParked, iter>>

AllButOneParked(l) == notParked[l] <= 1
AllParked(l) == notParked[l] <= 0

\* The wait on parked_lock_ is timed, so a missed Notify only delays it.
WaitUntilThreadsReachedSafepointLevel(t) ==
  /\ pc[t] = "spSend"
  /\ Top(t) = kGCAndDeoptAndReload => oobIsolates = {}
  /\ AllParked(Top(t))
  /\ pc' = [pc EXCEPT ![t] = "spAcquire"]
  /\ UNCHANGED <<threadVars, wordVars, signalVars, levelVars, scopes, waiting,
                 notParked, iter>>

AcquireLowerLevelSafepoints(t) ==
  /\ pc[t] = "spAcquire" /\ ThreadsLockFree
  /\ pc' = [pc EXCEPT ![t] = "spExit"]
  /\ owner' = [i \in Level |-> IF i < Top(t) THEN t ELSE owner[i]]
  /\ count' = [i \in Level |-> IF i < Top(t) THEN 1 ELSE count[i]]
  /\ UNCHANGED <<threadVars, wordVars, signalVars, scopes, waiting, notParked,
                 iter>>

\* The end of SafepointThreads: the owner leaves the safepoint and runs.
StartOperation(t) ==
  /\ pc[t] = "spExit"
  /\ ExitSafepointLocked(t, Top(t), "blocked")
  /\ UNCHANGED <<threadVars, req, signalVars, levelVars, scopes, notParked,
                 iter>>

\* ResumeThreads: the end of a nested operation, or ReleaseLowerLevelSafepoints
\* and ResetSafepointInProgress before the active list is walked.
ResumeThreads(t) ==
  /\ pc[t] = "op" /\ ThreadsLockFree
  /\ \/ /\ count[Top(t)] > 1
        /\ count' = CountScope(Top(t), -1)
        /\ scopes' = Pop(t)
        /\ pc' = [pc EXCEPT ![t] = IF Len(scopes[t]) = 1 THEN "running" ELSE "op"]
        /\ UNCHANGED <<owner, iter>>
     \/ /\ count[Top(t)] <= 1
        /\ owner' = [i \in Level |-> IF i <= Top(t) THEN NoThread ELSE owner[i]]
        /\ count' = [i \in Level |-> IF i <= Top(t) THEN 0 ELSE count[i]]
        /\ iter' = Active \ {t}
        /\ pc' = [pc EXCEPT ![t] = "resume"]
        /\ UNCHANGED scopes
  /\ UNCHANGED <<threadVars, wordVars, signalVars, waiting, notParked>>

\* One thread of the walk of NotifyThreadsToContinue.
ContinueThread(t, u) ==
  /\ pc[t] = "resume" /\ u \in iter
  /\ iter' = iter \ {u}
  /\ IF kind[u] = "bypass" THEN UNCHANGED <<req, waiting>>
     ELSE /\ req' = [req EXCEPT ![u] = @ \ 0..Top(t)]
          /\ waiting' = IF blocked[u] THEN waiting \ {u} ELSE waiting
  /\ UNCHANGED <<pc, threadVars, at, blocked, signalVars, levelVars, scopes,
                 notParked>>

NotifyStarters == {u \in waiting : pc[u] # "spWait"}
NotifyAll == {u \in waiting : pc[u] \notin {"addWait", "spWait"}}

\* NotifyAll on threads_lock ends ResumeThreads.
ResumeThreadsDone(t) ==
  /\ pc[t] = "resume" /\ iter = {}
  /\ waiting' = NotifyAll
  /\ scopes' = Pop(t)
  /\ pc' = [pc EXCEPT ![t] = "running"]
  /\ UNCHANGED <<threadVars, wordVars, signalVars, levelVars, notParked, iter>>

Next == \E t \in Thread :
  \/ \E k \in Kinds : AddActiveThread(t, k)
  \/ RetryAddActiveThread(t)
  \/ FreeActiveThread(t)
  \/ TransitionToNative(t) \/ TransitionFromNative(t)
  \/ ExitIsolate(t) \/ EnterIsolate(t)
  \/ CheckForSafepoint(t) \/ HandleVMInterrupt(t) \/ HandleCheckForReload(t)
  \/ RetryExitSafepoint(t) \/ SpuriousWakeup(t)
  \/ EnterRuntimeCallDeoptScope(t) \/ LeaveRuntimeCallDeoptScope(t)
  \/ EnterNoReloadScope(t) \/ LeaveNoReloadScope(t)
  \/ \E l \in Level : SafepointThreads(t, l) \/ SafepointThreadsNested(t, l)
  \/ RetrySafepointThreads(t)
  \/ \E u \in Thread : NotifyThread(t, u) \/ SendCheckForReload(t, u)
                       \/ ContinueThread(t, u)
  \/ NotifyThreadsDone(t) \/ WaitUntilThreadsReachedSafepointLevel(t)
  \/ AcquireLowerLevelSafepoints(t) \/ StartOperation(t)
  \/ ResumeThreads(t) \/ ResumeThreadsDone(t)

Spec == Init /\ [][Next]_vars

-----------------------------------------------------------------------------
(* Safety. *)

\* t has come out of SafepointThreads and not yet called the ResumeThreads
\* that ends its outermost operation.
InOperation(t) ==
  /\ scopes[t] # <<>>
  /\ pc[t] \in {"op", "native", "suspended", "blocked", "blockedReload"}

\* t executes mutator code: it may touch the heap, or deoptimize, or reload.
Executing(t) == pc[t] \in {"running", "op"} /\ kind[t] # "bypass"

\* While a thread runs a safepoint operation, every other thread of the group
\* that takes part in safepoints is stopped at a safepoint of the operation's
\* level ("No other mutator is running at this point").
MutatorsStopped ==
  \A t \in Thread : InOperation(t) =>
    \A u \in Active \ {t} : kind[u] # "bypass" =>
      ~Executing(u) /\ 0..scopes[t][1] \subseteq at[u]

\* The threads that level l is requested of and that are not parked at it.
Missing(l) == {u \in Thread : l \in req[u] /\ l \notin at[u]}

\* num_threads_not_parked_ is at every moment the number of threads that the
\* level is requested of and that are not at a safepoint of it: never negative,
\* zero when an operation runs, and never left over for the next one.
NotParkedIsExact == \A l \in Level : notParked[l] = Cardinality(Missing(l))

\* NotifyWeAreParked asserts owner_ != nullptr: a thread that is yet to park
\* for a level always finds the operation that asked for it.
RequestHasOwner ==
  \A u \in Thread, l \in Level :
    l \in req[u] /\ l \notin at[u] => owner[l] \notin {NoThread, u}

\* AcquireLowerLevelSafepoints asserts that nobody holds a lower level: an
\* operation at a lower level cannot overlap the start of a higher one.
LowerLevelsFree ==
  \A t \in Thread : pc[t] = "spAcquire" =>
    \A i \in Level : i < Top(t) => ~SafepointInProgress(i)

\* A step leaves every request of a level that is owned, and every thread
\* that has stopped for it, where they are.
KeepsStops ==
  \A u \in Thread, l \in Level :
    l \in req[u] /\ owner[l] # NoThread /\ pc'[u] # "free"
    => l \in req'[u] /\ (l \in at[u] => l \in at'[u])

\* SafepointThreads waits for the threads that are still to come, and relies
\* on those that have come to stay: from the time a thread is asked to stop at
\* a level until the owner gives the level up, no operation that ends in
\* between withdraws the request, and the thread does not leave the safepoint
\* once it is there, unless it leaves the group.
StopIsKept == [][KeepsStops]_vars

\* operation_count_ of a level that a running operation owns is the number of
\* open scopes of the owner at that level or above, and the owner of a level
\* owns the lower ones, so that the last ResumeThreads, and no other, resumes.
CountsMatchScopes ==
  \A t \in Thread : InOperation(t) =>
    \A l \in Level :
      LET open == {i \in DOMAIN scopes[t] : scopes[t][i] >= l}
      IN  IF open = {} THEN owner[l] # t
          ELSE owner[l] = t /\ count[l] = Cardinality(open)

\* A thread that waits, unnotified, has somebody left to notify it: in
\* ExitSafepointLocked a request that is still pending, on threads_lock an
\* operation in progress or one whose ResumeThreads has not got to NotifyAll.
NoLostWakeup ==
  \A t \in waiting :
    \/ pc[t] \in {"blocked", "blockedReload"} /\ IsSafepointRequested(t, ExitLevel(t))
    \/ pc[t] = "addWait" /\ (AnySafepointInProgressLocked \/ ~ThreadsLockFree)
    \/ pc[t] = "spWait" /\ (SafepointInProgress(Top(t)) \/ ~ThreadsLockFree)

\* A thread that has acquired its level and all lower ones is never held back
\* when it leaves the safepoint at the end of SafepointThreads: nobody can
\* have requested one of these levels of it.
OwnerIsNotRequested ==
  \A t \in Thread : pc[t] = "spExit" \/ InOperation(t) =>
    ~IsSafepointRequested(t, scopes[t][1])

\* For operations nested the way the class comment shows, each at most as
\* high as the one around it, InnermostSafepointOperation is the innermost.
InnermostWhenNestedDownward ==
  \A t \in Thread :
    InOperation(t) /\ (\A i \in 2..Len(scopes[t]) : scopes[t][i] <= scopes[t][i-1])
      => InnermostSafepointOperation(t) = Top(t)

\* "Otherwise returns the innermost safepoint level of the current thread."
InnermostIsTop ==
  \A t \in Thread : InOperation(t) => InnermostSafepointOperation(t) = Top(t)

-----------------------------------------------------------------------------
(* Liveness. *)

\* The steps of t inside SafepointThreads and ResumeThreads; at each pc
\* exactly one of them is its next.
SafepointThreadsStep(t) ==
  \/ \E u \in Thread : NotifyThread(t, u) \/ SendCheckForReload(t, u)
                       \/ ContinueThread(t, u)
  \/ NotifyThreadsDone(t) \/ WaitUntilThreadsReachedSafepointLevel(t)
  \/ AcquireLowerLevelSafepoints(t) \/ StartOperation(t)
  \/ ResumeThreadsDone(t)

\* An isolate left in the middle of a scope is entered again.
ReenterScope(t) == (scopes[t] # <<>> \/ noReload[t] > 0) /\ EnterIsolate(t)

\* Threads inside the protocol keep going, notified waiters run, native calls
\* return and half-left scopes are entered again.
ProtocolFairness(t) ==
  /\ WF_vars(RetryAddActiveThread(t) \/ RetryExitSafepoint(t)
             \/ RetrySafepointThreads(t))
  /\ WF_vars(SafepointThreadsStep(t))
  /\ WF_vars(TransitionFromNative(t) \/ ReenterScope(t))

\* Operations and runtime calls end, and a mutator comes by an interrupt check
\* and a helper by a safepoint check, whatever they do in between.
DeoptFairness(t) ==
  /\ WF_vars(ResumeThreads(t))
  /\ SF_vars(LeaveRuntimeCallDeoptScope(t))
  /\ SF_vars(HandleVMInterrupt(t))
  /\ SF_vars(kind[t] = "helper" /\ CheckForSafepoint(t))

\* A reload may leave its isolate and enter it again, but ends; NoReloadScopes
\* and runtime calls end; a mutator comes by an interrupt check outside of its
\* NoReloadScopes too.
ReloadFairness(t) ==
  /\ SF_vars(ResumeThreads(t))
  /\ SF_vars(LeaveRuntimeCallDeoptScope(t))
  /\ SF_vars(LeaveNoReloadScope(t))
  /\ SF_vars(HandleVMInterrupt(t))
  /\ SF_vars(noReload[t] = 0 /\ HandleCheckForReload(t))

\* There is no fairness for spurious wakeups, nor for starting an operation.
\* FairDeoptSpec is for groups that do not reload, FairReloadSpec for groups
\* of mutators that do.
FairDeoptSpec == Spec /\ \A t \in Thread : ProtocolFairness(t) /\ DeoptFairness(t)
FairReloadSpec == Spec /\ \A t \in Thread : ProtocolFairness(t) /\ ReloadFairness(t)

\* Once a thread has set a level in progress its operation starts: every
\* thread it waits for checks in, be it in native code, in a runtime call that
\* cannot deopt, in a NoReloadScope that drops the reload message, or in an
\* operation of its own.
OperationStarts ==
  \A t \in Thread :
    pc[t] \in {"spNotify", "spSend", "spAcquire", "spExit"} ~> InOperation(t)

\* A thread that waits for an operation to end is notified.
WaiterIsNotified == \A t \in Thread : t \in waiting ~> t \notin waiting
=============================================================================
