----------------------------- MODULE GroupLocks -----------------------------
(***************************************************************************)
(* What the threads of an isolate group wait for, together: the slots that *)
(* limit the mutators inside the group, a SafepointRwLock, and the end of  *)
(* another thread's safepoint operation.                                   *)
(*                                                                         *)
(* Sources: runtime/vm/lockers.{h,cc}, IncreaseMutatorCount and            *)
(* DecreaseMutatorCount in runtime/vm/isolate.cc, EnterIsolate and         *)
(* ExitIsolate in runtime/vm/thread.cc.                                    *)
(*                                                                         *)
(* Grain.  A step is a critical section of the slots' monitor or of the    *)
(* lock's, or a move into or out of a safepoint.  Safepoint operations are *)
(* what module Safepoint shows them to be, at one level: a request holds   *)
(* every thread at a safepoint there, and the operation runs once all the  *)
(* other threads are at one.  The pool's side of leaving an isolate with   *)
(* frames on the stack, a blocked worker, is part of module ThreadPool.    *)
(***************************************************************************)
EXTENDS Integers, Sequences, FiniteSets

CONSTANTS
  Mutator,    \* bound: the mutator threads of the group's isolates
  Helper,     \* bound: its other threads, which need no slot
  MaxActive,  \* max_active_mutators_
  MaxScopes   \* bound: lock scopes inside each other on one thread

NoThread == "none"

ASSUME GroupConstants ==
  /\ Mutator \cap Helper = {}
  /\ IsFiniteSet(Mutator) /\ IsFiniteSet(Helper)
  /\ NoThread \notin Mutator \cup Helper
  /\ MaxActive \in Nat \ {0}
  /\ MaxScopes \in Nat

Thread == Mutator \cup Helper

VARIABLES
  pc,        \* where each thread is; see PCs
  active,    \* active_mutators_
  waiting,   \* waiting_mutators_
  slotSleep, \* threads in the wait of IncreaseMutatorCount, not notified
  state,     \* state_ of the lock: readers, or minus the writer's scopes
  writer,    \* writer_id_
  lockSleep, \* threads in a wait of the lock, not notified
  scopes,    \* the lock scopes on each thread's stack, the innermost last
  op,        \* the thread that has requested a safepoint operation
  exitFrame  \* its top_exit_frame_info(): not 0 with Dart frames on its stack

slotVars == <<active, waiting, slotSleep>>
lockVars == <<state, writer, lockSleep, scopes>>
opVars == <<op, exitFrame>>
vars == <<pc, slotVars, lockVars, opVars>>

(***************************************************************************)
(* "out": the isolate is not entered.  "slotWait": inside the wait of      *)
(* IncreaseMutatorCount.  "entering": may leave the safepoint.  "in": runs *)
(* in the group.  "leaving": at a safepoint, its slot not yet released.    *)
(* "parked": stopped by another thread's operation.  "read", "write":      *)
(* blocked for the lock, at a safepoint.  "locked": has got it, still      *)
(* there.  "stopping", "operating": waits for the other threads to stop,   *)
(* runs its operation.                                                     *)
(***************************************************************************)
PCs == {"out", "slotWait", "entering", "in", "leaving", "parked", "read",
        "write", "locked", "stopping", "operating"}

\* "read": a scope that holds the lock for reading; "free": a read scope of
\* the writer, which holds nothing; "write": a scope of the writer.
Scope == {"read", "free", "write"}

AtSafepoint(t) == pc[t] \notin {"in", "stopping", "operating"}

OwnsSafepoint(t) == op = t

\* A mutant of KeepsSlot: the owner is treated as everybody else.
KeepsNothing(t) == FALSE

\* is_nested_exit and is_nested_reenter, for the owner of an operation: with
\* frames on its stack it keeps its slot while it is outside its isolate.
KeepsSlot(t) == exitFrame # 0 /\ OwnsSafepoint(t)

TypeOK ==
  /\ pc \in [Thread -> PCs]
  /\ active \in 0 .. MaxActive
  /\ waiting \in Nat
  /\ slotSleep \subseteq Mutator /\ lockSleep \subseteq Thread
  /\ state \in Int
  /\ writer \in Thread \cup {NoThread}
  /\ scopes \in [Thread -> Seq(Scope)]
  /\ \A t \in Thread : Len(scopes[t]) <= MaxScopes
  /\ op \in Thread \cup {NoThread}
  /\ exitFrame \in {0, 1}

Init ==
  /\ pc = [t \in Thread |-> IF t \in Mutator THEN "out" ELSE "in"]
  /\ active = 0 /\ waiting = 0 /\ slotSleep = {}
  /\ state = 0 /\ writer = NoThread /\ lockSleep = {}
  /\ scopes = [t \in Thread |-> <<>>]
  /\ op = NoThread /\ exitFrame = 0

Goto(t, p) == pc' = [pc EXCEPT ![t] = p]

-----------------------------------------------------------------------------
(* Entering and leaving an isolate. *)

\* A mutant of IncreaseMutatorCount: counted as waiting once per wait, and
\* taken off once.
IncreaseAndWaitAgain(t, woken) ==
  \/ /\ active = MaxActive
     /\ waiting' = waiting + 1
     /\ slotSleep' = slotSleep \cup {t}
     /\ Goto(t, "slotWait")
     /\ UNCHANGED active
  \/ /\ active # MaxActive
     /\ waiting' = waiting - woken
     /\ active' = active + 1
     /\ Goto(t, "entering")
     /\ UNCHANGED slotSleep

\* A look at the condition of the loop in IncreaseMutatorCount, by a thread
\* that comes in (woken = 0) or returns from the wait (woken = 1).
IncreaseMutatorCount(t, woken) ==
  \/ /\ active = MaxActive
     /\ waiting' = waiting - woken + 1
     /\ slotSleep' = slotSleep \cup {t}
     /\ Goto(t, "slotWait")
     /\ UNCHANGED active
  \/ /\ active # MaxActive
     /\ waiting' = waiting - woken
     /\ active' = active + 1
     /\ Goto(t, "entering")
     /\ UNCHANGED slotSleep

\* A mutant of NotifySlot: one waiter too many.
NotifySlotForTwo ==
  \/ waiting > 1 /\ \E t \in slotSleep : slotSleep' = slotSleep \ {t}
  \/ (waiting <= 1 \/ slotSleep = {}) /\ UNCHANGED slotSleep

NotifySlot ==
  \/ waiting > 0 /\ \E t \in slotSleep : slotSleep' = slotSleep \ {t}
  \/ (waiting = 0 \/ slotSleep = {}) /\ UNCHANGED slotSleep

DecreaseMutatorCount ==
  /\ active' = active - 1
  /\ NotifySlot
  /\ UNCHANGED waiting

\* The owner of an operation that kept its slot comes back without a wait;
\* one without frames on its stack has to get a slot again.
EnterIsolate(t) ==
  /\ t \in Mutator /\ pc[t] = "out"
  /\ \/ KeepsSlot(t) /\ Goto(t, "entering") /\ UNCHANGED slotVars
     \/ ~KeepsSlot(t) /\ IncreaseMutatorCount(t, 0)
  /\ UNCHANGED <<lockVars, opVars>>

SlotWaitReturns(t) ==
  /\ pc[t] = "slotWait" /\ t \notin slotSleep
  /\ IncreaseMutatorCount(t, 1)
  /\ UNCHANGED <<lockVars, opVars>>

\* The end of EnterIsolate, of a check and of waiting for the lock; an
\* operation holds the other threads back.
ExitSafepoint(t) ==
  /\ pc[t] \in {"entering", "parked", "locked"}
  /\ \/ op = NoThread /\ Goto(t, "in")
     \/ op = t /\ Goto(t, "operating")
  /\ UNCHANGED <<slotVars, lockVars, opVars>>

\* ExitIsolate goes to the safepoint first.  Nobody leaves an isolate with
\* a lock held, except inside an operation.
ExitIsolate(t) ==
  /\ t \in Mutator
  /\ pc[t] = "operating" \/ (pc[t] = "in" /\ scopes[t] = <<>>)
  /\ Goto(t, "leaving")
  /\ UNCHANGED <<slotVars, lockVars, opVars>>

ReleaseSlot(t) ==
  /\ pc[t] = "leaving"
  /\ \/ KeepsSlot(t) /\ UNCHANGED slotVars
     \/ ~KeepsSlot(t) /\ DecreaseMutatorCount
  /\ Goto(t, "out")
  /\ UNCHANGED <<lockVars, opVars>>

-----------------------------------------------------------------------------
(* The lock. *)

Push(t, scope) == scopes' = [scopes EXCEPT ![t] = Append(@, scope)]

Pop(t) == scopes' = [scopes EXCEPT ![t] = SubSeq(@, 1, Len(@) - 1)]

\* TryEnterRead up to its wait; p is where the thread goes with the lock.
TryEnterRead(t, p) ==
  \/ /\ writer = t
     /\ Push(t, "free") /\ Goto(t, p)
     /\ UNCHANGED <<state, writer, lockSleep>>
  \/ /\ writer # t /\ state >= 0
     /\ state' = state + 1
     /\ Push(t, "read") /\ Goto(t, p)
     /\ UNCHANGED <<writer, lockSleep>>

TryEnterWrite(t, p) ==
  \/ /\ writer = t
     /\ state' = state - 1
     /\ Push(t, "write") /\ Goto(t, p)
     /\ UNCHANGED <<writer, lockSleep>>
  \/ /\ writer # t /\ state = 0
     /\ writer' = t /\ state' = -1
     /\ Push(t, "write") /\ Goto(t, p)
     /\ UNCHANGED lockSleep

\* TransitionVMToBlocked.
Block(t, p) == Goto(t, p) /\ UNCHANGED lockVars

\* Inside an operation only a lock the thread already has may be entered
\* again, as the assertions of EnterRead and EnterWrite say.
EnterRead(t) ==
  /\ pc[t] = "in" \/ (pc[t] = "operating" /\ scopes[t] # <<>>)
  /\ Len(scopes[t]) < MaxScopes
  /\ \/ TryEnterRead(t, pc[t])
     \/ writer # t /\ state < 0 /\ Block(t, "read")
  /\ UNCHANGED <<slotVars, opVars>>

\* A reader does not ask for the lock as a writer.
EnterWrite(t) ==
  /\ pc[t] = "in" \/ (pc[t] = "operating" /\ writer = t)
  /\ writer = t \/ scopes[t] = <<>>
  /\ Len(scopes[t]) < MaxScopes
  /\ \/ TryEnterWrite(t, pc[t])
     \/ writer # t /\ state # 0 /\ Block(t, "write")
  /\ UNCHANGED <<slotVars, opVars>>

LockWait(t) ==
  /\ lockSleep' = lockSleep \cup {t}
  /\ UNCHANGED <<pc, state, writer, scopes>>

\* The blocked thread looks at the lock, at first or when notified.
BlockedEnterRead(t) ==
  /\ pc[t] = "read" /\ t \notin lockSleep
  /\ \/ TryEnterRead(t, "locked")
     \/ state < 0 /\ LockWait(t)
  /\ UNCHANGED <<slotVars, opVars>>

BlockedEnterWrite(t) ==
  /\ pc[t] = "write" /\ t \notin lockSleep
  /\ \/ TryEnterWrite(t, "locked")
     \/ state # 0 /\ LockWait(t)
  /\ UNCHANGED <<slotVars, opVars>>

HasScope(t, scope) ==
  /\ pc[t] \in {"in", "operating"}
  /\ scopes[t] # <<>> /\ scopes[t][Len(scopes[t])] = scope
  /\ Pop(t)

LeaveRead(t) ==
  /\ HasScope(t, "read")
  /\ state' = state - 1
  /\ lockSleep' = IF state' = 0 THEN {} ELSE lockSleep
  /\ UNCHANGED <<pc, writer, slotVars, opVars>>

LeaveFree(t) ==
  /\ HasScope(t, "free")
  /\ UNCHANGED <<pc, state, writer, lockSleep, slotVars, opVars>>

\* A mutant of LeaveWrite: the writer is gone with its innermost scope.
LeaveWriteAtOnce(t) ==
  /\ HasScope(t, "write")
  /\ state' = state + 1
  /\ writer' = NoThread
  /\ lockSleep' = {}
  /\ UNCHANGED <<pc, slotVars, opVars>>

LeaveWrite(t) ==
  /\ HasScope(t, "write")
  /\ state' = state + 1
  /\ \/ state' < 0 /\ UNCHANGED <<writer, lockSleep>>
     \/ state' = 0 /\ writer' = NoThread /\ lockSleep' = {}
  /\ UNCHANGED <<pc, slotVars, opVars>>

-----------------------------------------------------------------------------
(* Safepoint operations, as module Safepoint has them. *)

\* The frames on the owner's stack stay as they are: no Dart code runs in an
\* operation.
RequestOperation(t) ==
  /\ pc[t] = "in" /\ op = NoThread
  /\ op' = t
  /\ exitFrame' \in IF t \in Mutator THEN {0, 1} ELSE {0}
  /\ Goto(t, "stopping")
  /\ UNCHANGED <<slotVars, lockVars>>

RunOperation(t) ==
  /\ pc[t] = "stopping"
  /\ \A u \in Thread \ {t} : AtSafepoint(u)
  /\ Goto(t, "operating")
  /\ UNCHANGED <<slotVars, lockVars, opVars>>

EndOperation(t) ==
  /\ pc[t] = "operating"
  /\ op' = NoThread /\ exitFrame' = 0
  /\ Goto(t, "in")
  /\ UNCHANGED <<slotVars, lockVars>>

Park(t) ==
  /\ pc[t] = "in" /\ op # NoThread
  /\ Goto(t, "parked")
  /\ UNCHANGED <<slotVars, lockVars, opVars>>

SpuriousWakeup(t) ==
  /\ t \in slotSleep \cup lockSleep
  /\ slotSleep' = slotSleep \ {t}
  /\ lockSleep' = lockSleep \ {t}
  /\ UNCHANGED <<pc, active, waiting, state, writer, scopes, opVars>>

-----------------------------------------------------------------------------
LeaveScope(t) == LeaveRead(t) \/ LeaveFree(t) \/ LeaveWrite(t)

Next ==
  \E t \in Thread :
    \/ EnterIsolate(t) \/ SlotWaitReturns(t) \/ ExitSafepoint(t)
    \/ ExitIsolate(t) \/ ReleaseSlot(t)
    \/ EnterRead(t) \/ EnterWrite(t)
    \/ BlockedEnterRead(t) \/ BlockedEnterWrite(t)
    \/ LeaveScope(t)
    \/ RequestOperation(t) \/ RunOperation(t) \/ EndOperation(t)
    \/ Park(t) \/ SpuriousWakeup(t)

Spec == Init /\ [][Next]_vars

\* Threads go on: they reach a safepoint check, end what they have started
\* and, inside an operation, come back to their isolate and end it.
FairSpec ==
  /\ Spec
  /\ \A t \in Thread :
       /\ WF_vars(SlotWaitReturns(t) \/ ExitSafepoint(t) \/ ReleaseSlot(t))
       /\ WF_vars(BlockedEnterRead(t) \/ BlockedEnterWrite(t))
       /\ WF_vars(Park(t))
       /\ WF_vars(RunOperation(t))
       /\ WF_vars(op = t /\ EnterIsolate(t))
       /\ SF_vars(EndOperation(t))

-----------------------------------------------------------------------------
(* Properties. *)

(***************************************************************************)
(* active_mutators_ counts the mutators that are inside the group or on    *)
(* their way in or out, and with them the owner of an operation that has   *)
(* left its isolate with frames on its stack and so kept its slot; an      *)
(* owner without frames gives it back and takes one when it returns.       *)
(* waiting_mutators_ counts those in the wait of IncreaseMutatorCount.     *)
(***************************************************************************)
SlotsAreExact ==
  /\ active = Cardinality({t \in Mutator :
                             pc[t] \notin {"out", "slotWait"} \/ (exitFrame # 0 /\ op = t)})
  /\ waiting = Cardinality({t \in Mutator : pc[t] = "slotWait"})

(***************************************************************************)
(* DecreaseMutatorCount notifies one waiter: no mutator sleeps on while a  *)
(* slot is free that no mutator already woken is going to take.            *)
(***************************************************************************)
NoIdleSlot ==
  LET awake == {t \in Mutator : pc[t] = "slotWait"} \ slotSleep
  IN  slotSleep # {} => MaxActive - active <= Cardinality(awake)

Scopes(t, scope) == {i \in 1 .. Len(scopes[t]) : scopes[t][i] = scope}

Reads == {r \in Thread \X (1 .. MaxScopes) : r[2] \in Scopes(r[1], "read")}

(***************************************************************************)
(* SafepointRwLock excludes: a writer holds the lock alone, and state_ is  *)
(* minus the number of its write scopes; without one, state_ is the number *)
(* of read scopes and every scope is one.                                  *)
(***************************************************************************)
LockIsExact ==
  /\ writer # NoThread =>
       /\ state = -Cardinality(Scopes(writer, "write")) /\ state < 0
       /\ \A t \in Thread : t # writer => scopes[t] = <<>>
       /\ Scopes(writer, "read") = {}
  /\ writer = NoThread =>
       /\ state = Cardinality(Reads)
       /\ \A t \in Thread : Scopes(t, "read") = 1 .. Len(scopes[t])

\* The operation of t cannot go on: t has given back its slot and waits for
\* one, and those who have the slots are held back until the operation ends.
OwnerWaitsForSlot(t) ==
  /\ t \in Mutator /\ exitFrame = 0 /\ pc[t] = "slotWait"
  /\ active = MaxActive
  /\ \A u \in Mutator : pc[u] \in {"out", "slotWait", "entering", "parked",
                                   "read", "write", "locked"}

(***************************************************************************)
(* Whoever holds a slot or the lock when an operation is requested, and    *)
(* whoever waits for one, the operation runs and ends: a thread blocks for *)
(* a slot or the lock at a safepoint, and an owner with frames on its      *)
(* stack keeps its slot when it leaves its isolate (ExitIsolate).  The one *)
(* exception is an owner without frames, which gives its slot back:        *)
(* mutators that take all the slots meanwhile are held back by its         *)
(* operation, and it waits for one of their slots.                         *)
(***************************************************************************)
OperationEnds ==
  \A t \in Thread : op = t ~> op = NoThread \/ OwnerWaitsForSlot(t)
=============================================================================
