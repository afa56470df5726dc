------------------------- MODULE SafepointInvariant -------------------------
(***************************************************************************)
(* The inductive invariant of the safepoint protocol.                      *)
(***************************************************************************)
EXTENDS Safepoint

-----------------------------------------------------------------------------
(* The inductive invariant. *)

AwakePCs == {"free", "addWait", "running", "op", "resume"}
StartPCs == {"spWait", "spNotify", "spSend", "spAcquire", "spExit"}
BlockedPCs == {"blocked", "blockedReload"}
LockPCs == {"spNotify", "resume"}

\* t runs an operation; it is never blocked while it does.
Operating(t) == scopes[t] # <<>> /\ pc[t] \in {"op", "native", "suspended"}

\* u takes part in safepoints.
Participates(u) == u \in Active /\ kind[u] # "bypass"

Types ==
  /\ pc \in [Thread -> PCs]
  /\ kind \in [Thread -> {"mutator", "helper", "bypass"}]
  /\ at \in [Thread -> SUBSET Level]
  /\ req \in [Thread -> SUBSET Level]
  /\ blocked \in [Thread -> BOOLEAN]
  /\ cannotLazyDeopt \in [Thread -> BOOLEAN]
  /\ noReload \in [Thread -> Nat]
  /\ vmInterrupt \in [Thread -> BOOLEAN]
  /\ oob \in [Thread -> BOOLEAN]
  /\ scopes \in [Thread -> Seq(Level)]
  /\ waiting \in SUBSET Thread
  /\ owner \in [Level -> Thread \cup {NoThread}]
  /\ count \in [Level -> Int]
  /\ notParked \in [Level -> Int]
  /\ iter \in SUBSET Thread
  /\ oobIsolates \in SUBSET Thread

\* The At bits of a thread are those of the level it parked at.
ParkLevel(t) ==
  IF pc[t] \in StartPCs THEN Top(t)
  ELSE IF pc[t] = "suspended" THEN ReloadScopeLevel(t)
  ELSE current_safepoint_level(t)
Parking(t) ==
  /\ at[t] = IF pc[t] \in AwakePCs THEN {} ELSE 0..ParkLevel(t)
  /\ blocked[t] <=> pc[t] \in BlockedPCs

\* Which scopes a thread has open where, and who is never requested.
Scoping(t) ==
  /\ pc[t] \in {"free", "addWait", "running"} \cup BlockedPCs => scopes[t] = <<>>
  /\ pc[t] \in StartPCs \cup {"resume"} => Len(scopes[t]) = 1
  /\ pc[t] = "op" => scopes[t] # <<>>
  /\ \A i \in 1..Len(scopes[t]) : scopes[t][i] <= scopes[t][1]
  /\ pc[t] \in {"native", "suspended"} /\ scopes[t] # <<>>
       => scopes[t][1] = kGCAndDeoptAndReload
  /\ kind[t] = "bypass" => scopes[t] = <<>>

\* The levels a thread owns.
Holds(t, l) ==
  \/ pc[t] \in {"spNotify", "spSend", "spAcquire"} /\ l = scopes[t][1]
  \/ (pc[t] = "spExit" \/ Operating(t)) /\ l <= scopes[t][1]
Owning == \A t \in Thread, l \in Level : owner[l] = t <=> Holds(t, l)

\* operation_count_.
OpenScopes(t, l) == {i \in 1..Len(scopes[t]) : scopes[t][i] >= l}
Counting ==
  \A l \in Level :
    /\ owner[l] = NoThread <=> count[l] = 0
    /\ \A t \in Thread : Holds(t, l) => count[l] = Cardinality(OpenScopes(t, l))

\* threads_lock and the walks under it.
Locking ==
  /\ \A r, s \in Thread : pc[r] \in LockPCs /\ pc[s] \in LockPCs => r = s
  /\ iter \subseteq Active
  /\ \A r \in Thread : pc[r] \in LockPCs => r \notin iter
  /\ ThreadsLockFree => iter = {}
  /\ \A r \in Thread : pc[r] = "resume" =>
       \A i \in Level : i <= scopes[r][1] => owner[i] = NoThread

\* t is the thread whose operation has level l requested of u.
Requests(t, l, u) ==
  /\ t # u /\ scopes[t] # <<>> /\ l = scopes[t][1]
  /\ \/ pc[t] = "spNotify" /\ u \notin iter
     \/ pc[t] \in {"spSend", "spAcquire", "spExit"} \/ Operating(t)
     \/ pc[t] = "resume" /\ u \in iter
Requesting ==
  \A u \in Thread, l \in Level :
    l \in req[u] <=> Participates(u) /\ \E t \in Thread : Requests(t, l, u)

\* From the end of the wait on, all others stay parked at the level.
Stopping ==
  \A t, u \in Thread :
    /\ t # u /\ Participates(u) /\ scopes[t] # <<>>
    /\ \/ pc[t] \in {"spAcquire", "spExit"} \/ Operating(t)
       \/ pc[t] = "resume" /\ u \in iter
    => scopes[t][1] \in at[u]

Waiting ==
  \A t \in waiting :
    \/ pc[t] \in BlockedPCs /\ IsSafepointRequested(t, current_safepoint_level(t))
    \/ pc[t] = "addWait" /\ ((\E l \in Level : owner[l] # NoThread)
                             \/ \E r \in Thread : pc[r] = "resume")
    \/ pc[t] = "spWait" /\ (owner[scopes[t][1]] # NoThread
                            \/ \E r \in Thread : pc[r] = "resume")

IInv ==
  /\ Types
  /\ \A t \in Thread : Parking(t) /\ Scoping(t)
  /\ Owning /\ Counting /\ Locking /\ Requesting /\ Stopping
  /\ NotParkedIsExact
  /\ Waiting

=============================================================================
