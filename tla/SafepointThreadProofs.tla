----------------------- MODULE SafepointThreadProofs ------------------------
(***************************************************************************)
(* The lemmas about the operators of module Safepoint that the proofs rest *)
(* on, and the steps in which a thread enters or leaves a safepoint, joins *)
(* or leaves the isolate group, changes its safepoint level or begins to   *)
(* stop the others (SafepointThreads): they keep the invariant.            *)
(***************************************************************************)
EXTENDS SafepointInvariant, FiniteSetTheorems, TLAPS

(* A leaf that names no prover is tried with the SMT solver, then Zenon.   *)
USE SMTT(30), Z3T(30), ZenonT(20)

-----------------------------------------------------------------------------
(* Lemmas about the operators. *)
\* A thread's safepoint level is a level, and a ReloadParticipationScope does
\* not lower it.
LEMMA LevelIsLevel ==
  ASSUME Types, NEW t \in Thread
  PROVE  /\ current_safepoint_level(t) \in Level
         /\ ReloadScopeLevel(t) \in Level
         /\ current_safepoint_level(t) <= ReloadScopeLevel(t)
         /\ \A b \in BOOLEAN : SafepointLevelIf(t, b) \in Level
BY DEF Types, current_safepoint_level, ReloadScopeLevel, SafepointLevelIf,
       Level, kGC, kGCAndDeopt, kGCAndDeoptAndReload

\* AtSafepointBits of a level are levels.
LEMMA UptoLevel == \A l \in Level : 0..l \in SUBSET Level
BY DEF Level, kGC, kGCAndDeoptAndReload

\* The types in a step that moves one thread and changes its At bits.
LEMMA TypesStep ==
  ASSUME Types, NEW t \in Thread, NEW p \in PCs, NEW b \in BOOLEAN, NEW a \in SUBSET Level,
         pc' = [pc EXCEPT ![t] = p],
         blocked' = [blocked EXCEPT ![t] = b],
         at' = at \/ at' = [at EXCEPT ![t] = a],
         waiting' \in SUBSET Thread, notParked' \in [Level -> Int],
         vmInterrupt' \in [Thread -> BOOLEAN], oob' \in [Thread -> BOOLEAN],
         UNCHANGED <<threadVars, req, levelVars, scopes, iter, oobIsolates>>
  PROVE  Types'
<1>1. pc' \in [Thread -> PCs] /\ blocked' \in [Thread -> BOOLEAN]
  BY DEF Types
<1>2. at' \in [Thread -> SUBSET Level]
  BY ZenonT(20) DEF Types
<1>3. QED
  BY <1>1, <1>2, Zenon DEF Types, threadVars, levelVars

\* The counted sets are finite, and lose or gain one thread at a time.
LEMMA MissingIsFinite ==
  ASSUME NEW l PROVE IsFiniteSet(Missing(l)) /\ Cardinality(Missing(l)) \in Nat
<1>1. Missing(l) \subseteq Thread
  BY DEF Missing
<1>2. QED
  BY <1>1, ConstantsAssumption, FS_Subset, FS_CardinalityType

\* What the handlers' fields, the locks and the requests say depends on the
\* threads' places only as far as the listed formulas tell them apart.
LEMMA ProtocolFrame ==
  ASSUME IInv,
         UNCHANGED <<owner, count, iter, req, scopes, kind>>,
         \A u \in Thread :
           /\ Operating(u)' <=> Operating(u)
           /\ \A p \in {"free", "addWait", "spNotify", "spSend", "spAcquire", "spExit", "resume"} :
                pc'[u] = p <=> pc[u] = p
  PROVE  /\ Owning' /\ Counting' /\ Locking' /\ Requesting'
         /\ Active' = Active
         /\ \A u \in Thread : Participates(u)' <=> Participates(u)
         /\ \A t, u \in Thread, l \in Level : Requests(t, l, u)' <=> Requests(t, l, u)
<1>0. Active' = Active
  BY DEF Active
<1>1. \A u \in Thread : Participates(u)' <=> Participates(u)
  BY <1>0 DEF Participates
<1>2. \A t \in Thread, l \in Level : Holds(t, l)' <=> Holds(t, l)
  BY DEF Holds
<1>3. \A t, u \in Thread, l \in Level : Requests(t, l, u)' <=> Requests(t, l, u)
  BY DEF Requests
<1>4. Owning'
  BY <1>2 DEF IInv, Owning
<1>5. Counting'
  BY <1>2 DEF IInv, Counting, OpenScopes
<1>6. Locking'
  BY <1>0 DEF IInv, Locking, LockPCs, ThreadsLockFree
<1>7. Requesting'
  BY <1>1, <1>3 DEF IInv, Requesting
<1>8. QED
  BY <1>0, <1>1, <1>3, <1>4, <1>5, <1>6, <1>7

\* Owners and counts stay right when nobody comes to hold a level, or ceases to.
LEMMA OwningFrame ==
  ASSUME IInv, UNCHANGED <<owner, count, scopes>>,
         \A t \in Thread, l \in Level : Holds(t, l)' <=> Holds(t, l)
  PROVE  Owning' /\ Counting'
<1>1. Owning'
  BY DEF IInv, Owning
<1>2. Counting'
  BY DEF IInv, Counting, OpenScopes
<1>3. QED
  BY <1>1, <1>2

\* A thread that is at a level that is requested of it stays parked.
LEMMA StoppingFrame ==
  ASSUME IInv,
         UNCHANGED <<iter, scopes>>,
         \A u \in Thread :
           /\ Participates(u)' <=> Participates(u)
           /\ Operating(u)' <=> Operating(u)
           /\ \A p \in {"spAcquire", "spExit", "resume"} : pc'[u] = p <=> pc[u] = p
           /\ \A l \in Level : l \in req[u] /\ l \in at[u] => l \in at'[u]
  PROVE  Stopping'
<1>1. ASSUME NEW t \in Thread, NEW u \in Thread, t # u,
             Participates(u), scopes[t] # <<>>,
             \/ pc[t] \in {"spAcquire", "spExit"} \/ Operating(t)
             \/ pc[t] = "resume" /\ u \in iter
      PROVE  scopes[t][1] \in at'[u]
  <2>1. scopes[t][1] \in Level
    BY <1>1 DEF IInv, Types
  <2>2. scopes[t][1] \in at[u]
    BY <1>1 DEF IInv, Stopping
  <2>3. Requests(t, scopes[t][1], u)
    BY <1>1 DEF Requests
  <2>4. scopes[t][1] \in req[u]
    BY <1>1, <2>1, <2>3 DEF IInv, Requesting
  <2>5. QED
    BY <2>1, <2>2, <2>4
<1>2. QED
  BY <1>1 DEF Stopping

\* num_threads_not_parked_ stays exact when nobody parks or leaves for it.
LEMMA NotParkedFrame ==
  ASSUME NotParkedIsExact, UNCHANGED <<notParked, req>>,
         \A u \in Thread, l \in Level : l \in req[u] => (l \in at'[u] <=> l \in at[u])
  PROVE  NotParkedIsExact'
<1>1. \A l \in Level : Missing(l)' = Missing(l)
  BY DEF Missing
<1>2. QED
  BY <1>1 DEF NotParkedIsExact

\* NotifyWeAreParked, called once for each requested level, keeps it exact.
LEMMA NotifyParkedIsExact ==
  ASSUME IInv, NEW t \in Thread, at[t] = {}, NEW l \in Level,
         NotifyParked(t, l), UNCHANGED req, at' = [at EXCEPT ![t] = 0..l]
  PROVE  NotParkedIsExact' /\ notParked' \in [Level -> Int]
<1>1. ASSUME NEW i \in Level PROVE notParked'[i] = Cardinality(Missing(i)')
  <2>1. CASE i <= l /\ i \in req[t]
    <3>1. t \in Missing(i) /\ Missing(i)' = Missing(i) \ {t}
      <4>1. i \in 0..l
        BY <2>1 DEF Level, kGC, kGCAndDeoptAndReload
      <4>2. i \in at'[t] /\ \A u \in Thread \ {t} : at'[u] = at[u]
        BY <4>1 DEF IInv, Types
      <4>3. QED
        BY <2>1, <4>2 DEF Missing
    <3>2. Cardinality(Missing(i) \ {t}) = Cardinality(Missing(i)) - 1
      BY <3>1, MissingIsFinite, FS_RemoveElement, Zenon
    <3>3. QED
      BY <2>1, <3>1, <3>2 DEF NotifyParked, IInv, NotParkedIsExact
  <2>2. CASE ~(i <= l /\ i \in req[t])
    <3>1. Missing(i)' = Missing(i)
      <4>1. /\ \A u \in Thread \ {t} : at'[u] = at[u]
            /\ i \in req[t] => i \notin at'[t]
        BY <2>2 DEF IInv, Types, Level, kGC, kGCAndDeoptAndReload
      <4>2. QED
        BY <4>1 DEF Missing
    <3>2. QED
      BY <2>2, <3>1 DEF NotifyParked, IInv, NotParkedIsExact
  <2>3. QED
    BY <2>1, <2>2
<1>2. notParked' \in [Level -> Int]
  BY DEF NotifyParked, IInv, Types
<1>3. QED
  BY <1>1, <1>2 DEF NotParkedIsExact

\* Both ways of entering a safepoint have the same effect.
LEMMA EnterSafepointEffect ==
  ASSUME IInv, NEW t \in Thread, at[t] = {}, NEW l \in Level, UNCHANGED req,
         EnterSafepoint(t, l) \/ EnterSafepointLocked(t, l)
  PROVE  /\ at' = [at EXCEPT ![t] = 0..l]
         /\ NotParkedIsExact' /\ notParked' \in [Level -> Int]
<1>1. at' = [at EXCEPT ![t] = 0..l]
  BY DEF EnterSafepoint, EnterSafepointLocked, IInv, Types
<1>2. CASE NotifyParked(t, l)
  BY <1>1, <1>2, NotifyParkedIsExact, Zenon
<1>3. CASE WordIs(t, {}) /\ UNCHANGED notParked
  <2>1. req[t] = {}
    BY <1>3 DEF WordIs
  <2>2. NotParkedIsExact'
    BY <1>1, <1>3, <2>1, NotParkedFrame DEF IInv, Types
  <2>3. QED
    BY <1>1, <1>3, <2>2 DEF IInv, Types
<1>4. QED
  BY <1>2, <1>3 DEF EnterSafepoint, EnterSafepointLocked

\* Both ways of leaving a safepoint have the same effect: the thread leaves,
\* or a requested level holds it back.
LEMMA ExitSafepointEffect ==
  ASSUME IInv, NEW t \in Thread, NEW l \in Level, at[t] = 0..l, NEW w,
         ExitSafepoint(t, l, w) \/ ExitSafepointLocked(t, l, w)
  PROVE  \/ /\ IsSafepointRequested(t, l)
            /\ blocked' = [blocked EXCEPT ![t] = TRUE]
            /\ waiting' = waiting \cup {t}
            /\ pc' = [pc EXCEPT ![t] = w]
            /\ at' = at
         \/ /\ ~IsSafepointRequested(t, l)
            /\ blocked' = [blocked EXCEPT ![t] = FALSE]
            /\ waiting' = waiting
            /\ pc' = [pc EXCEPT ![t] = Home(t)]
            /\ at' = [at EXCEPT ![t] = {}]
<1>1. CASE ExitSafepointLocked(t, l, w)
  BY <1>1 DEF ExitSafepointLocked, IInv, Types
<1>2. CASE ExitSafepoint(t, l, w) /\ WordIs(t, 0..l)
  BY <1>2 DEF ExitSafepoint, WordIs, IsSafepointRequested, IInv, Types
<1>3. QED
  BY <1>1, <1>2 DEF ExitSafepoint

-----------------------------------------------------------------------------
(* Steps of one thread that leave the handlers alone. *)

LocalPCs == {"running", "native", "suspended", "op"} \cup BlockedPCs

\* A step of t between the places of LocalPCs, or one in which t does not
\* move, preserves the invariant if t itself is left as the invariant says and
\* does not leave a safepoint at a level that is requested of it.
LEMMA LocalStep ==
  ASSUME IInv, NEW t \in Thread, Types',
         UNCHANGED <<owner, count, iter, req, scopes, kind>>,
         pc'[t] = pc[t] \/ (pc[t] \in LocalPCs /\ pc'[t] \in LocalPCs),
         Operating(t)' <=> Operating(t),
         \A u \in Thread \ {t} :
           /\ pc'[u] = pc[u] /\ at'[u] = at[u] /\ blocked'[u] = blocked[u]
           /\ cannotLazyDeopt'[u] = cannotLazyDeopt[u]
           /\ noReload'[u] = noReload[u],
         Parking(t)' /\ Scoping(t)',
         \A l \in Level : l \in req[t] /\ l \in at[t] => l \in at'[t],
         NotParkedIsExact',
         waiting' \subseteq waiting \cup {t},
         t \in waiting' =>
           \/ pc'[t] \in BlockedPCs /\ IsSafepointRequested(t, current_safepoint_level(t)')
           \/ t \in waiting /\ pc'[t] = pc[t] /\ pc[t] \notin BlockedPCs
  PROVE  IInv'
<1>1. \A u \in Thread : Operating(u)' <=> Operating(u)
  BY DEF Operating
<1>2. \A u \in Thread :
        \A p \in {"free", "addWait", "spNotify", "spSend", "spAcquire", "spExit", "resume"} :
          pc'[u] = p <=> pc[u] = p
  BY DEF LocalPCs, BlockedPCs
<1>3. /\ Owning' /\ Counting' /\ Locking' /\ Requesting'
      /\ \A u \in Thread : Participates(u)' <=> Participates(u)
  BY <1>1, <1>2, ProtocolFrame
<1>4. Stopping'
  BY <1>1, <1>2, <1>3, StoppingFrame, ZenonT(30)
<1>5. \A u \in Thread \ {t} : current_safepoint_level(u)' = current_safepoint_level(u)
                              /\ ReloadScopeLevel(u)' = ReloadScopeLevel(u)
  BY DEF current_safepoint_level, ReloadScopeLevel, SafepointLevelIf, AllowReload
<1>6. \A u \in Thread \ {t} : Parking(u)' /\ Scoping(u)'
  BY <1>5 DEF IInv, Parking, Scoping, ParkLevel, Top
<1>7. Waiting'
  <2>1. SUFFICES ASSUME NEW u \in Thread, u \in waiting'
                 PROVE
          \/ pc'[u] \in BlockedPCs /\ IsSafepointRequested(u, current_safepoint_level(u))'
          \/ pc'[u] = "addWait" /\ ((\E l \in Level : owner'[l] # NoThread)
                                    \/ \E r \in Thread : pc'[r] = "resume")
          \/ pc'[u] = "spWait" /\ (owner'[scopes'[u][1]] # NoThread
                                   \/ \E r \in Thread : pc'[r] = "resume")
    BY DEF Waiting, Types
  <2>2. (\E r \in Thread : pc'[r] = "resume") <=> \E r \in Thread : pc[r] = "resume"
    BY <1>2, Zenon
  <2>4. CASE u # t
    <3>1. u \in waiting /\ pc'[u] = pc[u]
      BY <2>1, <2>4, Zenon
    <3>2. IsSafepointRequested(u, current_safepoint_level(u))'
            <=> IsSafepointRequested(u, current_safepoint_level(u))
      BY <2>4, <1>5, Zenon DEF IsSafepointRequested
    <3>3. \/ pc[u] \in BlockedPCs /\ IsSafepointRequested(u, current_safepoint_level(u))
          \/ pc[u] = "addWait" /\ ((\E l \in Level : owner[l] # NoThread)
                                   \/ \E r \in Thread : pc[r] = "resume")
          \/ pc[u] = "spWait" /\ (owner[scopes[u][1]] # NoThread
                                  \/ \E r \in Thread : pc[r] = "resume")
      BY <3>1, Zenon DEF IInv, Waiting
    <3>4. QED
      BY <2>2, <3>1, <3>2, <3>3, Zenon
  <2>5. CASE u = t
    <3>1. CASE pc'[t] \in BlockedPCs /\ IsSafepointRequested(t, current_safepoint_level(t)')
      <4>1. req' = req
        BY Zenon
      <4>2. QED
        BY <2>5, <3>1, <4>1, Zenon DEF IsSafepointRequested
    <3>2. CASE t \in waiting /\ pc'[t] = pc[t] /\ pc[t] \notin BlockedPCs
      <4>1. \/ pc[t] = "addWait" /\ ((\E l \in Level : owner[l] # NoThread)
                                     \/ \E r \in Thread : pc[r] = "resume")
            \/ pc[t] = "spWait" /\ (owner[scopes[t][1]] # NoThread
                                    \/ \E r \in Thread : pc[r] = "resume")
        BY <3>2, Zenon DEF IInv, Waiting
      <4>2. QED
        BY <2>2, <2>5, <3>2, <4>1, Zenon
    <3>3. QED
      BY <2>1, <2>5, <3>1, <3>2, Zenon
  <2>6. QED
    BY <2>4, <2>5, ZenonT(30)
<1>8. QED
  BY <1>3, <1>4, <1>6, <1>7 DEF IInv

\* The owner of a level is not requested to reach it, or a lower one: the
\* requesting thread would own that level too.
LEMMA OwnerNotRequested ==
  ASSUME IInv, NEW t \in Thread, pc[t] = "spExit" \/ Operating(t)
  PROVE  ~IsSafepointRequested(t, scopes[t][1])
<1>0. scopes[t][1] \in Level
  BY DEF IInv, Types, Scoping, Operating, StartPCs
<1> SUFFICES ASSUME NEW i \in Level, i <= scopes[t][1], i \in req[t] PROVE FALSE
  BY <1>0 DEF IsSafepointRequested, Level, kGC, kGCAndDeoptAndReload
<1>1. owner[i] = t
  <2>1. Holds(t, i)
    BY DEF Holds
  <2>2. QED
    BY <2>1 DEF IInv, Owning
<1>2. PICK s \in Thread : Requests(s, i, t)
  BY DEF IInv, Requesting
<1>3. CASE pc[s] = "resume"
  <2>1. i <= scopes[s][1]
    BY <1>2 DEF Requests, Level, kGC, kGCAndDeoptAndReload
  <2>2. owner[i] = NoThread
    BY <1>3, <2>1 DEF IInv, Locking
  <2>3. QED
    BY <1>1, <2>2, ConstantsAssumption
<1>4. CASE pc[s] # "resume"
  <2>1. Holds(s, i)
    BY <1>2, <1>4 DEF Requests, Holds, Level, kGC, kGCAndDeoptAndReload
  <2>2. QED
    BY <1>1, <1>2, <2>1 DEF IInv, Owning, Requests
<1>5. QED
  BY <1>3, <1>4

\* Where a thread is parked, and its scopes, are its own.
LEMMA OthersFrame ==
  ASSUME IInv, NEW t \in Thread,
         \A u \in Thread \ {t} :
           /\ pc'[u] = pc[u] /\ kind'[u] = kind[u] /\ scopes'[u] = scopes[u]
           /\ at'[u] = at[u] /\ blocked'[u] = blocked[u]
           /\ cannotLazyDeopt'[u] = cannotLazyDeopt[u]
           /\ noReload'[u] = noReload[u],
         Parking(t)' /\ Scoping(t)'
  PROVE  /\ \A u \in Thread : Parking(u)' /\ Scoping(u)'
         /\ \A u \in Thread \ {t} :
              current_safepoint_level(u)' = current_safepoint_level(u)
<1>1. \A u \in Thread \ {t} : current_safepoint_level(u)' = current_safepoint_level(u)
                              /\ ReloadScopeLevel(u)' = ReloadScopeLevel(u)
  BY DEF current_safepoint_level, ReloadScopeLevel, SafepointLevelIf, AllowReload
<1>2. \A u \in Thread \ {t} : Parking(u)' /\ Scoping(u)'
  BY <1>1 DEF IInv, Parking, Scoping, ParkLevel, Top
<1>3. QED
  BY <1>1, <1>2

\* A thread has finitely many scopes open at a level.
LEMMA OpenScopesFinite ==
  ASSUME Types, NEW t \in Thread, NEW l \in Level
  PROVE  IsFiniteSet(OpenScopes(t, l)) /\ Cardinality(OpenScopes(t, l)) \in Nat
<1>1. Len(scopes[t]) \in Nat
  BY DEF Types
<1>2. IsFiniteSet(1..Len(scopes[t]))
  BY <1>1, FS_Interval
<1>3. OpenScopes(t, l) \subseteq 1..Len(scopes[t])
  BY DEF OpenScopes
<1>4. QED
  BY <1>2, <1>3, FS_Subset, FS_CardinalityType

\* Inside SafepointThreads and ResumeThreads a thread has one scope open.
LEMMA OneScope ==
  ASSUME IInv, NEW t \in Thread, pc[t] \in StartPCs \cup {"resume"}
  PROVE  /\ scopes[t] # <<>> /\ scopes[t] = <<scopes[t][1]>>
         /\ Len(scopes[t]) = 1 /\ scopes[t][1] \in Level
         /\ Top(t) = scopes[t][1]
<1>1. Len(scopes[t]) = 1 /\ scopes[t] \in Seq(Level)
  BY DEF IInv, Scoping, Types
<1>2. QED
  BY <1>1 DEF Top

\* A thread that starts an operation (SafepointThreads) has one scope, and is
\* parked at its level.
LEMMA StartedScope ==
  ASSUME NEW t \in Thread, NEW l \in Level, scopes'[t] = <<l>>, at'[t] = 0..l,
         pc'[t] \in StartPCs, ~blocked'[t], kind'[t] # "bypass"
  PROVE  /\ Parking(t)' /\ Scoping(t)'
         /\ Len(scopes'[t]) = 1 /\ scopes'[t][1] = l /\ l >= l
<1>1. Len(scopes'[t]) = 1 /\ scopes'[t][1] = l /\ scopes'[t] # <<>>
  OBVIOUS
<1>2. l >= l /\ \A i \in 1..1 : scopes'[t][i] <= scopes'[t][1]
  BY <1>1 DEF Level, kGC, kGCAndDeoptAndReload
<1>3. /\ pc'[t] \notin AwakePCs \cup BlockedPCs
      /\ pc'[t] \notin {"free", "addWait", "running", "op", "native", "suspended"}
  BY DEF AwakePCs, StartPCs, BlockedPCs
<1>4. ParkLevel(t)' = l
  BY <1>1, Zenon DEF ParkLevel, Top
<1>5. Parking(t)'
  BY <1>3, <1>4, Zenon DEF Parking
<1>6. Scoping(t)'
  BY <1>1, <1>2, <1>3 DEF Scoping
<1>7. QED
  BY <1>1, <1>2, <1>5, <1>6, Zenon

\* A level is in progress exactly if it has an owner.
LEMMA InProgressOwned ==
  ASSUME IInv, NEW l \in Level
  PROVE  SafepointInProgress(l) <=> owner[l] # NoThread
<1>1. CASE owner[l] = NoThread
  BY <1>1 DEF SafepointInProgress
<1>2. CASE owner[l] # NoThread
  <2>1. owner[l] \in Thread
    BY <1>2 DEF IInv, Types
  <2>2. Holds(owner[l], l)
    BY <2>1 DEF IInv, Owning
  <2>3. count[l] = Cardinality(OpenScopes(owner[l], l)) /\ count[l] # 0
    BY <1>2, <2>1, <2>2 DEF IInv, Counting
  <2>4. Cardinality(OpenScopes(owner[l], l)) \in Nat
    BY <2>1, OpenScopesFinite DEF IInv
  <2>5. count[l] > 0
    BY <2>3, <2>4
  <2>6. QED
    BY <1>2, <2>5 DEF SafepointInProgress
<1>3. QED
  BY <1>1, <1>2

\* Nobody requests anything when no level has an owner and nobody resumes.
LEMMA NobodyRequests ==
  ASSUME IInv, ThreadsLockFree, ~AnySafepointInProgressLocked, NEW s \in Thread
  PROVE  /\ pc[s] \notin {"spNotify", "spSend", "spAcquire", "spExit", "resume"}
         /\ ~Operating(s)
<1>1. \A l \in Level : owner[l] = NoThread
  BY InProgressOwned DEF AnySafepointInProgressLocked
<1>2. \A l \in Level : ~Holds(s, l)
  BY <1>1, ConstantsAssumption DEF IInv, Owning
<1>3. scopes[s] # <<>> => scopes[s][1] \in Level
  BY DEF IInv, Types
<1>4. pc[s] \in {"spNotify", "spSend", "spAcquire", "spExit"} => scopes[s] # <<>>
  BY OneScope DEF StartPCs
<1>5. QED
  BY <1>2, <1>3, <1>4 DEF Holds, Operating, ThreadsLockFree, Level, kGC,
     kGCAndDeoptAndReload

\* A requester of level i owns it, unless it resumes.
LEMMA RequesterOwns ==
  ASSUME IInv, NEW s \in Thread, NEW u \in Thread, NEW i \in Level, Requests(s, i, u)
  PROVE  pc[s] = "resume" \/ owner[i] = s
<1>1. CASE pc[s] # "resume"
  <2>1. Holds(s, i)
    BY <1>1 DEF Requests, Holds, Level, kGC, kGCAndDeoptAndReload
  <2>2. QED
    BY <2>1 DEF IInv, Owning
<1>2. QED
  BY <1>1

-----------------------------------------------------------------------------
(* The steps. *)

\* A thread that may leave the VM runs no operation, or a reload.
LEMMA MayTransitionRuns ==
  ASSUME IInv, NEW t \in Thread, MayTransition(t)
  PROVE  scopes[t] # <<>> => scopes[t][1] = kGCAndDeoptAndReload
<1> SUFFICES ASSUME scopes[t] # <<>> PROVE scopes[t][1] = kGCAndDeoptAndReload
  OBVIOUS
<1>1. pc[t] = "op" /\ Operating(t) /\ scopes[t][1] \in Level
  BY DEF IInv, Scoping, Types, MayTransition, Operating
<1>2. owner[0] = t
  <2>1. Holds(t, 0)
    BY <1>1 DEF Holds, Level, kGC, kGCAndDeoptAndReload
  <2>2. QED
    BY <2>1 DEF IInv, Owning, Level, kGC, kGCAndDeoptAndReload
<1>3. owner[2] = t
  <2> DEFINE owned == {l \in Level : \A i \in 0..l : owner[i] = t}
             level == {l \in owned : \A i \in 1..l : count[i] >= count[i - 1]}
  <2>1. 0 \in level
    BY <1>2 DEF Level, kGC, kGCAndDeoptAndReload
  <2>2. \E l \in level : \A k \in level : k <= l
    <3>1. level \subseteq {0, 1, 2}
      BY DEF Level, kGC, kGCAndDeoptAndReload
    <3> HIDE DEF level
    <3>2. QED
      BY <2>1, <3>1
  <2>3. InnermostSafepointOperation(t) = CHOOSE l \in level : \A k \in level : k <= l
    BY <2>1 DEF InnermostSafepointOperation
  <2>4. InnermostSafepointOperation(t) \in level
    <3> HIDE DEF level
    <3> QED
      BY <2>2, <2>3
  <2>5. InnermostSafepointOperation(t) >= 2
    BY DEF MayTransition, CanAcquireSafepointLocks, kGCAndDeoptAndReload
  <2>6. QED
    BY <2>4, <2>5 DEF Level, kGC, kGCAndDeoptAndReload
<1>4. QED
  <2>1. Holds(t, 2)
    BY <1>3 DEF IInv, Owning, Level, kGC, kGCAndDeoptAndReload
  <2>2. QED
    BY <2>1, <1>1 DEF Holds, Operating, Level, kGC, kGCAndDeoptAndReload

\* TransitionVMToNative and TransitionVMToBlocked preserve the invariant.
LEMMA TransitionToNativeInv ==
  ASSUME IInv, NEW t \in Thread, TransitionToNative(t) PROVE IInv'
<1> DEFINE l == current_safepoint_level(t)
<1>1. l \in Level /\ at[t] = {} /\ pc[t] \in {"running", "op"}
  BY LevelIsLevel DEF IInv, Parking, TransitionToNative, MayTransition, AwakePCs
<1>2. scopes[t] # <<>> => scopes[t][1] = kGCAndDeoptAndReload
  BY MayTransitionRuns DEF TransitionToNative
<1>3. /\ at' = [at EXCEPT ![t] = 0..l] /\ NotParkedIsExact'
      /\ notParked' \in [Level -> Int]
  BY <1>1, EnterSafepointEffect DEF TransitionToNative
<1>4. Types'
  BY <1>1, <1>3, UptoLevel DEF IInv, Types, TransitionToNative, threadVars,
     signalVars, levelVars, PCs
<1>5. current_safepoint_level(t)' = l
  BY <1>1 DEF current_safepoint_level, SafepointLevelIf, AllowReload,
     TransitionToNative, threadVars, IInv, Types
<1>6. Parking(t)' /\ Scoping(t)'
  BY <1>1, <1>2, <1>3, <1>5 DEF IInv, Types, Parking, Scoping, ParkLevel,
     TransitionToNative, threadVars, AwakePCs, StartPCs, BlockedPCs
<1>7. Operating(t)' <=> Operating(t)
  BY <1>1 DEF Operating, TransitionToNative, IInv, Types, Scoping
<1>8. t \notin waiting
  BY <1>1 DEF IInv, Waiting, BlockedPCs
<1>9. QED
  BY <1>1, <1>3, <1>4, <1>6, <1>7, <1>8, LocalStep, Zenon
     DEF TransitionToNative, threadVars, levelVars, LocalPCs, IInv, Types

\* ExitIsolate, when the thread is kept, preserves the invariant.
LEMMA ExitIsolateInv ==
  ASSUME IInv, NEW t \in Thread, ExitIsolate(t) PROVE IInv'
<1> DEFINE l == ReloadScopeLevel(t)
<1>1. l \in Level /\ at[t] = {} /\ pc[t] \in {"running", "op"}
  BY LevelIsLevel DEF IInv, Parking, ExitIsolate, MayTransition, AwakePCs
<1>2. scopes[t] # <<>> => scopes[t][1] = kGCAndDeoptAndReload
  BY MayTransitionRuns DEF ExitIsolate
<1>3. /\ at' = [at EXCEPT ![t] = 0..l] /\ NotParkedIsExact'
      /\ notParked' \in [Level -> Int]
  BY <1>1, EnterSafepointEffect DEF ExitIsolate
<1>4. Types'
  BY <1>1, <1>3, UptoLevel DEF IInv, Types, ExitIsolate, threadVars,
     signalVars, levelVars, PCs
<1>5. ReloadScopeLevel(t)' = l
  BY DEF ReloadScopeLevel, SafepointLevelIf, ExitIsolate, threadVars
<1>6. Parking(t)' /\ Scoping(t)'
  BY <1>1, <1>2, <1>3, <1>5, ZenonT(30) DEF IInv, Types, Parking, Scoping, ParkLevel,
     ExitIsolate, threadVars, AwakePCs, StartPCs, BlockedPCs
<1>7. Operating(t)' <=> Operating(t)
  BY <1>1 DEF Operating, ExitIsolate, IInv, Types, Scoping
<1>8. t \notin waiting
  BY ZenonT(20), <1>1 DEF IInv, Waiting, BlockedPCs
<1>9. QED
  BY <1>1, <1>3, <1>4, <1>6, <1>7, <1>8, LocalStep, ZenonT(30)
     DEF ExitIsolate, threadVars, levelVars, LocalPCs, IInv, Types

\* Leaving native code, a descheduled isolate, or the loop of
\* ExitSafepointLocked.
LEMMA ExitStep ==
  ASSUME IInv, NEW t \in Thread, NEW l \in Level, at[t] = 0..l,
         NEW w \in BlockedPCs,
         pc[t] \in {"native", "suspended"} \cup BlockedPCs, t \notin waiting,
         ExitSafepoint(t, l, w) \/ ExitSafepointLocked(t, l, w),
         scopes[t] = <<>> => l = SafepointLevelIf(t, w = "blockedReload"),
         UNCHANGED <<threadVars, req, signalVars, levelVars, scopes, notParked, iter>>
  PROVE  IInv'
<1>1. CASE /\ IsSafepointRequested(t, l)
           /\ blocked' = [blocked EXCEPT ![t] = TRUE]
           /\ waiting' = waiting \cup {t}
           /\ pc' = [pc EXCEPT ![t] = w]
           /\ at' = at
  <2>1. scopes[t] = <<>>
    <3>1. SUFFICES ASSUME scopes[t] # <<>> PROVE FALSE
      OBVIOUS
    <3>2. Operating(t) /\ scopes[t][1] = kGCAndDeoptAndReload
      BY <3>1 DEF Operating, IInv, Scoping, BlockedPCs
    <3>3. ~IsSafepointRequested(t, kGCAndDeoptAndReload)
      BY <3>2, OwnerNotRequested
    <3>4. QED
      BY <1>1, <3>3 DEF IsSafepointRequested, Level, kGC, kGCAndDeoptAndReload
  <2>2. Types'
    <3>1. /\ w \in PCs /\ waiting' \in SUBSET Thread /\ notParked' \in [Level -> Int]
          /\ vmInterrupt' \in [Thread -> BOOLEAN] /\ oob' \in [Thread -> BOOLEAN]
      BY <1>1, ZenonT(20) DEF IInv, Types, signalVars, PCs, BlockedPCs
    <3>2. QED
      BY <1>1, <3>1, TypesStep, ZenonT(20) DEF IInv, signalVars
  <2>3. current_safepoint_level(t)' = l
    BY <1>1, <2>1 DEF current_safepoint_level, SafepointLevelIf, AllowReload,
       threadVars, IInv, Types
  <2>4. Parking(t)' /\ Scoping(t)'
    BY <1>1, <2>1, <2>3 DEF IInv, Types, Parking, Scoping, ParkLevel, threadVars,
       AwakePCs, StartPCs, BlockedPCs
  <2>5. NotParkedIsExact'
    BY <1>1, NotParkedFrame, ZenonT(20) DEF IInv
  <2>6. Operating(t)' <=> Operating(t)
    BY <2>1, ZenonT(20) DEF Operating
  <2>7. t \in waiting' =>
          pc'[t] \in BlockedPCs /\ IsSafepointRequested(t, current_safepoint_level(t)')
    BY <1>1, <2>3 DEF IInv, Types
  <2>8. QED
    BY <1>1, <2>2, <2>4, <2>5, <2>6, <2>7, LocalStep, ZenonT(30)
       DEF threadVars, levelVars, LocalPCs, IInv, Types
<1>2. CASE /\ ~IsSafepointRequested(t, l)
           /\ blocked' = [blocked EXCEPT ![t] = FALSE]
           /\ waiting' = waiting
           /\ pc' = [pc EXCEPT ![t] = Home(t)]
           /\ at' = [at EXCEPT ![t] = {}]
  <2>1. Home(t) \in {"running", "op"}
    BY ZenonT(20) DEF Home
  <2>2. Types'
    <3>1. /\ Home(t) \in PCs /\ {} \in SUBSET Level
          /\ waiting' \in SUBSET Thread /\ notParked' \in [Level -> Int]
          /\ vmInterrupt' \in [Thread -> BOOLEAN] /\ oob' \in [Thread -> BOOLEAN]
      BY <1>2, <2>1, ZenonT(20) DEF IInv, Types, signalVars, PCs
    <3>2. QED
      BY <1>2, <3>1, TypesStep, ZenonT(20) DEF IInv, signalVars
  <2>3. Parking(t)' /\ Scoping(t)'
    BY <1>2 DEF IInv, Types, Parking, Scoping, threadVars, Home,
       AwakePCs, StartPCs, BlockedPCs
  <2>4. \A i \in Level : i \in req[t] => i \notin at[t]
    BY <1>2, Zenon DEF IsSafepointRequested
  <2>5. NotParkedIsExact'
    BY <1>2, <2>4, NotParkedFrame, ZenonT(30) DEF IInv, Types
  <2>6. Operating(t)' <=> Operating(t)
    BY <1>2 DEF Operating, Home, IInv, Types, Scoping
  <2>7. t \notin waiting'
    BY <1>2, Zenon
  <2>8. QED
    BY <1>2, <2>1, <2>2, <2>3, <2>4, <2>5, <2>6, <2>7, LocalStep, ZenonT(30)
       DEF threadVars, levelVars, LocalPCs, IInv, Types
<1>3. QED
  BY <1>1, <1>2, ExitSafepointEffect

\* TransitionNativeToVM preserves the invariant.
LEMMA TransitionFromNativeInv ==
  ASSUME IInv, NEW t \in Thread, TransitionFromNative(t) PROVE IInv'
<1> DEFINE l == current_safepoint_level(t)
<1>1. l \in Level /\ at[t] = 0..l /\ t \notin waiting
  BY LevelIsLevel, ZenonT(20) DEF IInv, Parking, ParkLevel, Waiting, TransitionFromNative,
     AwakePCs, StartPCs, BlockedPCs
<1>2. scopes[t] = <<>> => l = SafepointLevelIf(t, FALSE)
  <2>1. pc[t] = "native"
    BY Zenon DEF TransitionFromNative
  <2>2. scopes[t] = <<>> => DOMAIN scopes[t] = {}
    OBVIOUS
  <2>3. scopes[t] = <<>> => ~AllowReload(t)
    BY <2>1, <2>2, Zenon DEF AllowReload
  <2>4. QED
    BY <2>3, Zenon DEF current_safepoint_level, SafepointLevelIf
<1>3. QED
  BY <1>1, <1>2, ExitStep, Zenon DEF TransitionFromNative, BlockedPCs

\* EnterIsolate, when the thread was kept, preserves the invariant.
LEMMA EnterIsolateInv ==
  ASSUME IInv, NEW t \in Thread, EnterIsolate(t) PROVE IInv'
<1> DEFINE l == ReloadScopeLevel(t)
<1>1. l \in Level /\ at[t] = 0..l /\ t \notin waiting
  BY LevelIsLevel, ZenonT(20) DEF IInv, Parking, ParkLevel, Waiting, EnterIsolate,
     AwakePCs, StartPCs, BlockedPCs
<1>2. l = SafepointLevelIf(t, TRUE)
  BY ZenonT(20) DEF ReloadScopeLevel
<1>3. QED
  BY <1>1, <1>2, ExitStep, Zenon DEF EnterIsolate, BlockedPCs

\* Another round of the loop of ExitSafepointLocked preserves the invariant.
LEMMA RetryExitSafepointInv ==
  ASSUME IInv, NEW t \in Thread, RetryExitSafepoint(t) PROVE IInv'
<1> DEFINE l == current_safepoint_level(t)
<1>1. pc[t] \in BlockedPCs /\ scopes[t] = <<>> /\ t \notin waiting
  BY ZenonT(20) DEF RetryExitSafepoint, BlockedPCs, IInv, Scoping
<1>2. l \in Level /\ at[t] = 0..l /\ ExitLevel(t) = l
  BY <1>1, LevelIsLevel, ZenonT(20) DEF IInv, Parking, ParkLevel, ExitLevel,
     AwakePCs, StartPCs, BlockedPCs
<1>3. l = SafepointLevelIf(t, pc[t] = "blockedReload")
  BY <1>1 DEF current_safepoint_level, SafepointLevelIf, AllowReload
<1>4. QED
  BY <1>1, <1>2, <1>3, ExitStep, ZenonT(20) DEF RetryExitSafepoint

\* A thread in VM code that checks for a safepoint, at the level of the scope
\* it checks in.
LEMMA BlockStep ==
  ASSUME IInv, NEW t \in Thread, pc[t] = "running", NEW w \in BlockedPCs,
         BlockForSafepoint(t, SafepointLevelIf(t, w = "blockedReload"), w),
         UNCHANGED <<threadVars, req, levelVars, scopes, iter, oobIsolates>>,
         vmInterrupt' \in [Thread -> BOOLEAN], oob' \in [Thread -> BOOLEAN]
  PROVE  IInv'
<1> DEFINE l == SafepointLevelIf(t, w = "blockedReload")
<1>1. l \in Level /\ at[t] = {} /\ scopes[t] = <<>> /\ t \notin waiting
  BY LevelIsLevel, ZenonT(30) DEF IInv, Parking, Scoping, Waiting, AwakePCs, BlockedPCs
<1> HIDE DEF l
<1>2. CASE IsSafepointRequested(t, l)
  <2>1. /\ at' = [at EXCEPT ![t] = 0..l] /\ NotParkedIsExact'
        /\ notParked' \in [Level -> Int]
    BY <1>1, <1>2, EnterSafepointEffect DEF BlockForSafepoint, l
  <2>2. /\ blocked' = [blocked EXCEPT ![t] = TRUE]
        /\ waiting' = waiting \cup {t}
        /\ pc' = [pc EXCEPT ![t] = w]
    BY <1>2 DEF BlockForSafepoint, l
  <2>3. Types'
    <3>1. w \in PCs /\ waiting' \in SUBSET Thread /\ 0..l \in SUBSET Level
      BY <1>1, <2>2, UptoLevel, ZenonT(20) DEF IInv, Types, PCs, BlockedPCs
    <3>2. QED
      BY <2>1, <2>2, <3>1, TypesStep, ZenonT(20) DEF IInv
  <2>4. current_safepoint_level(t)' = l
    BY <1>1, <2>2 DEF current_safepoint_level, SafepointLevelIf, AllowReload,
       threadVars, IInv, Types, l
  <2>5. Parking(t)' /\ Scoping(t)'
    BY ZenonT(20), <1>1, <2>1, <2>2, <2>4 DEF IInv, Types, Parking, Scoping, ParkLevel,
       threadVars, AwakePCs, StartPCs, BlockedPCs
  <2>6. Operating(t)' <=> Operating(t)
    BY <1>1, ZenonT(20) DEF Operating
  <2>7. IsSafepointRequested(t, current_safepoint_level(t)') /\ pc'[t] \in BlockedPCs
    BY <1>2, <2>2, <2>4 DEF IInv, Types
  <2>8. QED
    BY <1>1, <2>1, <2>2, <2>3, <2>5, <2>6, <2>7, LocalStep, Zenon
       DEF threadVars, levelVars, LocalPCs, IInv, Types
<1>3. CASE ~IsSafepointRequested(t, l)
  <2>1. UNCHANGED <<at, notParked, blocked, waiting, pc>>
    BY <1>3 DEF BlockForSafepoint, l
  <2>2. Types'
    BY <2>1 DEF IInv, Types, threadVars, levelVars
  <2>3. Parking(t)' /\ Scoping(t)'
    BY <1>1, <2>1, ZenonT(30) DEF IInv, Types, Parking, Scoping, threadVars, AwakePCs,
       BlockedPCs
  <2>4. Operating(t)' <=> Operating(t)
    BY <2>1 DEF Operating
  <2>5. NotParkedIsExact'
    BY <2>1, NotParkedFrame, Zenon DEF IInv
  <2>6. QED
    BY <1>1, <2>1, <2>2, <2>3, <2>4, <2>5, LocalStep, ZenonT(20) DEF threadVars, levelVars
<1>4. QED
  BY <1>2, <1>3

\* The safepoint checks in VM code, in HandleInterrupts and in the handler of
\* kCheckForReload preserve the invariant.
LEMMA CheckForSafepointInv ==
  ASSUME IInv, NEW t \in Thread,
         CheckForSafepoint(t) \/ HandleVMInterrupt(t) \/ HandleCheckForReload(t)
  PROVE  IInv'
<1>1. pc[t] = "running" /\ scopes[t] = <<>>
  BY ZenonT(20) DEF IInv, Scoping, CheckForSafepoint, HandleVMInterrupt, HandleCheckForReload
<1>2. current_safepoint_level(t) = SafepointLevelIf(t, FALSE)
  BY <1>1 DEF current_safepoint_level, SafepointLevelIf, AllowReload
<1>3. ReloadScopeLevel(t) = SafepointLevelIf(t, TRUE)
  BY DEF ReloadScopeLevel
<1>4. CASE CheckForSafepoint(t)
  BY <1>1, <1>2, <1>4, BlockStep, Zenon
     DEF CheckForSafepoint, signalVars, BlockedPCs, IInv, Types
<1>5. CASE HandleVMInterrupt(t)
  BY <1>1, <1>2, <1>5, BlockStep, Zenon DEF HandleVMInterrupt, BlockedPCs, IInv, Types
<1>6. CASE HandleCheckForReload(t)
  BY <1>1, <1>3, <1>6, BlockStep, ZenonT(30) DEF HandleCheckForReload, BlockedPCs,
     IInv, Types
<1>7. QED
  BY <1>4, <1>5, <1>6

\* Waking up, opening and closing the scopes that change a running thread's
\* level, and sending a message move nobody.
LEMMA ScopeStepInv ==
  ASSUME IInv, NEW t \in Thread,
         \/ SpuriousWakeup(t)
         \/ EnterRuntimeCallDeoptScope(t) \/ LeaveRuntimeCallDeoptScope(t)
         \/ EnterNoReloadScope(t) \/ LeaveNoReloadScope(t)
         \/ \E u \in Thread : SendCheckForReload(t, u)
  PROVE  IInv'
<1>1. /\ UNCHANGED <<pc, kind, wordVars, levelVars, scopes, notParked, iter>>
      /\ waiting' \subseteq waiting
  BY ZenonT(30) DEF SpuriousWakeup, EnterRuntimeCallDeoptScope, LeaveRuntimeCallDeoptScope,
     EnterNoReloadScope, LeaveNoReloadScope, SendCheckForReload, threadVars
<1>2. Types'
  <2>1. cannotLazyDeopt' \in [Thread -> BOOLEAN] /\ noReload' \in [Thread -> Nat]
    <3>1. CASE EnterRuntimeCallDeoptScope(t) \/ LeaveRuntimeCallDeoptScope(t)
      BY <3>1, Zenon DEF IInv, Types, EnterRuntimeCallDeoptScope, LeaveRuntimeCallDeoptScope
    <3>2. CASE EnterNoReloadScope(t)
      BY <3>2 DEF IInv, Types, EnterNoReloadScope
    <3>3. CASE LeaveNoReloadScope(t)
      BY <3>3 DEF IInv, Types, LeaveNoReloadScope
    <3>4. CASE UNCHANGED threadVars
      BY ZenonT(20), <3>4 DEF IInv, Types, threadVars
    <3>5. QED
      BY <3>1, <3>2, <3>3, <3>4, Zenon DEF SpuriousWakeup, SendCheckForReload
  <2>2. CASE LeaveNoReloadScope(t)
    <3>1. (oob[t] \/ ResendCheckForReload(t)) \in BOOLEAN
      OBVIOUS
    <3>2. oob' \in [Thread -> BOOLEAN]
      BY ZenonT(20), <2>2, <3>1 DEF LeaveNoReloadScope, IInv, Types
    <3>3. QED
      BY <1>1, <2>1, <2>2, <3>2 DEF LeaveNoReloadScope, IInv, Types, wordVars, levelVars
  <2>3. ASSUME NEW u \in Thread, SendCheckForReload(t, u) PROVE Types'
    <3>1. ((kind[u] = "mutator" /\ u \in Active) \/ oob[u]) \in BOOLEAN
      BY Zenon
    <3>2. oob' \in [Thread -> BOOLEAN]
      BY <2>3, <3>1 DEF SendCheckForReload, IInv, Types
    <3>3. QED
      BY <1>1, <2>1, <2>3, <3>2 DEF SendCheckForReload, IInv, Types, wordVars, levelVars
  <2>4. CASE UNCHANGED signalVars
    BY ZenonT(20), <1>1, <2>1, <2>4 DEF signalVars, IInv, Types, wordVars, levelVars
  <2>5. QED
    BY <2>2, <2>3, <2>4, Zenon DEF SpuriousWakeup, EnterRuntimeCallDeoptScope,
       LeaveRuntimeCallDeoptScope, EnterNoReloadScope
<1>3. \A u \in Thread \ {t} : cannotLazyDeopt'[u] = cannotLazyDeopt[u]
                              /\ noReload'[u] = noReload[u]
  BY DEF IInv, Types, threadVars,
     SpuriousWakeup, EnterRuntimeCallDeoptScope, LeaveRuntimeCallDeoptScope,
     EnterNoReloadScope, LeaveNoReloadScope, SendCheckForReload
<1>4. pc[t] = "running" \/ UNCHANGED threadVars
  BY Zenon DEF SpuriousWakeup, EnterRuntimeCallDeoptScope, LeaveRuntimeCallDeoptScope,
     EnterNoReloadScope, LeaveNoReloadScope, SendCheckForReload
<1>5. Parking(t)' /\ Scoping(t)'
  <2>1. CASE pc[t] = "running"
    BY <1>1, <2>1, ZenonT(20) DEF IInv, Parking, Scoping, wordVars, AwakePCs
  <2>2. CASE UNCHANGED threadVars
    <3>1. ParkLevel(t)' = ParkLevel(t)
      BY <1>1, <2>2 DEF ParkLevel, Top, ReloadScopeLevel, current_safepoint_level,
         SafepointLevelIf, AllowReload, threadVars
    <3>2. Parking(t)'
      BY <1>1, <3>1, Zenon DEF IInv, Parking, wordVars
    <3>3. Scoping(t)'
      BY <1>1, Zenon DEF IInv, Scoping
    <3>4. QED
      BY <3>2, <3>3
  <2>3. QED
    BY ZenonT(20), <1>4, <2>1, <2>2
<1>6. NotParkedIsExact'
  BY <1>1, NotParkedFrame, ZenonT(30) DEF IInv, wordVars
<1>7. Operating(t)' <=> Operating(t)
  BY <1>1, ZenonT(20) DEF Operating
<1>8. t \in waiting' =>
        \/ pc'[t] \in BlockedPCs /\ IsSafepointRequested(t, current_safepoint_level(t)')
        \/ t \in waiting /\ pc'[t] = pc[t] /\ pc[t] \notin BlockedPCs
  <2>1. CASE pc[t] = "running"
    BY ZenonT(20), <1>1, <2>1 DEF BlockedPCs
  <2>2. CASE UNCHANGED threadVars
    <3>1. current_safepoint_level(t)' = current_safepoint_level(t)
      BY <1>1, <2>2 DEF current_safepoint_level, SafepointLevelIf, AllowReload, threadVars
    <3>2. QED
      BY ZenonT(20), <1>1, <3>1 DEF IInv, Waiting, BlockedPCs
  <2>3. QED
    BY <1>4, <2>1, <2>2
<1>9. QED
  BY <1>1, <1>2, <1>3, <1>5, <1>6, <1>7, <1>8, LocalStep, Zenon DEF wordVars, levelVars

\* One round of the loop of AddActiveThread: the thread waits while an
\* operation is in progress, and else joins the group.
LEMMA AddActiveThreadLockedInv ==
  ASSUME IInv, NEW t \in Thread, pc[t] \in {"free", "addWait"},
         t \notin waiting, ThreadsLockFree,
         NEW k \in {"mutator", "helper", "bypass"},
         kind' = [kind EXCEPT ![t] = k],
         AddActiveThreadLocked(t, k),
         UNCHANGED <<cannotLazyDeopt, noReload, wordVars, signalVars, levelVars,
                     scopes, notParked, iter>>
  PROVE  IInv'
<1>1. PICK p \in {"addWait", "running"} :
        /\ pc' = [pc EXCEPT ![t] = p]
        /\ waiting' = IF p = "addWait" THEN waiting \cup {t} ELSE waiting
        /\ p = "addWait" => AnySafepointInProgressLocked
        /\ p = "running" /\ k # "bypass" => ~AnySafepointInProgressLocked
  BY DEF AddActiveThreadLocked
<1>2. Types'
  BY <1>1 DEF IInv, Types, wordVars, signalVars, levelVars, PCs
<1>3. /\ scopes[t] = <<>> /\ at[t] = {} /\ req[t] = {} /\ ~blocked[t]
      /\ iter = {}
  BY ZenonT(30) DEF IInv, Types, Scoping, Parking, AwakePCs, BlockedPCs, Requesting,
     Participates, Active, Locking
<1>4. Parking(t)' /\ Scoping(t)'
  BY ZenonT(20), <1>1, <1>3 DEF Parking, Scoping, AwakePCs, StartPCs, BlockedPCs, wordVars,
     IInv, Types
<1>5. /\ \A u \in Thread : Parking(u)' /\ Scoping(u)'
      /\ \A u \in Thread \ {t} :
           current_safepoint_level(u)' = current_safepoint_level(u)
  BY ZenonT(20), <1>1, <1>4, OthersFrame DEF wordVars, IInv, Types
<1>6. \A s \in Thread, l \in Level : Holds(s, l)' <=> Holds(s, l)
  BY ZenonT(20), <1>1, <1>3 DEF Holds, Operating, IInv, Types
<1>7. Owning' /\ Counting'
  BY <1>6, OwningFrame DEF levelVars
<1>8. Locking'
  <2>1. \A r \in Thread : pc'[r] \notin LockPCs
    BY <1>1 DEF LockPCs, ThreadsLockFree, IInv, Types
  <2>2. iter' = {}
    BY <1>3
  <2>3. QED
    BY <2>1, <2>2, ZenonT(20) DEF Locking, LockPCs
<1>9. \A s, u \in Thread, l \in Level : Requests(s, l, u)' <=> Requests(s, l, u)
  BY ZenonT(40), <1>1, <1>3 DEF Requests, Operating, IInv, Types
<1>10. \A u \in Thread \ {t} : Participates(u)' <=> Participates(u)
  BY <1>1 DEF Participates, Active, IInv, Types
<1>11. Participates(t)' => ~AnySafepointInProgressLocked
  BY ZenonT(20), <1>1 DEF Participates, Active, IInv, Types
<1>12. Requesting'
  <2>1. ASSUME NEW l \in Level, NEW s \in Thread, Participates(t)' PROVE ~Requests(s, l, t)
    BY ZenonT(20), <2>1, <1>11, NobodyRequests DEF Requests
  <2>2. QED
    BY <1>3, <1>9, <1>10, <2>1, ZenonT(20) DEF Requesting, wordVars, IInv
<1>13. Stopping'
  <2>1. ASSUME NEW s \in Thread, NEW u \in Thread, s # u, Participates(u)',
               scopes[s] # <<>>,
               \/ pc'[s] \in {"spAcquire", "spExit"} \/ Operating(s)'
               \/ pc'[s] = "resume" /\ u \in iter
        PROVE  scopes[s][1] \in at[u]
    <3>1. s # t /\ pc'[s] = pc[s] /\ (Operating(s)' <=> Operating(s))
      BY <1>1, <1>3, <2>1 DEF Operating, IInv, Types
    <3>2. u # t
      BY <1>11, <2>1, <3>1, NobodyRequests, Zenon
    <3>3. QED
      BY <1>10, <2>1, <3>1, <3>2, ZenonT(30) DEF Stopping, IInv
  <2>2. QED
    BY <2>1 DEF Stopping, wordVars
<1>14. NotParkedIsExact'
  BY NotParkedFrame, Zenon DEF IInv, wordVars
<1>15. Waiting'
  <2>1. ASSUME AnySafepointInProgressLocked PROVE \E l \in Level : owner[l] # NoThread
    BY <2>1, InProgressOwned DEF AnySafepointInProgressLocked
  <2>2. t \in waiting' => pc'[t] = "addWait" /\ \E l \in Level : owner'[l] # NoThread
    BY <1>1, <2>1 DEF levelVars, IInv, Types
  <2>3. ASSUME NEW u \in waiting', u # t
        PROVE  \/ pc'[u] \in BlockedPCs /\ IsSafepointRequested(u, current_safepoint_level(u))'
               \/ pc'[u] = "addWait" /\ (\E l \in Level : owner'[l] # NoThread)
               \/ pc'[u] = "spWait" /\ owner'[scopes'[u][1]] # NoThread
    <3>1. u \in waiting /\ u \in Thread
      BY <1>1, <2>3 DEF IInv, Types
    <3>2. QED
      BY <1>1, <1>5, <2>3, <3>1, ZenonT(30)
         DEF Waiting, IsSafepointRequested, wordVars, levelVars, IInv, Types, ThreadsLockFree
  <2>4. QED
    BY <2>2, <2>3, Zenon DEF Waiting
<1>16. QED
  BY <1>2, <1>5, <1>7, <1>8, <1>12, <1>13, <1>14, <1>15 DEF IInv

\* AddActiveThread preserves the invariant.
LEMMA AddActiveThreadInv ==
  ASSUME IInv, NEW t \in Thread,
         (\E k \in Kinds : AddActiveThread(t, k)) \/ RetryAddActiveThread(t)
  PROVE  IInv'
<1>1. ASSUME NEW k \in Kinds, AddActiveThread(t, k) PROVE IInv'
  <2>1. t \notin waiting
    BY <1>1, Zenon DEF AddActiveThread, IInv, Waiting, BlockedPCs
  <2>2. QED
    BY <1>1, <2>1, AddActiveThreadLockedInv, ConstantsAssumption, Zenon DEF AddActiveThread
<1>2. CASE RetryAddActiveThread(t)
  <2>1. kind' = [kind EXCEPT ![t] = kind[t]] /\ kind[t] \in {"mutator", "helper", "bypass"}
    BY <1>2, Zenon DEF RetryAddActiveThread, IInv, Types
  <2>2. QED
    BY <1>2, <2>1, AddActiveThreadLockedInv, Zenon DEF RetryAddActiveThread
<1>3. QED
  BY <1>1, <1>2

\* FreeActiveThread preserves the invariant: the thread counts as parked for
\* every operation that waits for it.
LEMMA FreeActiveThreadInv ==
  ASSUME IInv, NEW t \in Thread, FreeActiveThread(t) PROVE IInv'
<1>1. /\ scopes[t] = <<>> /\ at[t] = {} /\ iter = {} /\ t \notin waiting
      /\ kind[t] = "bypass" => req[t] = {}
  BY ZenonT(30) DEF FreeActiveThread, IInv, Types, Scoping, Parking, AwakePCs, BlockedPCs,
     Requesting, Participates, Locking, Waiting
<1>2. ReloadScopeLevel(t) = kGCAndDeoptAndReload
  <2>1. ~cannotLazyDeopt[t] /\ noReload[t] = 0
    BY ZenonT(30) DEF FreeActiveThread
  <2>2. QED
    BY <2>1 DEF ReloadScopeLevel, SafepointLevelIf
<1>3. at' = at
  BY <1>1 DEF FreeActiveThread, IInv, Types
<1>4. notParked' = [i \in Level |-> IF i \in req[t] THEN notParked[i] - 1 ELSE notParked[i]]
  <2>1. CASE kind[t] = "bypass"
    BY <1>1, <2>1 DEF FreeActiveThread, IInv, Types
  <2>2. CASE kind[t] # "bypass"
    <3>1. NotifyParked(t, kGCAndDeoptAndReload)
      BY <1>2, <2>2, Zenon DEF FreeActiveThread
    <3>2. \A i \in Level : i <= kGCAndDeoptAndReload
      BY DEF Level, kGC, kGCAndDeoptAndReload
    <3>3. QED
      BY <3>1, <3>2 DEF NotifyParked
  <2>3. QED
    BY ZenonT(20), <2>1, <2>2
<1>5. Types'
  BY <1>3, <1>4 DEF FreeActiveThread, IInv, Types, levelVars, PCs
<1>6. NotParkedIsExact'
  <2>1. ASSUME NEW i \in Level PROVE notParked'[i] = Cardinality(Missing(i)')
    <3>1. CASE i \in req[t]
      <4>1. t \in Missing(i) /\ Missing(i)' = Missing(i) \ {t}
        BY <1>1, <1>3, <3>1, ZenonT(30) DEF Missing, FreeActiveThread, IInv, Types
      <4>2. Cardinality(Missing(i) \ {t}) = Cardinality(Missing(i)) - 1
        BY <4>1, MissingIsFinite, FS_RemoveElement, ZenonT(30)
      <4>3. QED
        BY <1>4, <3>1, <4>1, <4>2 DEF IInv, NotParkedIsExact
    <3>2. CASE i \notin req[t]
      <4>1. Missing(i)' = Missing(i)
        BY <1>3, <3>2 DEF Missing, FreeActiveThread, IInv, Types
      <4>2. QED
        BY <1>4, <3>2, <4>1, ZenonT(30) DEF IInv, NotParkedIsExact
    <3>3. QED
      BY <3>1, <3>2, ZenonT(30)
  <2>2. QED
    BY <2>1 DEF NotParkedIsExact
<1>7. Parking(t)' /\ Scoping(t)'
  BY <1>1, <1>3, ZenonT(30) DEF FreeActiveThread, Parking, Scoping, AwakePCs, StartPCs,
     BlockedPCs, IInv, Types
<1>8. /\ \A u \in Thread : Parking(u)' /\ Scoping(u)'
      /\ \A u \in Thread \ {t} :
           current_safepoint_level(u)' = current_safepoint_level(u)
  BY <1>3, <1>7, OthersFrame, ZenonT(30) DEF FreeActiveThread, IInv, Types
<1>9. \A s \in Thread, l \in Level : Holds(s, l)' <=> Holds(s, l)
  BY <1>1 DEF Holds, Operating, FreeActiveThread, IInv, Types
<1>10. Owning' /\ Counting'
  <2>1. UNCHANGED <<owner, count, scopes>>
    BY Zenon DEF FreeActiveThread, levelVars
  <2>2. QED
    BY <1>9, <2>1, OwningFrame, Zenon
<1>11. Locking'
  BY ZenonT(20), <1>1 DEF Locking, LockPCs, ThreadsLockFree, Active, levelVars,
     FreeActiveThread, IInv, Types
<1>12. \A s, u \in Thread, l \in Level : Requests(s, l, u)' <=> Requests(s, l, u)
  BY <1>1 DEF Requests, Operating, FreeActiveThread, IInv, Types
<1>13. \A u \in Thread : Participates(u)' <=> Participates(u) /\ u # t
  BY DEF Participates, Active, FreeActiveThread, IInv, Types
<1>14. Requesting'
  BY <1>12, <1>13 DEF Requesting, FreeActiveThread, IInv, Types
<1>15. Stopping'
  <2>1. ASSUME NEW s \in Thread, NEW u \in Thread, s # u, Participates(u)',
               scopes[s] # <<>>,
               \/ pc'[s] \in {"spAcquire", "spExit"} \/ Operating(s)'
               \/ pc'[s] = "resume" /\ u \in iter
        PROVE  scopes[s][1] \in at[u]
    <3>1. s # t /\ pc'[s] = pc[s] /\ (Operating(s)' <=> Operating(s))
      BY <1>1, <2>1 DEF Operating, FreeActiveThread, IInv, Types
    <3>2. QED
      BY <1>13, <2>1, <3>1, ZenonT(30) DEF Stopping, IInv
  <2>2. QED
    BY <1>3, <2>1, ZenonT(30) DEF Stopping, FreeActiveThread
<1>16. Waiting'
  <2>1. ASSUME NEW u \in waiting'
        PROVE  \/ pc'[u] \in BlockedPCs /\ IsSafepointRequested(u, current_safepoint_level(u))'
               \/ pc'[u] = "addWait" /\ (\E l \in Level : owner'[l] # NoThread)
               \/ pc'[u] = "spWait" /\ owner'[scopes'[u][1]] # NoThread
    <3>1. u \in waiting /\ u \in Thread /\ u # t
      BY ZenonT(20), <1>1, <2>1 DEF FreeActiveThread, IInv, Types
    <3>2. pc'[u] = pc[u] /\ req'[u] = req[u]
      BY <3>1 DEF FreeActiveThread, IInv, Types
    <3>3. ~\E r \in Thread : pc[r] = "resume"
      BY Zenon DEF FreeActiveThread, ThreadsLockFree
    <3>4. QED
      BY <1>8, <3>1, <3>2, <3>3, ZenonT(30) DEF Waiting, IsSafepointRequested, levelVars,
         FreeActiveThread, IInv
  <2>2. QED
    BY <2>1, ZenonT(30) DEF Waiting
<1>17. QED
  BY <1>5, <1>6, <1>8, <1>10, <1>11, <1>14, <1>15, <1>16 DEF IInv

-----------------------------------------------------------------------------
(* The steps of SafepointThreads. *)

\* A thread that finds its level taken, parked at the level it asks for.
LEMMA LevelTakenInv ==
  ASSUME IInv, NEW t \in Thread, NEW l \in Level, ThreadsLockFree,
         pc[t] \in {"running", "spWait"}, kind[t] # "bypass", owner[l] # NoThread,
         pc' = [pc EXCEPT ![t] = "spWait"],
         scopes' = [scopes EXCEPT ![t] = <<l>>],
         at' = [at EXCEPT ![t] = 0..l], at[t] \subseteq 0..l,
         waiting' = waiting \cup {t},
         NotParkedIsExact', notParked' \in [Level -> Int],
         UNCHANGED <<threadVars, req, blocked, signalVars, levelVars, iter>>
  PROVE  IInv'
<1>1. Types'
  BY UptoLevel DEF IInv, Types, threadVars, signalVars, levelVars, PCs
<1>2. scopes'[t] = <<l>> /\ pc'[t] = "spWait" /\ at'[t] = 0..l /\ ~blocked[t]
  BY Zenon DEF IInv, Types, Parking, BlockedPCs
<1>3. /\ Parking(t)' /\ Scoping(t)'
      /\ Len(scopes'[t]) = 1 /\ scopes'[t][1] = l
  <2>1. pc'[t] \in StartPCs /\ ~blocked'[t] /\ kind'[t] # "bypass"
    BY <1>2, Zenon DEF threadVars, StartPCs
  <2>2. QED
    BY <1>2, <2>1, StartedScope, Zenon
<1>4. \A u \in Thread \ {t} : pc'[u] = pc[u] /\ scopes'[u] = scopes[u] /\ at'[u] = at[u]
  BY ZenonT(20) DEF IInv, Types
<1>5. /\ \A u \in Thread : Parking(u)' /\ Scoping(u)'
      /\ \A u \in Thread \ {t} :
           current_safepoint_level(u)' = current_safepoint_level(u)
  BY <1>3, <1>4, OthersFrame, ZenonT(20) DEF threadVars
<1>6. \A s \in Thread, i \in Level : Holds(s, i)' <=> Holds(s, i)
  BY <1>2, <1>4, ZenonT(20) DEF Holds, Operating
<1>7. ~Operating(t) /\ ~Operating(t)' /\ \A u \in Thread \ {t} : Operating(u)' <=> Operating(u)
  BY <1>2, <1>4, ZenonT(20) DEF Operating
<1>8. Owning' /\ Counting'
  <2>1. ~\E i \in Level : Holds(t, i)
    BY <1>7 DEF Holds
  <2>2. QED
    <3>1. owner' = owner /\ count' = count /\ Owning /\ Counting
      BY DEF levelVars, IInv
    <3>2. Owning'
      BY <1>6, <3>1, Zenon DEF Owning
    <3>3. \A s \in Thread \ {t}, i \in Level : OpenScopes(s, i)' = OpenScopes(s, i)
      BY <1>4, Zenon DEF OpenScopes
    <3>4. Counting'
      BY <1>6, <2>1, <3>1, <3>3, ZenonT(30) DEF Counting
    <3>5. QED
      BY <3>2, <3>4, Zenon
<1>9. Locking' /\ Active' = Active
  BY ZenonT(20), <1>2, <1>4 DEF Locking, LockPCs, ThreadsLockFree, Active, levelVars, IInv
<1>10. \A s, u \in Thread, i \in Level : Requests(s, i, u)' <=> Requests(s, i, u)
  BY <1>2, <1>4, <1>7 DEF Requests
<1>11. \A u \in Thread : Participates(u)' <=> Participates(u)
  BY <1>9, ZenonT(20) DEF Participates, threadVars
<1>12. Requesting'
  BY <1>10, <1>11 DEF Requesting, IInv
<1>13. Stopping'
  BY <1>2, <1>4, <1>7, <1>11, ZenonT(30) DEF Stopping, IInv
<1>14. Waiting'
  <2>1. owner' = owner /\ req' = req /\ Waiting
    BY DEF levelVars, IInv
  <2>2. \A r \in Thread : pc[r] # "resume"
    BY Zenon DEF ThreadsLockFree
  <2>3. pc'[t] = "spWait" /\ owner'[scopes'[t][1]] # NoThread
    BY <1>2, <1>3, <2>1, Zenon
  <2>4. ASSUME NEW u \in waiting', u # t
        PROVE  \/ pc'[u] \in BlockedPCs /\ IsSafepointRequested(u, current_safepoint_level(u))'
               \/ pc'[u] = "addWait" /\ \E i \in Level : owner'[i] # NoThread
               \/ pc'[u] = "spWait" /\ owner'[scopes'[u][1]] # NoThread
    <3>1. u \in waiting /\ u \in Thread
      BY <2>4, Zenon DEF IInv, Types
    <3>2. /\ pc'[u] = pc[u] /\ scopes'[u] = scopes[u]
          /\ current_safepoint_level(u)' = current_safepoint_level(u)
      BY <1>4, <1>5, <2>4, <3>1, Zenon
    <3>3. IsSafepointRequested(u, current_safepoint_level(u))'
            <=> IsSafepointRequested(u, current_safepoint_level(u))
      BY <2>1, <3>2, Zenon DEF IsSafepointRequested
    <3>4. QED
      BY <2>1, <2>2, <3>1, <3>2, <3>3, Zenon DEF Waiting
  <2>5. QED
    BY <2>3, <2>4, Zenon DEF Waiting
<1>15. QED
  BY ZenonT(20), <1>1, <1>5, <1>8, <1>9, <1>12, <1>13, <1>14 DEF IInv

\* A thread that finds its level free, and starts to walk the active list.
LEMMA LevelAcquiredInv ==
  ASSUME IInv, NEW t \in Thread, NEW l \in Level, ThreadsLockFree,
         pc[t] \in {"running", "spWait"}, kind[t] # "bypass", owner[l] = NoThread,
         pc' = [pc EXCEPT ![t] = "spNotify"],
         scopes' = [scopes EXCEPT ![t] = <<l>>],
         at' = [at EXCEPT ![t] = 0..l], at[t] \subseteq 0..l,
         owner' = [owner EXCEPT ![l] = t],
         count' = [count EXCEPT ![l] = 1],
         iter' = Active \ {t},
         t \notin waiting, UNCHANGED waiting,
         NotParkedIsExact', notParked' \in [Level -> Int],
         UNCHANGED <<threadVars, req, blocked, signalVars>>
  PROVE  IInv'
<1>1. Types'
  <2>1. iter' \in SUBSET Thread
    BY ZenonT(20) DEF Active
  <2>2. owner' \in [Level -> Thread \cup {NoThread}] /\ count' \in [Level -> Int]
    BY DEF IInv, Types
  <2>3. at' \in [Thread -> SUBSET Level] /\ scopes' \in [Thread -> Seq(Level)]
    BY UptoLevel DEF IInv, Types
  <2>4. QED
    BY ZenonT(20), <2>1, <2>2, <2>3 DEF IInv, Types, threadVars, signalVars, PCs
<1>2. scopes'[t] = <<l>> /\ pc'[t] = "spNotify" /\ at'[t] = 0..l /\ ~blocked[t]
  BY Zenon DEF IInv, Types, Parking, BlockedPCs
<1>3. /\ Parking(t)' /\ Scoping(t)'
      /\ Len(scopes'[t]) = 1 /\ scopes'[t][1] = l /\ l >= l
  <2>1. pc'[t] \in StartPCs /\ ~blocked'[t] /\ kind'[t] # "bypass"
    BY <1>2, Zenon DEF threadVars, StartPCs
  <2>2. QED
    BY <1>2, <2>1, StartedScope, Zenon
<1>4. \A u \in Thread \ {t} : pc'[u] = pc[u] /\ scopes'[u] = scopes[u] /\ at'[u] = at[u]
  BY DEF IInv, Types
<1>5. /\ \A u \in Thread : Parking(u)' /\ Scoping(u)'
      /\ \A u \in Thread \ {t} :
           current_safepoint_level(u)' = current_safepoint_level(u)
  BY <1>3, <1>4, OthersFrame, ZenonT(20) DEF threadVars
<1>6. \A i \in Level : /\ Holds(t, i)' <=> i = l
                       /\ ~Holds(t, i)
                       /\ \A s \in Thread \ {t} : Holds(s, i)' <=> Holds(s, i)
  <2> TAKE i \in Level
  <2>1. Holds(t, i)' <=> i = l
    BY <1>2, <1>3, Zenon DEF Holds, Operating
  <2>2. ~Holds(t, i)
    BY Zenon DEF Holds, Operating
  <2>3. \A s \in Thread \ {t} : Holds(s, i)' <=> Holds(s, i)
    BY <1>4, Zenon DEF Holds, Operating
  <2>4. QED
    BY <2>1, <2>2, <2>3, Zenon
<1>7. ~Operating(t) /\ ~Operating(t)' /\ \A u \in Thread \ {t} : Operating(u)' <=> Operating(u)
  BY <1>2, <1>4, ZenonT(20) DEF Operating
<1>8. Owning'
  BY <1>6, ConstantsAssumption DEF Owning, IInv, Types
<1>9. Counting'
  <2>1. OpenScopes(t, l)' = {1}
    <3>1. 1..1 = {1}
      BY ONLY TRUE
    <3>2. QED
      BY <1>3, <3>1, Zenon DEF OpenScopes
  <2>2. Cardinality(OpenScopes(t, l)') = 1
    BY <2>1, FS_Singleton, Zenon
  <2>3. \A s \in Thread \ {t} : ~Holds(s, l) /\ \A i \in Level : OpenScopes(s, i)' = OpenScopes(s, i)
    BY <1>4, ConstantsAssumption DEF OpenScopes, IInv, Owning
  <2>4. ASSUME NEW i \in Level, i # l
        PROVE  /\ owner'[i] = NoThread <=> count'[i] = 0
               /\ \A s \in Thread : Holds(s, i)' => count'[i] = Cardinality(OpenScopes(s, i)')
    <3>1. owner'[i] = owner[i] /\ count'[i] = count[i]
      BY ZenonT(20), <2>4 DEF IInv, Types
    <3>2. \A s \in Thread : Holds(s, i)' => s # t /\ Holds(s, i)
      BY <1>6, <2>4
    <3>3. QED
      BY <2>3, <3>1, <3>2 DEF Counting, IInv
  <2>5. /\ owner'[l] = t /\ count'[l] = 1
        /\ \A s \in Thread : Holds(s, l)' => s = t
    BY ZenonT(20), <1>6, <2>3 DEF IInv, Types
  <2>6. /\ owner'[l] = NoThread <=> count'[l] = 0
        /\ \A s \in Thread : Holds(s, l)' => count'[l] = Cardinality(OpenScopes(s, l)')
    <3>1. owner'[l] # NoThread /\ count'[l] # 0
      BY <2>5, ConstantsAssumption
    <3>2. QED
      BY <2>2, <2>5, <3>1, Zenon
  <2>7. QED
    BY <2>4, <2>6, Zenon DEF Counting
<1>10. Locking' /\ Active' = Active
  BY ZenonT(20), <1>2, <1>4 DEF Locking, LockPCs, ThreadsLockFree, Active, IInv
<1>11. \A u \in Thread : Participates(u)' <=> Participates(u)
  BY <1>10, ZenonT(20) DEF Participates, threadVars
<1>12. \A s, u \in Thread, i \in Level : Participates(u) =>
         (Requests(s, i, u)' <=> Requests(s, i, u))
  BY <1>2, <1>4, <1>7 DEF Requests, Participates, ThreadsLockFree
<1>13. Requesting'
  BY <1>11, <1>12, ZenonT(20) DEF Requesting, IInv
<1>14. Stopping'
  BY <1>2, <1>4, <1>7, <1>11, ZenonT(30) DEF Stopping, IInv, ThreadsLockFree
<1>15. Waiting'
  <2>1. \A i \in Level : owner[i] # NoThread => owner'[i] # NoThread
    BY ZenonT(20) DEF IInv, Types
  <2>2. ASSUME NEW u \in waiting'
        PROVE  \/ pc'[u] \in BlockedPCs /\ IsSafepointRequested(u, current_safepoint_level(u))'
               \/ pc'[u] = "addWait" /\ (\E i \in Level : owner'[i] # NoThread)
               \/ pc'[u] = "spWait" /\ owner'[scopes'[u][1]] # NoThread
    <3>1. u \in waiting /\ u \in Thread \ {t}
      BY <2>2 DEF IInv, Types
    <3>2. pc[u] = "spWait" => scopes[u][1] \in Level
      BY <3>1, OneScope, Zenon DEF StartPCs
    <3>3. \A r \in Thread : pc[r] # "resume"
      BY Zenon DEF ThreadsLockFree
    <3>4. \/ pc[u] \in BlockedPCs /\ IsSafepointRequested(u, current_safepoint_level(u))
          \/ pc[u] = "addWait" /\ \E i \in Level : owner[i] # NoThread
          \/ pc[u] = "spWait" /\ owner[scopes[u][1]] # NoThread
      BY <3>1, <3>3, Zenon DEF Waiting, IInv
    <3>5. /\ pc'[u] = pc[u] /\ scopes'[u] = scopes[u] /\ req' = req
          /\ current_safepoint_level(u)' = current_safepoint_level(u)
      BY <1>4, <1>5, <3>1, Zenon
    <3>6. IsSafepointRequested(u, current_safepoint_level(u))' <=>
            IsSafepointRequested(u, current_safepoint_level(u))
      BY <3>5, Zenon DEF IsSafepointRequested
    <3>7. QED
      BY <2>1, <3>2, <3>4, <3>5, <3>6, ZenonT(30)
  <2>3. QED
    BY <2>2 DEF Waiting
<1>16. QED
  BY <1>1, <1>5, <1>8, <1>9, <1>10, <1>13, <1>14, <1>15 DEF IInv

\* The start of SafepointThreads preserves the invariant.
LEMMA SafepointThreadsInv ==
  ASSUME IInv, NEW t \in Thread,
         (\E l \in Level : SafepointThreads(t, l)) \/ RetrySafepointThreads(t)
  PROVE  IInv'
<1>1. ASSUME NEW l \in Level, SafepointThreads(t, l) PROVE IInv'
  <2>1. at[t] = {} /\ t \notin waiting /\ scopes[t] = <<>> /\ pc[t] = "running"
    BY <1>1, ZenonT(20) DEF SafepointThreads, IInv, Parking, Scoping, AwakePCs, BlockedPCs, Waiting
  <2>2. scopes' = [scopes EXCEPT ![t] = <<l>>]
    <3>1. scopes' = [scopes EXCEPT ![t] = Append(scopes[t], l)]
      BY <1>1, Zenon DEF SafepointThreads
    <3>2. Append(scopes[t], l) = <<l>>
      BY <2>1
    <3>3. QED
      BY <3>1, <3>2, Zenon
  <2>3. /\ at' = [at EXCEPT ![t] = 0..l]
        /\ NotParkedIsExact' /\ notParked' \in [Level -> Int]
    BY <1>1, <2>1, EnterSafepointEffect, ZenonT(20) DEF SafepointThreads, EnterSafepointToStart
  <2>4. CASE owner[l] # NoThread
    BY <1>1, <2>1, <2>2, <2>3, <2>4, InProgressOwned, LevelTakenInv, Zenon
       DEF SafepointThreads, SetSafepointInProgress
  <2>5. CASE owner[l] = NoThread
    BY <1>1, <2>1, <2>2, <2>3, <2>5, InProgressOwned, LevelAcquiredInv, Zenon
       DEF SafepointThreads, SetSafepointInProgress
  <2>6. QED
    BY <2>4, <2>5
<1>2. CASE RetrySafepointThreads(t)
  <2> DEFINE l == Top(t)
  <2>1. l \in Level /\ scopes[t] = <<l>>
    BY <1>2, OneScope, ZenonT(20) DEF RetrySafepointThreads, StartPCs
  <2>2. at[t] = 0..l /\ kind[t] # "bypass"
    <3>1. pc[t] = "spWait" /\ pc[t] \in StartPCs /\ pc[t] \notin AwakePCs
      BY <1>2 DEF RetrySafepointThreads, AwakePCs, StartPCs
    <3>2. at[t] = 0..l
      BY <3>1, Zenon DEF IInv, Parking, ParkLevel
    <3>3. scopes[t] # <<>>
      BY <3>1, OneScope, Zenon
    <3>4. QED
      BY <3>2, <3>3, Zenon DEF IInv, Scoping
  <2>3. /\ scopes' = [scopes EXCEPT ![t] = <<l>>]
        /\ at' = [at EXCEPT ![t] = 0..l]
        /\ notParked' \in [Level -> Int]
    BY <1>2, <2>1, <2>2, Zenon DEF RetrySafepointThreads, wordVars, IInv, Types
  <2>4. NotParkedIsExact'
    BY <1>2, NotParkedFrame, Zenon DEF RetrySafepointThreads, wordVars, IInv
  <2> HIDE DEF l
  <2>5. CASE owner[l] # NoThread
    BY <1>2, <2>1, <2>2, <2>3, <2>4, <2>5, InProgressOwned, LevelTakenInv, Zenon
       DEF RetrySafepointThreads, SetSafepointInProgress, wordVars, l
  <2>6. CASE owner[l] = NoThread
    BY <1>2, <2>1, <2>2, <2>3, <2>4, <2>6, InProgressOwned, LevelAcquiredInv, Zenon
       DEF RetrySafepointThreads, SetSafepointInProgress, wordVars, l
  <2>7. QED
    BY <2>5, <2>6
<1>3. QED
  BY <1>1, <1>2

\* NotifyThreadsToGetToSafepointLevel, for one thread, preserves the invariant:
\* the thread is counted if it is not parked, and was not requested before.
LEMMA NotifyThreadInv ==
  ASSUME IInv, NEW t \in Thread, NEW u \in Thread, NotifyThread(t, u) PROVE IInv'
<1> DEFINE l == Top(t)
<1>1. /\ pc[t] = "spNotify" /\ u \in iter /\ l \in Level /\ scopes[t] # <<>>
      /\ l = scopes[t][1]
  BY OneScope, Zenon DEF NotifyThread, StartPCs
<1> HIDE DEF l
<1>2. /\ UNCHANGED <<pc, threadVars, at, blocked, oob, owner, count, scopes, waiting>>
      /\ iter' = iter \ {u}
      /\ req' = IF kind[u] = "bypass" THEN req ELSE [req EXCEPT ![u] = @ \cup {l}]
      /\ notParked' = IF kind[u] # "bypass" /\ ~IsAtSafepoint(u, l)
                      THEN [notParked EXCEPT ![l] = @ + 1] ELSE notParked
  BY ZenonT(20) DEF NotifyThread, levelVars, l
<1>3. u # t /\ u \in Active /\ owner[l] = t /\ \A r \in Thread : pc[r] # "resume"
  <2>1. Holds(t, l)
    BY ZenonT(20), <1>1 DEF Holds
  <2>2. QED
    BY <1>1, <2>1, ZenonT(20) DEF IInv, Locking, LockPCs, Owning
<1>4. l \notin req[u]
  <2>1. ASSUME NEW s \in Thread, Requests(s, l, u) PROVE FALSE
    <3>1. s = t
      BY ZenonT(20), <1>1, <1>3, <2>1, RequesterOwns
    <3>2. QED
      BY <1>1, <2>1, <3>1 DEF Requests, Operating
  <2>2. QED
    BY <1>1, <2>1 DEF IInv, Requesting
<1>5. IsAtSafepoint(u, l) <=> l \in at[u]
  <2>1. at[u] = {} \/ \E p \in Level : at[u] = 0..p
    <3>1. ParkLevel(u) \in Level
      BY ZenonT(20), LevelIsLevel, OneScope DEF IInv, ParkLevel, StartPCs
    <3>2. QED
      BY <3>1 DEF IInv, Parking
  <2>2. QED
    BY <1>1, <2>1 DEF IsAtSafepoint, Level, kGC, kGCAndDeoptAndReload
<1>6. Types'
  <2>0. Types
    BY Zenon DEF IInv
  <2>1. req' \in [Thread -> SUBSET Level]
    <3>1. req \in [Thread -> SUBSET Level] /\ l \in Level
      BY <1>1, <2>0, Zenon DEF Types
    <3>2. QED
      BY <1>2, <3>1
  <2>2. notParked' \in [Level -> Int]
    <3>1. notParked \in [Level -> Int] /\ l \in Level
      BY <1>1, <2>0, Zenon DEF Types
    <3>2. QED
      BY <1>2, <3>1
  <2>3. vmInterrupt' \in [Thread -> BOOLEAN] /\ oobIsolates' \in SUBSET Thread
    BY ZenonT(20) DEF NotifyThread, ScheduleInterrupts, IInv, Types
  <2>4. /\ UNCHANGED <<pc, kind, at, blocked, cannotLazyDeopt, noReload>>
        /\ UNCHANGED <<oob, scopes, waiting, owner, count>> /\ iter' \subseteq iter
    BY <1>2, Zenon DEF threadVars
  <2>5. QED
    BY ONLY <2>0, <2>1, <2>2, <2>3, <2>4 DEF Types
<1>7. \A v \in Thread : Parking(v)' /\ Scoping(v)'
  <2>1. UNCHANGED <<pc, kind, at, blocked, cannotLazyDeopt, noReload, scopes>>
    BY <1>2, Zenon DEF threadVars
  <2>2. \A v \in Thread : Scoping(v)'
    BY <2>1 DEF IInv, Scoping
  <2>3. \A v \in Thread : ParkLevel(v)' = ParkLevel(v)
    BY <2>1, ZenonT(30) DEF ParkLevel, Top, ReloadScopeLevel, current_safepoint_level,
       SafepointLevelIf, AllowReload
  <2>4. \A v \in Thread : Parking(v)'
    BY <2>1, <2>3 DEF IInv, Parking
  <2>5. QED
    BY <2>2, <2>4
<1>8. Owning' /\ Counting'
  <2>1. Owning /\ Counting
    BY Zenon DEF IInv
  <2>2. UNCHANGED pc /\ UNCHANGED scopes /\ UNCHANGED owner /\ UNCHANGED count
    BY <1>2, ZenonT(30)
  <2>3. Owning'
    BY ONLY <2>1, <2>2 DEF Owning, Holds, Operating
  <2>4. Counting'
    BY ONLY <2>1, <2>2 DEF Counting, Holds, Operating, OpenScopes
  <2>5. QED
    BY <2>3, <2>4
<1>9. Locking' /\ Active' = Active
  BY <1>1, <1>2, Zenon DEF IInv, Locking, LockPCs, ThreadsLockFree, Active
<1>10. \A v \in Thread : Participates(v)' <=> Participates(v)
  BY <1>2, <1>9 DEF Participates, threadVars
<1>11. Requesting'
  <2>1. \A s, v \in Thread, i \in Level :
          Requests(s, i, v)' <=> Requests(s, i, v) \/ (s = t /\ v = u /\ i = l)
    BY <1>1, <1>2, <1>3, ZenonT(40) DEF Requests, Operating, IInv, Locking, LockPCs
  <2>2. \A v \in Thread, i \in Level :
          i \in req'[v] <=> i \in req[v] \/ (v = u /\ i = l /\ kind[u] # "bypass")
    BY <1>2 DEF IInv, Types
  <2>3. Participates(u) <=> kind[u] # "bypass"
    BY <1>3 DEF Participates
  <2>4. QED
    BY ZenonT(20), <1>10, <2>1, <2>2, <2>3 DEF IInv, Requesting
<1>12. Stopping'
  BY <1>2, <1>3, <1>10, Zenon DEF IInv, Stopping, Operating
<1>13. NotParkedIsExact'
  <2>1. ASSUME NEW i \in Level PROVE notParked'[i] = Cardinality(Missing(i)')
    <3>1. CASE i = l /\ kind[u] # "bypass" /\ l \notin at[u]
      <4>1. Missing(i)' = Missing(i) \cup {u} /\ u \notin Missing(i)
        <5>1. req \in [Thread -> SUBSET Level] /\ at' = at
          BY <1>2, Zenon DEF IInv, Types
        <5>2. req' = [req EXCEPT ![u] = @ \cup {l}]
          BY <1>2, <3>1, Zenon
        <5>3. \A v \in Thread : i \in req'[v] <=> i \in req[v] \/ v = u
          BY <3>1, <5>1, <5>2
        <5>4. QED
          BY <1>4, <3>1, <5>1, <5>3, ZenonT(20) DEF Missing
      <4>2. Cardinality(Missing(i) \cup {u}) = Cardinality(Missing(i)) + 1
        BY <4>1, MissingIsFinite, FS_AddElement, ZenonT(30)
      <4>3. QED
        BY <1>1, <1>2, <1>5, <3>1, <4>1, <4>2 DEF IInv, Types, NotParkedIsExact
    <3>2. CASE ~(i = l /\ kind[u] # "bypass" /\ l \notin at[u])
      <4>1. Missing(i)' = Missing(i)
        BY ZenonT(20), <1>2, <3>2 DEF Missing, IInv, Types
      <4>2. QED
        BY <1>1, <1>2, <1>5, <3>2, <4>1 DEF IInv, Types, NotParkedIsExact
    <3>3. QED
      BY ZenonT(20), <3>1, <3>2
  <2>2. QED
    BY ZenonT(20), <2>1 DEF NotParkedIsExact
<1>14. Waiting'
  <2>1. \A v \in Thread : /\ req[v] \subseteq req'[v]
                          /\ current_safepoint_level(v)' = current_safepoint_level(v)
    BY <1>2 DEF IInv, Types, current_safepoint_level, SafepointLevelIf, AllowReload, threadVars
  <2>2. QED
    BY ZenonT(20), <1>2, <2>1 DEF IInv, Types, Waiting, IsSafepointRequested
<1>15. QED
  BY ZenonT(20), <1>6, <1>7, <1>8, <1>9, <1>11, <1>12, <1>13, <1>14 DEF IInv

=============================================================================
