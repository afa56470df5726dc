-------------------------- MODULE SafepointProofs ---------------------------
(***************************************************************************)
(* Proofs, for every set of threads and every bound, that the safepoint    *)
(* protocol of module Safepoint keeps its safety properties.               *)
(***************************************************************************)
EXTENDS SafepointThreadProofs, WellFoundedInduction

(* A leaf that names no prover is tried with the SMT solver, then Zenon.   *)
USE SMTT(30), Z3T(30), ZenonT(20)

-----------------------------------------------------------------------------
(* The later steps of SafepointThreads keep the invariant. *)

\* A step of t from one place of SafepointThreads to the next.
LEMMA StartStep ==
  ASSUME IInv, NEW t \in Thread, NEW p \in {"spSend", "spAcquire", "spExit", "op"},
         pc[t] \in {"spNotify", "spSend", "spAcquire", "spExit"},
         pc[t] = "spNotify" => iter = {},
         pc' = [pc EXCEPT ![t] = p],
         UNCHANGED <<threadVars, req, signalVars, scopes, waiting, notParked, iter>>,
         \A u \in Thread \ {t} : at'[u] = at[u] /\ blocked'[u] = blocked[u],
         \A i \in Level : i \in req[t] => (i \in at'[t] <=> i \in at[t]),
         p # "spSend" => \A u \in Thread \ {t} : Participates(u) => scopes[t][1] \in at[u],
         UNCHANGED owner \/ ThreadsLockFree,
         \A i \in Level : owner[i] # NoThread => owner'[i] # NoThread,
         Types', Parking(t)', Scoping(t)', Owning', Counting'
  PROVE  IInv'
<1>1. scopes[t] # <<>> /\ pc'[t] = p
  BY OneScope, ZenonT(20) DEF StartPCs, IInv, Types
<1>2. \A u \in Thread \ {t} : pc'[u] = pc[u] /\ (Operating(u)' <=> Operating(u))
  BY Zenon DEF IInv, Types, Operating
<1>3. /\ \A u \in Thread : Parking(u)' /\ Scoping(u)'
      /\ \A u \in Thread \ {t} :
           current_safepoint_level(u)' = current_safepoint_level(u)
  BY <1>2, OthersFrame, Zenon DEF threadVars
<1>4. Active' = Active
  BY <1>1, <1>2, Zenon DEF Active
<1>5. Locking'
  <2>1. ThreadsLockFree => iter = {}
    BY Zenon DEF IInv, Locking
  <2>2. ASSUME pc[t] = "spNotify" PROVE iter = {} /\ \A r \in Thread \ {t} : pc[r] \notin LockPCs
    BY <2>2, ZenonT(30) DEF IInv, Locking, LockPCs
  <2>3. \A r \in Thread : pc'[r] \in LockPCs <=> pc[r] \in LockPCs /\ r # t
    BY <1>1, <1>2, Zenon DEF LockPCs
  <2>4. ThreadsLockFree' => iter = {}
    <3>1. CASE pc[t] = "spNotify"
      BY <3>1, ZenonT(20)
    <3>2. CASE pc[t] # "spNotify"
      BY ZenonT(20), <1>1, <1>2, <2>1, <3>2 DEF ThreadsLockFree
    <3>3. QED
      BY <3>1, <3>2, Zenon
  <2>5. \A r \in Thread : pc'[r] = "resume" => pc[r] = "resume" /\ UNCHANGED owner
    BY ZenonT(20), <1>1, <1>2 DEF ThreadsLockFree
  <2>6. QED
    <3>1. \A r, s \in Thread : pc'[r] \in LockPCs /\ pc'[s] \in LockPCs => r = s
      BY <2>3, Zenon DEF IInv, Locking
    <3>2. iter' \subseteq Active' /\ \A r \in Thread : pc'[r] \in LockPCs => r \notin iter'
      BY <1>4, <2>3, Zenon DEF IInv, Locking
    <3>3. \A r \in Thread : pc'[r] = "resume" =>
            \A i \in Level : i <= scopes'[r][1] => owner'[i] = NoThread
      BY <2>5, ZenonT(30) DEF IInv, Locking
    <3>4. QED
      BY <2>4, <3>1, <3>2, <3>3, Zenon DEF Locking
<1>6. \A u \in Thread : Participates(u)' <=> Participates(u)
  BY ZenonT(20), <1>4 DEF Participates, threadVars
<1>7. \A s, u \in Thread, i \in Level : Requests(s, i, u)' <=> Requests(s, i, u)
  BY <1>1, <1>2, ZenonT(20) DEF Requests, Operating
<1>8. Requesting'
  BY <1>6, <1>7, Zenon DEF IInv, Requesting
<1>9. NotParkedIsExact'
  BY NotParkedFrame, Zenon DEF IInv
<1>10. Stopping'
  <2>1. ASSUME NEW s \in Thread, NEW u \in Thread, s # u, Participates(u), scopes[s] # <<>>,
               \/ pc'[s] \in {"spAcquire", "spExit"} \/ Operating(s)'
               \/ pc'[s] = "resume" /\ u \in iter
        PROVE  scopes[s][1] \in at'[u]
    <3>1. CASE s = t
      BY ZenonT(20), <1>1, <2>1, <3>1 DEF Operating
    <3>2. CASE s # t
      <4>1. \/ pc[s] \in {"spAcquire", "spExit"} \/ Operating(s)
            \/ pc[s] = "resume" /\ u \in iter
        BY <1>2, <2>1, <3>2, ZenonT(20)
      <4>2. scopes[s][1] \in at[u] /\ scopes[s][1] \in Level
        BY <2>1, <4>1, ZenonT(30) DEF IInv, Stopping, Types
      <4>3. Requests(s, scopes[s][1], u)
        BY ZenonT(20), <2>1, <4>1 DEF Requests
      <4>4. scopes[s][1] \in req[u]
        BY <2>1, <4>2, <4>3, Zenon DEF IInv, Requesting
      <4>5. QED
        BY ZenonT(20), <4>2, <4>4
    <3>3. QED
      BY ZenonT(20), <3>1, <3>2
  <2>2. QED
    BY <1>6, <2>1, ZenonT(30) DEF Stopping
<1>11. Waiting'
  <2>1. t \notin waiting
    BY ZenonT(30) DEF IInv, Waiting, BlockedPCs
  <2>2. \A r \in Thread : pc[r] = "resume" => pc'[r] = "resume"
    BY <1>2, Zenon
  <2>3. \A u \in Thread : pc[u] = "spWait" => scopes[u][1] \in Level
    BY OneScope, Zenon DEF StartPCs
  <2>4. \A u \in waiting : u \in Thread \ {t}
    BY <2>1, Zenon DEF IInv, Types
  <2>5. ASSUME NEW u \in waiting
        PROVE  \/ pc'[u] \in BlockedPCs /\ IsSafepointRequested(u, current_safepoint_level(u))'
               \/ pc'[u] = "addWait" /\ ((\E l \in Level : owner'[l] # NoThread)
                                         \/ \E r \in Thread : pc'[r] = "resume")
               \/ pc'[u] = "spWait" /\ (owner'[scopes'[u][1]] # NoThread
                                        \/ \E r \in Thread : pc'[r] = "resume")
    <3>1. u \in Thread \ {t} /\ pc'[u] = pc[u]
      BY <1>2, <2>4, Zenon
    <3>2. IsSafepointRequested(u, current_safepoint_level(u))'
            <=> IsSafepointRequested(u, current_safepoint_level(u))
      BY <1>3, <3>1, Zenon DEF IsSafepointRequested
    <3>3. CASE pc[u] \in BlockedPCs /\ IsSafepointRequested(u, current_safepoint_level(u))
      BY <3>1, <3>2, <3>3, Zenon
    <3>4. CASE pc[u] = "addWait" /\ ((\E l \in Level : owner[l] # NoThread)
                                     \/ \E r \in Thread : pc[r] = "resume")
      BY <2>2, <3>1, <3>4, Zenon
    <3>5. CASE pc[u] = "spWait" /\ (owner[scopes[u][1]] # NoThread
                                    \/ \E r \in Thread : pc[r] = "resume")
      BY <2>2, <2>3, <3>1, <3>5, Zenon
    <3>6. QED
      BY <3>3, <3>4, <3>5, Zenon DEF IInv, Waiting
  <2>6. QED
    BY <2>5, Zenon DEF Waiting
<1>12. QED
  BY <1>3, <1>5, <1>8, <1>9, <1>10, <1>11, ZenonT(30) DEF IInv

\* The end of the walk of the active list preserves the invariant.
LEMMA NotifyThreadsDoneInv ==
  ASSUME IInv, NEW t \in Thread, NotifyThreadsDone(t) PROVE IInv'
<1>1. pc[t] = "spNotify" /\ iter = {} /\ pc' = [pc EXCEPT ![t] = "spSend"]
  BY DEF NotifyThreadsDone
<1>2. /\ UNCHANGED <<threadVars, at, req, blocked, signalVars, owner, count,
                     scopes, waiting, notParked, iter>>
  BY DEF NotifyThreadsDone, wordVars, levelVars
<1>3. Types'
  BY <1>1, <1>2 DEF IInv, Types, threadVars, signalVars, PCs
<1>4. Parking(t)' /\ Scoping(t)'
  BY <1>1, <1>2, ZenonT(30) DEF IInv, Types, Parking, Scoping, ParkLevel, Top, AwakePCs,
     StartPCs, BlockedPCs, threadVars
<1>5. \A s \in Thread, l \in Level : Holds(s, l)' <=> Holds(s, l)
  BY <1>1, <1>2 DEF IInv, Types, Holds, Operating
<1>6. Owning' /\ Counting'
  BY <1>2, <1>5, OwningFrame
<1>7. QED
  BY <1>1, <1>2, <1>3, <1>4, <1>6, StartStep, ZenonT(30)

\* When WaitUntilThreadsReachedSafepointLevel returns all others are parked.
LEMMA WaitUntilThreadsReachedSafepointLevelInv ==
  ASSUME IInv, NEW t \in Thread, WaitUntilThreadsReachedSafepointLevel(t) PROVE IInv'
<1>1. pc[t] = "spSend" /\ pc' = [pc EXCEPT ![t] = "spAcquire"]
  BY DEF WaitUntilThreadsReachedSafepointLevel
<1>2. UNCHANGED <<threadVars, at, req, blocked, signalVars, owner, count,
                  scopes, waiting, notParked, iter>>
  BY DEF WaitUntilThreadsReachedSafepointLevel, wordVars, levelVars
<1>3. Types'
  BY <1>1, <1>2 DEF IInv, Types, threadVars, signalVars, PCs
<1>4. Parking(t)' /\ Scoping(t)'
  BY <1>1, <1>2, ZenonT(30) DEF IInv, Types, Parking, Scoping, ParkLevel, Top, AwakePCs,
     StartPCs, BlockedPCs, threadVars
<1>5. \A s \in Thread, l \in Level : Holds(s, l)' <=> Holds(s, l)
  BY <1>1, <1>2 DEF IInv, Types, Holds, Operating
<1>6. Owning' /\ Counting'
  BY <1>2, <1>5, OwningFrame
<1>7. scopes[t] # <<>> /\ Top(t) = scopes[t][1] /\ scopes[t][1] \in Level
  BY <1>1, OneScope DEF StartPCs
<1>8. Missing(scopes[t][1]) = {}
  <2>1. notParked[Top(t)] <= 0
    BY DEF WaitUntilThreadsReachedSafepointLevel, AllParked
  <2>2. Cardinality(Missing(scopes[t][1])) = 0
    BY <1>7, <2>1, MissingIsFinite DEF IInv, NotParkedIsExact
  <2>3. QED
    BY <2>2, MissingIsFinite, FS_EmptySet
<1>9. ASSUME NEW u \in Thread \ {t}, Participates(u) PROVE scopes[t][1] \in at[u]
  <2>1. Requests(t, scopes[t][1], u)
    BY <1>1, <1>7 DEF Requests
  <2>2. scopes[t][1] \in req[u]
    BY <1>7, <1>9, <2>1, ZenonT(30) DEF IInv, Requesting
  <2>3. QED
    BY <1>8, <2>2 DEF Missing
<1>10. QED
  BY <1>1, <1>2, <1>3, <1>4, <1>6, <1>9, StartStep, Zenon

\* When all threads are parked for t, nobody owns a level below t's: an owner
\* parked no higher than its own level, or would own t's level as well.
LEMMA LowerLevelsUnowned ==
  ASSUME IInv, NEW t \in Thread, pc[t] = "spAcquire", NEW i \in Level, i < scopes[t][1]
  PROVE  owner[i] = NoThread
<1> DEFINE l == scopes[t][1]
<1>1. l \in Level /\ scopes[t] # <<>>
  BY OneScope DEF StartPCs
<1>2. owner[l] = t
  <2>1. Holds(t, l)
    BY DEF Holds
  <2>2. QED
    BY <1>1, <2>1 DEF IInv, Owning
<1>3. SUFFICES ASSUME NEW s \in Thread, owner[i] = s PROVE FALSE
  BY DEF IInv, Types
<1>4. Holds(s, i)
  BY <1>3, Zenon DEF IInv, Owning
<1>5. s # t /\ ~Holds(s, l)
  <2>1. ~Holds(t, i)
    BY <1>1 DEF Holds, Operating, Level, kGC, kGCAndDeoptAndReload
  <2>2. s # t
    BY <1>4, <2>1, ZenonT(30)
  <2>3. QED
    BY <1>1, <1>2, <2>2, ZenonT(30) DEF IInv, Owning
<1>6. scopes[s] # <<>> /\ scopes[s][1] \in Level
  BY <1>4, OneScope DEF Holds, Operating, StartPCs, IInv, Types
<1>7. Participates(s)
  BY <1>4, <1>6, ZenonT(30) DEF Participates, Active, Holds, Operating, IInv, Scoping
<1>8. l \in at[s]
  BY <1>1, <1>5, <1>7, Zenon DEF IInv, Stopping
<1>9. CASE pc[s] \in {"spNotify", "spSend", "spAcquire", "spExit"}
  <2>1. at[s] = 0..scopes[s][1]
    BY ZenonT(20), <1>9, OneScope DEF IInv, Parking, ParkLevel, AwakePCs, StartPCs
  <2>2. QED
    <3>1. l <= scopes[s][1]
      BY <1>1, <1>6, <1>8, <2>1 DEF Level, kGC, kGCAndDeoptAndReload
    <3>2. l # scopes[s][1] /\ pc[s] # "spExit"
      BY <1>5, <1>9, <3>1, Zenon DEF Holds
    <3>3. i = scopes[s][1]
      BY <1>4, <1>9, <3>2, Zenon DEF Holds, Operating
    <3>4. QED
      BY <1>1, <1>6, <3>1, <3>3 DEF Level, kGC, kGCAndDeoptAndReload
<1>10. CASE pc[s] = "op"
  BY <1>8, <1>10, ZenonT(20) DEF IInv, Parking, AwakePCs
<1>11. CASE pc[s] \in {"native", "suspended"}
  <2>1. scopes[s][1] = kGCAndDeoptAndReload
    BY <1>6, <1>11 DEF IInv, Scoping
  <2>2. QED
    BY <1>1, <1>5, <1>6, <1>11, <2>1 DEF Holds, Operating, Level, kGC, kGCAndDeoptAndReload
<1>12. QED
  BY <1>4, <1>9, <1>10, <1>11 DEF Holds, Operating

\* AcquireLowerLevelSafepoints preserves the invariant.
LEMMA AcquireLowerLevelSafepointsInv ==
  ASSUME IInv, NEW t \in Thread, AcquireLowerLevelSafepoints(t) PROVE IInv'
<1> DEFINE l == scopes[t][1]
<1>1. /\ pc[t] = "spAcquire" /\ pc' = [pc EXCEPT ![t] = "spExit"] /\ ThreadsLockFree
      /\ scopes[t] # <<>> /\ Top(t) = l /\ l \in Level /\ Len(scopes[t]) = 1
  BY OneScope DEF AcquireLowerLevelSafepoints, StartPCs
<1> HIDE DEF l
<1>2. /\ UNCHANGED <<threadVars, at, req, blocked, signalVars, scopes, waiting, notParked, iter>>
      /\ owner' = [i \in Level |-> IF i < l THEN t ELSE owner[i]]
      /\ count' = [i \in Level |-> IF i < l THEN 1 ELSE count[i]]
  BY <1>1 DEF AcquireLowerLevelSafepoints, wordVars
<1>3. Types'
  <2>1. /\ owner \in [Level -> Thread \cup {NoThread}] /\ count \in [Level -> Int]
        /\ pc \in [Thread -> PCs]
    BY Zenon DEF IInv, Types
  <2>2. /\ owner' \in [Level -> Thread \cup {NoThread}] /\ count' \in [Level -> Int]
    BY <1>2, <2>1
  <2>3. pc' \in [Thread -> PCs]
    BY <1>1, <2>1 DEF PCs
  <2>4. QED
    BY <1>2, <2>2, <2>3, Zenon DEF IInv, Types, threadVars, signalVars
<1>4. Parking(t)' /\ Scoping(t)'
  BY <1>1, <1>2, ZenonT(30) DEF IInv, Types, Parking, Scoping, ParkLevel, Top, AwakePCs,
     StartPCs, BlockedPCs, threadVars
<1>5. \A i \in Level : i < l => owner[i] = NoThread
  BY <1>1, LowerLevelsUnowned DEF l
<1>6. /\ \A i \in Level : Holds(t, i)' <=> i <= l
      /\ \A i \in Level : Holds(t, i) <=> i = l
      /\ \A s \in Thread \ {t}, i \in Level : Holds(s, i)' <=> Holds(s, i)
  <2>1. pc'[t] = "spExit" /\ \A s \in Thread \ {t} : pc'[s] = pc[s]
    BY <1>1 DEF IInv, Types
  <2>2. \A i \in Level : (Holds(t, i)' <=> i <= l) /\ (Holds(t, i) <=> i = l)
    BY <1>1, <1>2, <2>1, ZenonT(30) DEF Holds, Operating, l
  <2>3. \A s \in Thread \ {t}, i \in Level : Holds(s, i)' <=> Holds(s, i)
    BY <1>2, <2>1, Zenon DEF Holds, Operating
  <2>4. QED
    BY <2>2, <2>3
<1>7. Owning'
  <2>1. \A s \in Thread \ {t}, i \in Level : Holds(s, i) => ~(i < l)
    BY <1>5, ConstantsAssumption DEF IInv, Owning
  <2>2. \A i \in Level : owner'[i] = IF i < l THEN t ELSE owner[i]
    BY <1>2, Zenon
  <2>3. \A s \in Thread, i \in Level : owner[i] = s <=> Holds(s, i)
    BY Zenon DEF IInv, Owning
  <2>4. \A i \in Level : i <= l <=> i < l \/ i = l
    BY <1>1 DEF Level, kGC, kGCAndDeoptAndReload
  <2>5. ASSUME NEW s \in Thread, NEW i \in Level
        PROVE  owner'[i] = s <=> Holds(s, i)'
    <3>1. CASE s = t
      BY <1>6, <2>2, <2>3, <2>4, <3>1, Zenon
    <3>2. CASE s # t
      BY <1>6, <2>1, <2>2, <2>3, <3>2, Zenon
    <3>3. QED
      BY <3>1, <3>2, Zenon
  <2>6. QED
    BY <2>5, Zenon DEF Owning
<1>8. Counting'
  <2>1. ASSUME NEW i \in Level, i < l
        PROVE  /\ owner'[i] = NoThread <=> count'[i] = 0
               /\ \A s \in Thread : Holds(s, i)' => count'[i] = Cardinality(OpenScopes(s, i)')
    <3>1. owner'[i] = t /\ count'[i] = 1
      BY <1>2, <2>1
    <3>2. OpenScopes(t, i)' = {1}
      BY <1>1, <1>2, <2>1 DEF OpenScopes, l, Level, kGC, kGCAndDeoptAndReload
    <3>3. Cardinality(OpenScopes(t, i)') = 1
      BY <3>2, FS_Singleton
    <3>4. \A s \in Thread : Holds(s, i)' => s = t
      BY ZenonT(20), <1>5, <1>6, <2>1, ConstantsAssumption DEF IInv, Owning
    <3>5. QED
      BY <3>1, <3>3, <3>4, ConstantsAssumption
  <2>2. ASSUME NEW i \in Level, ~(i < l)
        PROVE  /\ owner'[i] = NoThread <=> count'[i] = 0
               /\ \A s \in Thread : Holds(s, i)' => count'[i] = Cardinality(OpenScopes(s, i)')
    <3>1. owner'[i] = owner[i] /\ count'[i] = count[i]
      BY ZenonT(20), <1>2, <2>2
    <3>2. \A s \in Thread : Holds(s, i)' <=> Holds(s, i)
      <4>1. i <= l <=> i = l
        BY <1>1, <2>2 DEF Level, kGC, kGCAndDeoptAndReload
      <4>2. QED
        BY <1>6, <4>1, Zenon
    <3>3. \A s \in Thread : OpenScopes(s, i)' = OpenScopes(s, i)
      BY <1>2, Zenon DEF OpenScopes
    <3>4. QED
      BY <3>1, <3>2, <3>3 DEF IInv, Counting
  <2>3. QED
    BY <2>1, <2>2 DEF Counting
<1>9. \A u \in Thread \ {t} : Participates(u) => scopes[t][1] \in at[u]
  BY <1>1 DEF IInv, Stopping
<1>10. \A i \in Level : owner[i] # NoThread => owner'[i] # NoThread
  BY <1>2, ConstantsAssumption
<1>11. QED
  BY <1>1, <1>2, <1>3, <1>4, <1>7, <1>8, <1>9, <1>10, StartStep, Zenon

\* The end of SafepointThreads preserves the invariant: it does not block.
LEMMA StartOperationInv ==
  ASSUME IInv, NEW t \in Thread, StartOperation(t) PROVE IInv'
<1> DEFINE l == scopes[t][1]
<1>1. /\ pc[t] = "spExit" /\ scopes[t] # <<>> /\ Top(t) = l /\ l \in Level
      /\ Len(scopes[t]) = 1
  BY OneScope DEF StartOperation, StartPCs
<1>2. ~IsSafepointRequested(t, l)
  BY ZenonT(20), <1>1, OwnerNotRequested
<1>3. at[t] = 0..l
  BY <1>1 DEF IInv, Parking, ParkLevel, AwakePCs, StartPCs
<1> HIDE DEF l
<1>4. /\ blocked' = [blocked EXCEPT ![t] = FALSE]
      /\ at' = [at EXCEPT ![t] = {}]
      /\ pc' = [pc EXCEPT ![t] = "op"]
      /\ UNCHANGED <<threadVars, req, signalVars, owner, count, scopes, waiting, notParked, iter>>
  BY <1>1, <1>2, <1>3, ExitSafepointEffect, Zenon DEF StartOperation, Home, levelVars
<1>5. Types'
  BY <1>4 DEF IInv, Types, threadVars, signalVars, PCs
<1>6. Parking(t)' /\ Scoping(t)'
  BY <1>1, <1>4, ZenonT(30) DEF IInv, Types, Parking, Scoping, AwakePCs, StartPCs,
     BlockedPCs, threadVars
<1>7. \A s \in Thread, i \in Level : Holds(s, i)' <=> Holds(s, i)
  BY <1>1, <1>4 DEF IInv, Types, Holds, Operating
<1>8. Owning' /\ Counting'
  BY <1>4, <1>7, OwningFrame
<1>9. \A u \in Thread \ {t} : Participates(u) => scopes[t][1] \in at[u]
  BY <1>1, Zenon DEF IInv, Stopping
<1>10. \A i \in Level : i \in req[t] => (i \in at'[t] <=> i \in at[t])
  BY <1>2, <1>3, <1>4 DEF IsSafepointRequested, IInv, Types
<1>11. \A u \in Thread \ {t} : at'[u] = at[u] /\ blocked'[u] = blocked[u]
  BY <1>4 DEF IInv, Types
<1>12. QED
  BY <1>1, <1>4, <1>5, <1>6, <1>8, <1>9, <1>10, <1>11, StartStep, ZenonT(30)

-----------------------------------------------------------------------------
(* The steps of nested operations and of ResumeThreads keep the invariant. *)

\* Opening and closing a scope inside an operation changes how many scopes are
\* counted at the levels up to the scope's.
LEMMA NestedScopeInv ==
  ASSUME IInv, NEW t \in Thread, pc[t] = "op", ThreadsLockFree,
         NEW l \in Level, l <= scopes[t][1], NEW d \in {-1, 1},
         scopes' = [scopes EXCEPT ![t] = scopes'[t]], scopes'[t] \in Seq(Level),
         scopes'[t] # <<>>, scopes'[t][1] = scopes[t][1],
         \A i \in 1..Len(scopes'[t]) : scopes'[t][i] <= scopes[t][1],
         count' = CountScope(l, d),
         \A i \in Level : Cardinality(OpenScopes(t, i)') =
                          Cardinality(OpenScopes(t, i)) + (IF i <= l THEN d ELSE 0),
         UNCHANGED <<pc, threadVars, wordVars, signalVars, owner, waiting, notParked, iter>>
  PROVE  IInv'
<1>1. Types'
  <2>1. count' \in [Level -> Int]
    <3>1. count \in [Level -> Int] /\ d \in Int
      BY DEF IInv, Types
    <3>2. count' = [i \in Level |-> IF i <= l THEN count[i] + d ELSE count[i]]
      BY Zenon DEF CountScope
    <3>3. QED
      BY ONLY <3>1, <3>2
  <2>2. scopes' \in [Thread -> Seq(Level)]
    BY Zenon DEF IInv, Types
  <2>3. QED
    BY <2>1, <2>2, Zenon DEF IInv, Types, threadVars, wordVars, signalVars
<1>2. \A u \in Thread \ {t} : scopes'[u] = scopes[u]
  BY DEF IInv, Types
<1>3. scopes[t] # <<>> /\ scopes[t][1] \in Level
  BY DEF IInv, Scoping, Types
<1>4. Parking(t)' /\ Scoping(t)'
  BY <1>3, ZenonT(20) DEF IInv, Parking, Scoping, AwakePCs, StartPCs, BlockedPCs, threadVars,
     wordVars
<1>5. /\ \A u \in Thread : Parking(u)' /\ Scoping(u)'
      /\ \A u \in Thread \ {t} :
           current_safepoint_level(u)' = current_safepoint_level(u)
  BY <1>2, <1>4, OthersFrame DEF threadVars, wordVars
<1>6. \A s \in Thread : Operating(s)' <=> Operating(s)
  BY <1>2, <1>3 DEF Operating
<1>7. \A s \in Thread, i \in Level : Holds(s, i)' <=> Holds(s, i)
  <2>1. \A s \in Thread : scopes'[s][1] = scopes[s][1]
    BY <1>2
  <2>2. QED
    BY <1>6, <2>1 DEF Holds
<1>8. Owning'
  BY <1>7 DEF IInv, Owning
<1>9. Counting'
  <2>1. ASSUME NEW i \in Level, i <= scopes[t][1]
        PROVE  /\ owner'[i] = NoThread <=> count'[i] = 0
               /\ \A s \in Thread : Holds(s, i)' => count'[i] = Cardinality(OpenScopes(s, i)')
    <3>1. Holds(t, i)
      BY <1>3, <2>1 DEF Holds, Operating
    <3>2. owner[i] = t /\ owner' = owner
      BY <3>1 DEF IInv, Owning
    <3>3. count[i] = Cardinality(OpenScopes(t, i))
      BY <3>1 DEF IInv, Counting
    <3>4. count'[i] = Cardinality(OpenScopes(t, i)')
      BY <3>3 DEF CountScope, IInv, Types
    <3>5. Cardinality(OpenScopes(t, i)') # 0
      <4>1. 1 \in OpenScopes(t, i)'
        BY <1>3, <2>1 DEF OpenScopes, Level, kGC, kGCAndDeoptAndReload
      <4>2. IsFiniteSet(OpenScopes(t, i)')
        <5>1. Len(scopes'[t]) \in Nat /\ OpenScopes(t, i)' \subseteq 1..Len(scopes'[t])
          BY DEF OpenScopes
        <5>2. IsFiniteSet(1..Len(scopes'[t]))
          BY <5>1, FS_Interval
        <5>3. QED
          BY <5>1, <5>2, FS_Subset
      <4>3. QED
        BY <4>1, <4>2, FS_EmptySet
    <3>6. \A s \in Thread : Holds(s, i)' => s = t
      BY <1>7, <3>2 DEF IInv, Owning
    <3>7. QED
      BY <3>2, <3>4, <3>5, <3>6, ConstantsAssumption
  <2>2. ASSUME NEW i \in Level, ~(i <= scopes[t][1])
        PROVE  /\ owner'[i] = NoThread <=> count'[i] = 0
               /\ \A s \in Thread : Holds(s, i)' => count'[i] = Cardinality(OpenScopes(s, i)')
    <3>1. ~(i <= l) /\ ~Holds(t, i)
      BY <1>3, <2>2 DEF Holds, Operating, Level, kGC, kGCAndDeoptAndReload
    <3>2. count'[i] = count[i] /\ owner' = owner
      BY <3>1 DEF CountScope
    <3>3. \A s \in Thread : Holds(s, i)' => Holds(s, i) /\ OpenScopes(s, i)' = OpenScopes(s, i)
      BY ZenonT(20), <1>2, <1>7, <3>1 DEF OpenScopes
    <3>4. QED
      BY ZenonT(20), <3>2, <3>3 DEF IInv, Counting
  <2>3. QED
    BY <2>1, <2>2 DEF Counting
<1>10. Locking' /\ Active' = Active
  BY <1>2 DEF IInv, Locking, LockPCs, ThreadsLockFree, Active
<1>11. \A s, u \in Thread, i \in Level : Requests(s, i, u)' <=> Requests(s, i, u)
  BY <1>2, <1>3, <1>6 DEF Requests
<1>12. \A u \in Thread : Participates(u)' <=> Participates(u)
  BY <1>10 DEF Participates, threadVars
<1>13. Requesting'
  BY ZenonT(20), <1>11, <1>12 DEF IInv, Requesting, wordVars
<1>14. Stopping'
  BY ZenonT(20), <1>2, <1>3, <1>6, <1>12 DEF IInv, Stopping, wordVars
<1>15. NotParkedIsExact'
  BY ZenonT(20), NotParkedFrame DEF IInv, wordVars
<1>16. Waiting'
  <2>1. \A u \in waiting : u \in Thread \ {t}
    BY Zenon DEF IInv, Types, Waiting, BlockedPCs
  <2>2. \A u \in waiting :
          /\ scopes'[u] = scopes[u]
          /\ IsSafepointRequested(u, current_safepoint_level(u))'
             <=> IsSafepointRequested(u, current_safepoint_level(u))
    BY <1>2, <1>5, <2>1, ZenonT(20) DEF IsSafepointRequested, wordVars
  <2>3. QED
    BY <2>2, ZenonT(20) DEF IInv, Waiting
<1>17. QED
  BY <1>1, <1>5, <1>8, <1>9, <1>10, <1>13, <1>14, <1>15, <1>16 DEF IInv

\* SafepointThreads on a level the thread owns preserves the invariant.
LEMMA SafepointThreadsNestedInv ==
  ASSUME IInv, NEW t \in Thread, NEW l \in Level, SafepointThreadsNested(t, l)
  PROVE  IInv'
<1> DEFINE n == Len(scopes[t])
<1>1. /\ pc[t] = "op" /\ ThreadsLockFree /\ scopes[t] # <<>> /\ scopes[t] \in Seq(Level)
      /\ scopes' = [scopes EXCEPT ![t] = Append(scopes[t], l)]
      /\ scopes'[t] = Append(scopes[t], l)
  BY DEF SafepointThreadsNested, IInv, Scoping, Types
<1>2. /\ n \in Nat \ {0} /\ Len(scopes'[t]) = n + 1 /\ scopes'[t][n + 1] = l
      /\ \A i \in 1..n : scopes'[t][i] = scopes[t][i]
      /\ scopes'[t] \in Seq(Level) /\ scopes'[t] # <<>>
  BY <1>1
<1>3. l <= scopes[t][1]
  <2>1. Holds(t, l)
    BY DEF SafepointThreadsNested, IInv, Owning
  <2>2. QED
    BY ZenonT(20), <1>1, <2>1 DEF Holds
<1>4. \A i \in 1..Len(scopes'[t]) : scopes'[t][i] <= scopes[t][1]
  BY <1>2, <1>3 DEF IInv, Scoping
<1>5. ASSUME NEW i \in Level
      PROVE  Cardinality(OpenScopes(t, i)') =
             Cardinality(OpenScopes(t, i)) + (IF i <= l THEN 1 ELSE 0)
  <2>1. IsFiniteSet(OpenScopes(t, i)) /\ Cardinality(OpenScopes(t, i)) \in Nat
    BY OpenScopesFinite DEF IInv
  <2>2. CASE i <= l
    <3>1. OpenScopes(t, i)' = OpenScopes(t, i) \cup {n + 1} /\ n + 1 \notin OpenScopes(t, i)
      <4>1. l >= i
        BY <2>2 DEF Level, kGC, kGCAndDeoptAndReload
      <4>2. 1..(n + 1) = (1..n) \cup {n + 1} /\ n + 1 \notin 1..n
        BY <1>2
      <4>3. QED
        BY <1>2, <4>1, <4>2 DEF OpenScopes
    <3>2. QED
      BY <2>1, <2>2, <3>1, FS_AddElement, Zenon
  <2>3. CASE ~(i <= l)
    <3>1. OpenScopes(t, i)' = OpenScopes(t, i)
      BY <1>2, <2>3 DEF OpenScopes, Level, kGC, kGCAndDeoptAndReload
    <3>2. QED
      BY <2>1, <2>3, <3>1
  <2>4. QED
    BY <2>2, <2>3
<1>6. scopes'[t][1] = scopes[t][1]
  BY <1>2
<1>7. scopes' = [scopes EXCEPT ![t] = scopes'[t]]
  BY <1>1, Zenon
<1> HIDE DEF n
<1>8. QED
  BY <1>1, <1>2, <1>3, <1>4, <1>5, <1>6, <1>7, NestedScopeInv, ZenonT(30)
     DEF SafepointThreadsNested

\* The first ResumeThreads case: the scope that ends is nested in another.
LEMMA ResumeNestedInv ==
  ASSUME IInv, NEW t \in Thread, ResumeThreads(t), count[Top(t)] > 1
  PROVE  IInv'
<1> DEFINE n == Len(scopes[t])
           l == scopes[t][n]
<1>1. /\ pc[t] = "op" /\ ThreadsLockFree /\ scopes[t] # <<>> /\ scopes[t] \in Seq(Level)
      /\ n \in Nat \ {0} /\ l \in Level /\ l <= scopes[t][1] /\ Top(t) = l
  <2>1. pc[t] = "op" /\ ThreadsLockFree /\ Top(t) = l
    BY Zenon DEF ResumeThreads, Top
  <2>2. scopes[t] # <<>> /\ scopes[t] \in Seq(Level)
    BY <2>1, ZenonT(20) DEF IInv, Scoping, Types
  <2>3. n \in Nat \ {0} /\ l \in Level /\ n \in 1..n
    BY ONLY <2>2
  <2>4. l <= scopes[t][1]
    BY <2>3, ZenonT(20) DEF IInv, Scoping
  <2>5. QED
    BY <2>1, <2>2, <2>3, <2>4, Zenon
<1>2. /\ count' = CountScope(l, -1)
      /\ scopes' = [scopes EXCEPT ![t] = SubSeq(scopes[t], 1, n - 1)]
      /\ pc' = [pc EXCEPT ![t] = IF n = 1 THEN "running" ELSE "op"]
      /\ UNCHANGED <<owner, iter, threadVars, wordVars, signalVars, waiting, notParked>>
  <2>1. ~(count[Top(t)] <= 1)
    BY <1>1 DEF IInv, Types
  <2>2. QED
    BY <1>1, <2>1, Zenon DEF ResumeThreads, Pop
<1>3. count[l] = Cardinality(OpenScopes(t, l))
  <2>1. Holds(t, l)
    BY <1>1 DEF Holds, Operating
  <2>2. QED
    BY <1>1, <2>1 DEF IInv, Counting
<1>4. n # 1
  <2>1. SUFFICES ASSUME n = 1 PROVE FALSE
    OBVIOUS
  <2>2. OpenScopes(t, l) = {1}
    BY <1>1, <2>1 DEF OpenScopes, Level, kGC, kGCAndDeoptAndReload
  <2>3. count[l] = 1
    BY <1>3, <2>2, FS_Singleton, Zenon
  <2>4. QED
    BY <1>1, <2>3
<1>5. scopes'[t] = SubSeq(scopes[t], 1, n - 1)
  BY <1>2 DEF IInv, Types
<1>6. /\ Len(scopes'[t]) = n - 1 /\ n - 1 \in Nat \ {0}
      /\ \A i \in 1..(n - 1) : scopes'[t][i] = scopes[t][i]
      /\ scopes'[t] \in Seq(Level)
  BY <1>1, <1>4, <1>5
<1>7. /\ scopes'[t] # <<>> /\ scopes'[t][1] = scopes[t][1]
      /\ \A i \in 1..Len(scopes'[t]) : scopes'[t][i] <= scopes[t][1]
  <2> HIDE DEF n, l
  <2>1. scopes'[t] # <<>>
    BY <1>6, Zenon
  <2>2. scopes'[t][1] = scopes[t][1]
    <3>0. n \in Nat /\ n - 1 \in Nat \ {0}
      BY <1>1, <1>6, Zenon
    <3>1. 1 \in 1..(n - 1)
      BY ONLY <3>0
    <3>2. QED
      BY <1>6, <3>1, Zenon
  <2>3. \A i \in 1..(n - 1) : scopes[t][i] <= scopes[t][1]
    <3>1. \A i \in 1..n : scopes[t][i] <= scopes[t][1]
      BY DEF IInv, Scoping, n
    <3>2. QED
      BY <1>1, <3>1
  <2>4. QED
    BY <1>6, <2>1, <2>2, <2>3
<1>8. ASSUME NEW i \in Level
      PROVE  Cardinality(OpenScopes(t, i)') =
             Cardinality(OpenScopes(t, i)) + (IF i <= l THEN -1 ELSE 0)
  <2>1. IsFiniteSet(OpenScopes(t, i)) /\ Cardinality(OpenScopes(t, i)) \in Nat
    BY OpenScopesFinite DEF IInv
  <2>2. CASE i <= l
    <3>1. OpenScopes(t, i)' = OpenScopes(t, i) \ {n} /\ n \in OpenScopes(t, i)
      <4>1. l >= i /\ n \in 1..n /\ 1..(n - 1) = (1..n) \ {n}
        BY ONLY i \in Level, <1>1, <2>2 DEF Level, kGC, kGCAndDeoptAndReload
      <4>2. OpenScopes(t, i)' = {k \in 1..(n - 1) : scopes[t][k] >= i}
        BY <1>6, ZenonT(20) DEF OpenScopes
      <4>3. QED
        BY <4>1, <4>2, ZenonT(20) DEF OpenScopes
    <3>2. Cardinality(OpenScopes(t, i) \ {n}) = Cardinality(OpenScopes(t, i)) - 1
      BY <2>1, <3>1, FS_RemoveElement, Zenon
    <3>3. QED
      BY ZenonT(20), <2>1, <2>2, <3>1, <3>2
  <2>3. CASE ~(i <= l)
    <3>1. OpenScopes(t, i)' = OpenScopes(t, i)
      <4>1. ~(l >= i) /\ 1..(n - 1) = (1..n) \ {n}
        BY ONLY i \in Level, <1>1, <2>3 DEF Level, kGC, kGCAndDeoptAndReload
      <4>2. OpenScopes(t, i)' = {k \in 1..(n - 1) : scopes[t][k] >= i}
        BY <1>6, ZenonT(20) DEF OpenScopes
      <4>3. QED
        BY <4>1, <4>2, ZenonT(20) DEF OpenScopes
    <3>2. QED
      BY <2>1, <2>3, <3>1
  <2>4. QED
    BY <2>2, <2>3
<1>9. scopes' = [scopes EXCEPT ![t] = scopes'[t]]
  BY <1>2, <1>5, Zenon
<1>10. UNCHANGED pc
  BY ZenonT(20), <1>1, <1>2, <1>4 DEF IInv, Types
<1> HIDE DEF n, l
<1>11. QED
  BY <1>1, <1>2, <1>6, <1>7, <1>8, <1>9, <1>10, NestedScopeInv, Zenon

\* The second: the outermost scope ends, and t walks the active list.
LEMMA ResumeOutermostInv ==
  ASSUME IInv, NEW t \in Thread, ResumeThreads(t), count[Top(t)] <= 1
  PROVE  IInv'
<1> DEFINE l == Top(t)
<1>1. /\ pc[t] = "op" /\ ThreadsLockFree /\ scopes[t] # <<>> /\ scopes[t] \in Seq(Level)
      /\ l \in Level /\ l <= scopes[t][1] /\ iter = {}
  BY DEF ResumeThreads, IInv, Scoping, Types, Top, Locking
<1>2. Len(scopes[t]) = 1 /\ l = scopes[t][1]
  <2>1. Holds(t, l)
    BY <1>1 DEF Holds, Operating
  <2>2. Cardinality(OpenScopes(t, l)) <= 1
    BY <1>1, <2>1, ZenonT(30) DEF IInv, Counting
  <2>3. IsFiniteSet(OpenScopes(t, l))
    BY <1>1, OpenScopesFinite DEF IInv
  <2>4. 1 \in OpenScopes(t, l) /\ Len(scopes[t]) \in OpenScopes(t, l)
    BY <1>1 DEF OpenScopes, Top, Level, kGC, kGCAndDeoptAndReload
  <2>5. 1 = Len(scopes[t])
    <3>1. SUFFICES ASSUME 1 # Len(scopes[t]) PROVE FALSE
      OBVIOUS
    <3> DEFINE S == OpenScopes(t, l) \ {1}
    <3>2. IsFiniteSet(S) /\ Cardinality(S) = Cardinality(OpenScopes(t, l)) - 1
      BY <2>3, <2>4, FS_RemoveElement
    <3>3. Len(scopes[t]) \in S
      BY <2>4, <3>1
    <3>4. Cardinality(S) \in Nat /\ Cardinality(S) # 0
      BY <3>2, <3>3, FS_EmptySet, FS_CardinalityType, ZenonT(30)
    <3>5. Cardinality(OpenScopes(t, l)) \in Nat
      BY <2>3, FS_CardinalityType
    <3>6. QED
      BY <2>2, <3>2, <3>4, <3>5
  <2>6. QED
    BY <2>5 DEF Top
<1> HIDE DEF l
<1>3. /\ owner' = [i \in Level |-> IF i <= l THEN NoThread ELSE owner[i]]
      /\ count' = [i \in Level |-> IF i <= l THEN 0 ELSE count[i]]
      /\ iter' = Active \ {t}
      /\ pc' = [pc EXCEPT ![t] = "resume"]
      /\ UNCHANGED <<scopes, threadVars, at, req, blocked, signalVars, waiting, notParked>>
  <2>1. ~(count[Top(t)] > 1)
    BY <1>1 DEF IInv, Types, l
  <2>2. QED
    BY <1>1, <2>1, Zenon DEF ResumeThreads, wordVars, l
<1>4. Types'
  <2>1. iter' \in SUBSET Thread
    BY <1>3 DEF Active
  <2>2. owner' \in [Level -> Thread \cup {NoThread}] /\ count' \in [Level -> Int]
    BY <1>3 DEF IInv, Types
  <2>3. QED
    BY ZenonT(20), <1>3, <2>1, <2>2 DEF IInv, Types, threadVars, signalVars, PCs
<1>5. pc'[t] = "resume" /\ \A u \in Thread \ {t} : pc'[u] = pc[u]
  BY ZenonT(20), <1>3 DEF IInv, Types
<1>6. Parking(t)' /\ Scoping(t)'
  BY <1>1, <1>2, <1>3, <1>5, ZenonT(20) DEF IInv, Parking, Scoping, AwakePCs, StartPCs,
     BlockedPCs, threadVars
<1>7. /\ \A u \in Thread : Parking(u)' /\ Scoping(u)'
      /\ \A u \in Thread \ {t} :
           current_safepoint_level(u)' = current_safepoint_level(u)
  BY <1>3, <1>5, <1>6, OthersFrame, Zenon DEF threadVars
<1>8. ~Operating(t)' /\ Operating(t) /\ \A u \in Thread \ {t} : Operating(u)' <=> Operating(u)
  BY <1>1, <1>3, <1>5, ZenonT(30) DEF Operating
<1>9. /\ \A i \in Level : ~Holds(t, i)' /\ (Holds(t, i) <=> i <= l)
      /\ \A s \in Thread \ {t}, i \in Level : Holds(s, i)' <=> Holds(s, i)
  BY <1>1, <1>2, <1>3, <1>5, <1>8 DEF Holds
<1>10. \A s \in Thread \ {t}, i \in Level : Holds(s, i) => ~(i <= l)
  BY <1>9 DEF IInv, Owning
<1>11. Owning'
  BY ZenonT(20), <1>3, <1>9, <1>10, ConstantsAssumption DEF IInv, Owning
<1>12. Counting'
  <2>1. \A s \in Thread, i \in Level : OpenScopes(s, i)' = OpenScopes(s, i)
    BY <1>3 DEF OpenScopes
  <2>2. \A s \in Thread, i \in Level : Holds(s, i)' => s # t /\ Holds(s, i) /\ ~(i <= l)
    BY <1>9, <1>10
  <2>3. QED
    BY ZenonT(20), <1>3, <2>1, <2>2 DEF IInv, Counting
<1>13. Active' = Active
  BY ZenonT(20), <1>1, <1>5 DEF Active
<1>14. Locking'
  BY <1>1, <1>2, <1>3, <1>5, <1>13 DEF Locking, LockPCs, ThreadsLockFree
<1>15. \A u \in Thread : Participates(u)' <=> Participates(u)
  BY ZenonT(20), <1>3, <1>13 DEF Participates, threadVars
<1>16. \A s, u \in Thread, i \in Level : Participates(u) =>
         (Requests(s, i, u)' <=> Requests(s, i, u))
  BY ZenonT(20), <1>1, <1>3, <1>5, <1>8 DEF Requests, Participates, ThreadsLockFree
<1>17. Requesting'
  BY <1>3, <1>15, <1>16, ZenonT(20) DEF IInv, Requesting
<1>18. Stopping'
  BY <1>1, <1>3, <1>5, <1>8, <1>15 DEF IInv, Stopping, ThreadsLockFree
<1>19. NotParkedIsExact'
  BY ZenonT(20), <1>3, NotParkedFrame DEF IInv
<1>20. Waiting'
  <2>1. \A u \in waiting : u \in Thread \ {t}
    BY <1>1, Zenon DEF IInv, Types, Waiting, BlockedPCs
  <2>2. QED
    BY <1>3, <1>5, <1>7, <2>1 DEF IInv, Waiting, IsSafepointRequested
<1>21. QED
  BY ZenonT(20), <1>4, <1>7, <1>11, <1>12, <1>14, <1>17, <1>18, <1>19, <1>20 DEF IInv

\* ResumeThreads, up to its walk of the active list, preserves the invariant.
LEMMA ResumeThreadsInv ==
  ASSUME IInv, NEW t \in Thread, ResumeThreads(t) PROVE IInv'
<1>1. count[Top(t)] > 1 \/ count[Top(t)] <= 1
  BY DEF ResumeThreads
<1>2. QED
  BY <1>1, ResumeNestedInv, ResumeOutermostInv

\* NotifyThreadsToContinue, for one thread, preserves the invariant: the only
\* request it takes back is its own.
LEMMA ContinueThreadInv ==
  ASSUME IInv, NEW t \in Thread, NEW u \in Thread, ContinueThread(t, u) PROVE IInv'
<1> DEFINE l == Top(t)
<1>1. /\ pc[t] = "resume" /\ u \in iter /\ l \in Level /\ scopes[t] # <<>>
      /\ l = scopes[t][1]
  BY OneScope DEF ContinueThread
<1> HIDE DEF l
<1>2. /\ UNCHANGED <<pc, threadVars, at, blocked, signalVars, owner, count, scopes, notParked>>
      /\ iter' = iter \ {u}
      /\ req' = IF kind[u] = "bypass" THEN req ELSE [req EXCEPT ![u] = @ \ 0..l]
      /\ waiting' \subseteq waiting
      /\ kind[u] # "bypass" /\ blocked[u] => u \notin waiting'
  BY DEF ContinueThread, levelVars, l
<1>3. /\ u # t /\ u \in Active
      /\ \A i \in Level : i <= l => owner[i] = NoThread
      /\ \A r \in Thread \ {t} : pc[r] \notin LockPCs
  BY <1>1 DEF IInv, Locking, LockPCs
<1>4. ASSUME NEW s \in Thread, NEW i \in Level, Requests(s, i, u), i <= l
      PROVE  s = t /\ i = l
  <2>1. pc[s] = "resume"
    BY <1>3, <1>4, RequesterOwns, ConstantsAssumption
  <2>2. s = t
    BY <1>3, <2>1 DEF LockPCs
  <2>3. QED
    BY <1>1, <1>4, <2>2 DEF Requests
<1>5. kind[u] # "bypass" => l \in at[u]
  BY ZenonT(20), <1>1, <1>3 DEF IInv, Stopping, Participates
<1>6. \A i \in Level : i \in req[u] /\ i <= l => i \in at[u]
  BY ZenonT(20), <1>1, <1>4, <1>5 DEF IInv, Requesting, Participates
<1>7. Types'
  BY <1>2 DEF IInv, Types, threadVars, signalVars
<1>8. \A v \in Thread : /\ Parking(v)' /\ Scoping(v)'
                        /\ current_safepoint_level(v)' = current_safepoint_level(v)
  <2>1. \A v \in Thread : /\ current_safepoint_level(v)' = current_safepoint_level(v)
                          /\ ReloadScopeLevel(v)' = ReloadScopeLevel(v)
    BY <1>2, Zenon DEF ReloadScopeLevel, current_safepoint_level, SafepointLevelIf,
       AllowReload, threadVars
  <2>2. \A v \in Thread : ParkLevel(v)' = ParkLevel(v)
    BY <1>2, <2>1 DEF ParkLevel, Top
  <2>3. \A v \in Thread : Parking(v)'
    BY <1>2, <2>2 DEF IInv, Parking
  <2>4. \A v \in Thread : Scoping(v)'
    BY <1>2, ZenonT(30) DEF IInv, Scoping, threadVars
  <2>5. QED
    BY <2>1, <2>3, <2>4
<1>9. Owning' /\ Counting'
  <2>1. \A s \in Thread, i \in Level : Holds(s, i)' <=> Holds(s, i)
    BY ZenonT(20), <1>2 DEF Holds, Operating
  <2>2. QED
    BY <1>2, <2>1, OwningFrame
<1>10. Locking' /\ Active' = Active
  BY ZenonT(20), <1>1, <1>2 DEF IInv, Locking, LockPCs, ThreadsLockFree, Active
<1>11. \A v \in Thread : Participates(v)' <=> Participates(v)
  BY <1>2, <1>10 DEF Participates, threadVars
<1>12. Requesting'
  <2>1. \A s, v \in Thread, i \in Level :
          Requests(s, i, v)' <=> Requests(s, i, v) /\ ~(s = t /\ v = u)
    BY <1>1, <1>2, <1>3 DEF Requests, Operating, LockPCs
  <2>2. \A v \in Thread \ {u}, i \in Level : i \in req'[v] <=> i \in req[v]
    BY ZenonT(20), <1>2 DEF IInv, Types
  <2>3. \A v \in Thread \ {u}, i \in Level :
          i \in req'[v] <=> Participates(v)' /\ \E s \in Thread : Requests(s, i, v)'
    BY <1>11, <2>1, <2>2, ZenonT(20) DEF IInv, Requesting
  <2>4. ASSUME NEW i \in Level
        PROVE  i \in req'[u] <=> Participates(u)' /\ \E s \in Thread : Requests(s, i, u)'
    <3>1. CASE kind[u] = "bypass"
      BY ZenonT(20), <1>2, <1>11, <3>1 DEF IInv, Requesting, Participates
    <3>2. CASE kind[u] # "bypass" /\ i <= l
      <4>1. i \notin req'[u]
        BY <1>1, <1>2, <3>2 DEF IInv, Types, Level, kGC, kGCAndDeoptAndReload
      <4>2. QED
        BY ZenonT(20), <1>4, <2>1, <3>2, <4>1
    <3>3. CASE kind[u] # "bypass" /\ ~(i <= l)
      <4>1. i \in req'[u] <=> i \in req[u]
        <5>1. req' = [req EXCEPT ![u] = @ \ 0..l] /\ req \in [Thread -> SUBSET Level]
          BY <1>2, <3>3, ZenonT(20) DEF IInv, Types
        <5>2. QED
          BY ONLY <3>3, <5>1, u \in Thread
      <4>2. ~Requests(t, i, u)
        BY <1>1, <3>3 DEF Requests, Level, kGC, kGCAndDeoptAndReload
      <4>3. QED
        BY <1>11, <2>1, <4>1, <4>2, ZenonT(30) DEF IInv, Requesting
    <3>4. QED
      BY ZenonT(20), <3>1, <3>2, <3>3
  <2>5. QED
    BY <2>3, <2>4 DEF Requesting
<1>13. Stopping'
  BY <1>2, <1>11 DEF IInv, Stopping, Operating
<1>14. NotParkedIsExact'
  <2>1. ASSUME NEW i \in Level PROVE Missing(i)' = Missing(i)
    <3>1. req \in [Thread -> SUBSET Level]
      BY ZenonT(20) DEF IInv, Types
    <3>2. \A v \in Thread : i \in req'[v] /\ i \notin at[v] <=> i \in req[v] /\ i \notin at[v]
      BY ONLY <1>1, <1>2, <1>6, <3>1, i \in Level, u \in Thread DEF Level, kGC,
         kGCAndDeoptAndReload
    <3>3. QED
      BY <1>2, <3>2, ZenonT(20) DEF Missing
  <2>2. QED
    BY <1>2, <2>1, ZenonT(30) DEF IInv, NotParkedIsExact
<1>15. Waiting'
  <2>1. ASSUME NEW v \in waiting', pc[v] \in BlockedPCs
        PROVE  IsSafepointRequested(v, current_safepoint_level(v))'
    <3>1. v \in waiting /\ v \in Thread
      BY ZenonT(20), <1>2, <2>1 DEF IInv, Types
    <3>2. blocked[v]
      BY ZenonT(20), <2>1, <3>1 DEF IInv, Parking
    <3>3. req'[v] = req[v]
      BY <1>2, <2>1, <3>1, <3>2 DEF IInv, Types
    <3>4. IsSafepointRequested(v, current_safepoint_level(v))
      BY <2>1, <3>1, ZenonT(30) DEF IInv, Waiting, BlockedPCs
    <3>5. QED
      BY ZenonT(20), <1>8, <3>1, <3>3, <3>4 DEF IsSafepointRequested
  <2>2. QED
    BY <1>1, <1>2, <2>1, ZenonT(30) DEF IInv, Waiting
<1>16. QED
  BY <1>7, <1>8, <1>9, <1>10, <1>12, <1>13, <1>14, <1>15 DEF IInv

\* The NotifyAll that ends ResumeThreads preserves the invariant.
LEMMA ResumeThreadsDoneInv ==
  ASSUME IInv, NEW t \in Thread, ResumeThreadsDone(t) PROVE IInv'
<1>1. /\ pc[t] = "resume" /\ iter = {} /\ scopes[t] # <<>> /\ Len(scopes[t]) = 1
      /\ scopes[t] \in Seq(Level)
  BY OneScope DEF ResumeThreadsDone, IInv, Types
<1>2. /\ scopes' = [scopes EXCEPT ![t] = <<>>]
      /\ pc' = [pc EXCEPT ![t] = "running"]
      /\ waiting' = {u \in waiting : pc[u] \notin {"addWait", "spWait"}}
      /\ UNCHANGED <<threadVars, at, req, blocked, signalVars, owner, count, notParked, iter>>
  <2>1. SubSeq(scopes[t], 1, Len(scopes[t]) - 1) = <<>>
    BY <1>1
  <2>2. QED
    BY <2>1, Zenon DEF ResumeThreadsDone, Pop, NotifyAll, wordVars, levelVars
<1>3. Types'
  BY <1>2 DEF IInv, Types, threadVars, signalVars, PCs
<1>4. /\ pc'[t] = "running" /\ scopes'[t] = <<>>
      /\ \A u \in Thread \ {t} : pc'[u] = pc[u] /\ scopes'[u] = scopes[u]
  BY <1>2 DEF IInv, Types
<1>5. Parking(t)' /\ Scoping(t)'
  <2>1. at[t] = {} /\ ~blocked[t]
    BY <1>1, Zenon DEF IInv, Parking, AwakePCs, BlockedPCs
  <2>2. Parking(t)'
    BY <1>2, <1>4, <2>1, ZenonT(30) DEF Parking, AwakePCs, BlockedPCs
  <2>3. Scoping(t)'
    <3>1. 1..Len(scopes'[t]) = {}
      BY ONLY <1>4
    <3>2. QED
      BY <1>4, <3>1, Zenon DEF Scoping, StartPCs, BlockedPCs
  <2>4. QED
    BY <2>2, <2>3, Zenon
<1>6. /\ \A u \in Thread : Parking(u)' /\ Scoping(u)'
      /\ \A u \in Thread \ {t} :
           current_safepoint_level(u)' = current_safepoint_level(u)
  BY <1>2, <1>4, <1>5, OthersFrame, Zenon DEF threadVars
<1>7. \A u \in Thread : Operating(u)' <=> Operating(u)
  BY <1>1, <1>4, ZenonT(30) DEF Operating
<1>8. \A s \in Thread, i \in Level : /\ Holds(s, i)' <=> Holds(s, i)
                                     /\ Holds(s, i) => s # t
  BY <1>1, <1>4, <1>7 DEF Holds, Operating
<1>9. Owning' /\ Counting'
  <2>1. \A s \in Thread, i \in Level :
          Holds(s, i)' => Holds(s, i) /\ OpenScopes(s, i)' = OpenScopes(s, i)
    BY <1>4, <1>8, ZenonT(20) DEF OpenScopes
  <2>2. Owning'
    BY <1>2, <1>8, ZenonT(20) DEF IInv, Owning
  <2>3. Counting'
    BY <1>2, <2>1, ZenonT(20) DEF IInv, Counting
  <2>4. QED
    BY <2>2, <2>3, Zenon
<1>10. Active' = Active
  BY <1>1, <1>4 DEF Active
<1>11. Locking'
  BY <1>1, <1>2, <1>4, <1>10 DEF IInv, Locking, LockPCs, ThreadsLockFree
<1>12. \A u \in Thread : Participates(u)' <=> Participates(u)
  BY <1>2, <1>10 DEF Participates, threadVars
<1>13. \A s, u \in Thread, i \in Level : Requests(s, i, u)' <=> Requests(s, i, u)
  BY <1>1, <1>2, <1>4, <1>7 DEF Requests, Operating
<1>14. Requesting'
  BY <1>2, <1>12, <1>13, ZenonT(30) DEF IInv, Requesting
<1>15. Stopping'
  BY <1>1, <1>2, <1>4, <1>7, <1>12, ZenonT(30) DEF IInv, Stopping
<1>16. NotParkedIsExact'
  BY ZenonT(20), <1>2, NotParkedFrame DEF IInv
<1>17. Waiting'
  <2>1. \A u \in waiting : u \in Thread \ {t}
    BY <1>1, Zenon DEF IInv, Types, Waiting, BlockedPCs
  <2>2. QED
    BY <1>2, <1>4, <1>6, <2>1, ZenonT(20) DEF IInv, Waiting, IsSafepointRequested
<1>18. QED
  BY <1>3, <1>6, <1>9, <1>11, <1>14, <1>15, <1>16, <1>17 DEF IInv

-----------------------------------------------------------------------------
(* The theorems. *)

\* The initial state of the isolate group satisfies the invariant.
LEMMA InitInv == Init => IInv
<1> SUFFICES ASSUME Init PROVE IInv
  OBVIOUS
<1>1. Types
  BY DEF Init, Types, PCs
<1>2. \A t \in Thread : Parking(t) /\ Scoping(t)
  <2>1. \A t \in Thread : pc[t] = "free" /\ scopes[t] = <<>> /\ at[t] = {} /\ ~blocked[t]
    BY DEF Init
  <2>2. \A t \in Thread : Parking(t)
    BY <2>1, Zenon DEF Parking, AwakePCs, BlockedPCs
  <2>3. Len(<<>>) = 0
    OBVIOUS
  <2>4. \A t \in Thread : Scoping(t)
    BY <2>1, <2>3 DEF Scoping, StartPCs, BlockedPCs
  <2>5. QED
    BY <2>2, <2>4
<1>3. \A t \in Thread, l \in Level : ~Holds(t, l) /\ owner[l] = NoThread /\ count[l] = 0
  BY DEF Init, Holds, Operating
<1>4. Owning /\ Counting
  BY <1>3, ConstantsAssumption DEF Owning, Counting, Init
<1>5. Locking
  BY DEF Init, Locking, LockPCs, ThreadsLockFree, Active
<1>6. Requesting /\ Stopping
  BY DEF Init, Requesting, Requests, Stopping, Participates, Active, Operating
<1>7. NotParkedIsExact
  <2>1. \A l \in Level : Missing(l) = {}
    BY DEF Init, Missing
  <2>2. Cardinality({}) = 0
    BY FS_EmptySet, Zenon
  <2>3. QED
    BY <2>1, <2>2, ZenonT(30) DEF Init, NotParkedIsExact
<1>8. Waiting
  BY DEF Init, Waiting
<1>9. QED
  BY <1>1, <1>2, <1>4, <1>5, <1>6, <1>7, <1>8 DEF IInv

\* Every step of every thread, and a stuttering step, preserves it.
LEMMA NextInv == IInv /\ [Next]_vars => IInv'
<1> SUFFICES ASSUME IInv, [Next]_vars PROVE IInv'
  OBVIOUS
<1>1. CASE UNCHANGED vars
  <2> USE <1>1 DEF vars, threadVars, wordVars, signalVars, levelVars
  <2>1. Types'
    BY DEF IInv, Types
  <2>2. \A t \in Thread : /\ current_safepoint_level(t)' = current_safepoint_level(t)
                          /\ ParkLevel(t)' = ParkLevel(t)
    BY ZenonT(20) DEF ParkLevel, Top, ReloadScopeLevel, current_safepoint_level,
       SafepointLevelIf, AllowReload
  <2>3. \A t \in Thread : Parking(t)' /\ Scoping(t)'
    BY <2>2, ZenonT(20) DEF IInv, Parking, Scoping
  <2>4. \A t \in Thread : Operating(t)' <=> Operating(t)
    BY Zenon DEF Operating
  <2>5. /\ Owning' /\ Counting' /\ Locking' /\ Requesting'
        /\ \A t \in Thread : Participates(t)' <=> Participates(t)
    BY <2>4, ProtocolFrame
  <2>6. Stopping'
    BY ZenonT(20), <2>4, <2>5, StoppingFrame
  <2>7. NotParkedIsExact'
    BY NotParkedFrame, Zenon DEF IInv
  <2>8. Waiting'
    <3>1. \A t \in Thread : IsSafepointRequested(t, current_safepoint_level(t))'
                            <=> IsSafepointRequested(t, current_safepoint_level(t))
      BY <2>2, ZenonT(20) DEF IsSafepointRequested
    <3>2. waiting \subseteq Thread
      BY DEF IInv, Types
    <3>3. QED
      BY ZenonT(20), <3>1, <3>2 DEF IInv, Waiting
  <2>9. QED
    BY ZenonT(20), <2>1, <2>3, <2>5, <2>6, <2>7, <2>8 DEF IInv
<1>2. ASSUME NEW t \in Thread,
             \/ \E k \in Kinds : AddActiveThread(t, k)
             \/ RetryAddActiveThread(t)
             \/ FreeActiveThread(t)
             \/ TransitionToNative(t) \/ TransitionFromNative(t)
             \/ ExitIsolate(t) \/ EnterIsolate(t)
             \/ CheckForSafepoint(t) \/ HandleVMInterrupt(t) \/ HandleCheckForReload(t)
             \/ RetryExitSafepoint(t) \/ SpuriousWakeup(t)
             \/ EnterRuntimeCallDeoptScope(t) \/ LeaveRuntimeCallDeoptScope(t)
             \/ EnterNoReloadScope(t) \/ LeaveNoReloadScope(t)
             \/ \E l \in Level : SafepointThreads(t, l) \/ SafepointThreadsNested(t, l)
             \/ RetrySafepointThreads(t)
             \/ \E u \in Thread : NotifyThread(t, u) \/ SendCheckForReload(t, u)
                                  \/ ContinueThread(t, u)
             \/ NotifyThreadsDone(t) \/ WaitUntilThreadsReachedSafepointLevel(t)
             \/ AcquireLowerLevelSafepoints(t) \/ StartOperation(t)
             \/ ResumeThreads(t) \/ ResumeThreadsDone(t)
      PROVE  IInv'
  <2>1. CASE (\E k \in Kinds : AddActiveThread(t, k)) \/ RetryAddActiveThread(t)
             \/ FreeActiveThread(t)
    BY <2>1, AddActiveThreadInv, FreeActiveThreadInv
  <2>2. CASE TransitionToNative(t) \/ TransitionFromNative(t)
             \/ ExitIsolate(t) \/ EnterIsolate(t) \/ RetryExitSafepoint(t)
    BY <2>2, TransitionToNativeInv, TransitionFromNativeInv, ExitIsolateInv,
       EnterIsolateInv, RetryExitSafepointInv
  <2>3. CASE CheckForSafepoint(t) \/ HandleVMInterrupt(t) \/ HandleCheckForReload(t)
    BY <2>3, CheckForSafepointInv
  <2>4. CASE SpuriousWakeup(t)
             \/ EnterRuntimeCallDeoptScope(t) \/ LeaveRuntimeCallDeoptScope(t)
             \/ EnterNoReloadScope(t) \/ LeaveNoReloadScope(t)
             \/ \E u \in Thread : SendCheckForReload(t, u)
    BY <2>4, ScopeStepInv
  <2>5. CASE \/ \E l \in Level : SafepointThreads(t, l) \/ SafepointThreadsNested(t, l)
             \/ RetrySafepointThreads(t)
    BY <2>5, SafepointThreadsInv, SafepointThreadsNestedInv
  <2>6. CASE \E u \in Thread : NotifyThread(t, u) \/ ContinueThread(t, u)
    BY <2>6, NotifyThreadInv, ContinueThreadInv
  <2>7. CASE NotifyThreadsDone(t) \/ WaitUntilThreadsReachedSafepointLevel(t)
             \/ AcquireLowerLevelSafepoints(t) \/ StartOperation(t)
    BY <2>7, NotifyThreadsDoneInv, WaitUntilThreadsReachedSafepointLevelInv,
       AcquireLowerLevelSafepointsInv, StartOperationInv
  <2>8. CASE ResumeThreads(t) \/ ResumeThreadsDone(t)
    BY <2>8, ResumeThreadsInv, ResumeThreadsDoneInv
  <2>9. QED
    BY <1>2, <2>1, <2>2, <2>3, <2>4, <2>5, <2>6, <2>7, <2>8
<1>3. QED
  BY <1>1, <1>2 DEF Next

-----------------------------------------------------------------------------
(* What a step does to a thread that has been asked to stop. *)

\* Level l stays requested of u, and u stays at it.
Keeps(u, l) == l \in req'[u] /\ (l \in at[u] => l \in at'[u])

\* A step that leaves the safepoint state words alone withdraws nothing.
LEMMA UnchangedKeeps ==
  ASSUME NEW u \in Thread, NEW l \in Level, l \in req[u], UNCHANGED wordVars
  PROVE  Keeps(u, l)
BY Zenon DEF Keeps, wordVars

\* EnterSafepoint sets At bits and clears none.
LEMMA EnterKeeps ==
  ASSUME Types, NEW u \in Thread, NEW l \in Level, l \in req[u], UNCHANGED req,
         NEW t \in Thread, NEW k,
         EnterSafepoint(t, k) \/ EnterSafepointLocked(t, k)
  PROVE  Keeps(u, l)
<1>1. at \in [Thread -> SUBSET Level]
  BY Zenon DEF Types
<1>2. CASE EnterSafepointLocked(t, k)
  <2>1. at' = [at EXCEPT ![t] = @ \cup 0..k]
    BY <1>2, Zenon DEF EnterSafepointLocked
  <2>2. at[u] \subseteq at'[u]
    BY ONLY <1>1, <2>1, u \in Thread, t \in Thread
  <2>3. QED
    BY <2>2, Zenon DEF Keeps
<1>3. CASE WordIs(t, {}) /\ at' = [at EXCEPT ![t] = 0..k]
  <2>1. u # t
    BY <1>3, Zenon DEF WordIs
  <2>2. at'[u] = at[u]
    BY ONLY <1>1, <1>3, <2>1, u \in Thread, t \in Thread
  <2>3. QED
    BY <2>2, Zenon DEF Keeps
<1>4. QED
  BY <1>2, <1>3, Zenon DEF EnterSafepoint

\* ExitSafepoint clears At bits of levels that are not requested only.
LEMMA ExitKeeps ==
  ASSUME Types, NEW u \in Thread, NEW l \in Level, l \in req[u], UNCHANGED req,
         NEW t \in Thread, NEW k, NEW w,
         ExitSafepoint(t, k, w) \/ ExitSafepointLocked(t, k, w)
  PROVE  Keeps(u, l)
<1>1. at \in [Thread -> SUBSET Level]
  BY Zenon DEF Types
<1>2. CASE ~IsSafepointRequested(t, k) /\ at' = [at EXCEPT ![t] = @ \ 0..k]
  <2>1. u = t => l \notin 0..k
    BY <1>2, Zenon DEF IsSafepointRequested
  <2>2. l \in at[u] => l \in at'[u]
    BY ONLY <1>1, <1>2, <2>1, u \in Thread, t \in Thread
  <2>3. QED
    BY <2>2, Zenon DEF Keeps
<1>3. CASE WordIs(t, 0..k) /\ at' = [at EXCEPT ![t] = {}]
  <2>1. u # t
    BY <1>3, Zenon DEF WordIs
  <2>2. at'[u] = at[u]
    BY ONLY <1>1, <1>3, <2>1, u \in Thread, t \in Thread
  <2>3. QED
    BY <2>2, Zenon DEF Keeps
<1>4. CASE UNCHANGED at
  BY <1>4, Zenon DEF Keeps
<1>5. QED
  BY <1>2, <1>3, <1>4, ZenonT(20) DEF ExitSafepoint, ExitSafepointLocked

\* NotifyThreadsToContinue of an operation clears the request bits up to its
\* level, which nobody owns any more.
LEMMA ContinueKeeps ==
  ASSUME IInv, NEW u \in Thread, NEW l \in Level, l \in req[u], owner[l] # NoThread,
         NEW t \in Thread, NEW v \in Thread, ContinueThread(t, v)
  PROVE  Keeps(u, l)
<1> DEFINE k == Top(t)
<1>1. pc[t] = "resume" /\ k \in Level /\ k = scopes[t][1]
  BY OneScope, ZenonT(20) DEF ContinueThread
<1> HIDE DEF k
<1>2. /\ UNCHANGED at
      /\ req' = req \/ req' = [req EXCEPT ![v] = @ \ 0..k]
      /\ req \in [Thread -> SUBSET Level]
  BY ZenonT(20) DEF ContinueThread, IInv, Types, k
<1>3. ~(l <= k)
  BY <1>1, ZenonT(20) DEF IInv, Locking
<1>4. l \in req'[u]
  BY ONLY <1>1, <1>2, <1>3, l \in Level, l \in req[u], u \in Thread, v \in Thread DEF Level,
     kGC, kGCAndDeoptAndReload
<1>5. QED
  BY <1>2, <1>4, Zenon DEF Keeps

\* A thread that leaves the group gives its Thread back; no other thread's
\* word is touched.  A walk of SafepointThreads adds a request.
LEMMA FreeAndNotifyKeep ==
  ASSUME Types, NEW u \in Thread, NEW l \in Level, l \in req[u], pc'[u] # "free",
         NEW t \in Thread, FreeActiveThread(t) \/ \E v \in Thread : NotifyThread(t, v)
  PROVE  Keeps(u, l)
<1>1. /\ at \in [Thread -> SUBSET Level] /\ req \in [Thread -> SUBSET Level]
      /\ DOMAIN pc = Thread
  BY DEF Types
<1>2. CASE FreeActiveThread(t)
  <2>1. /\ at' = [at EXCEPT ![t] = {}] /\ req' = [req EXCEPT ![t] = {}]
        /\ pc' = [pc EXCEPT ![t] = "free"]
    BY <1>2, Zenon DEF FreeActiveThread
  <2>2. u # t
    BY <1>1, <2>1, Zenon
  <2>3. at'[u] = at[u] /\ req'[u] = req[u]
    BY ONLY <1>1, <2>1, <2>2, u \in Thread, t \in Thread
  <2>4. QED
    BY <2>3, Zenon DEF Keeps
<1>3. ASSUME NEW v \in Thread, NotifyThread(t, v) PROVE Keeps(u, l)
  <2>1. /\ UNCHANGED at
        /\ req' = req \/ req' = [req EXCEPT ![v] = @ \cup {Top(t)}]
    BY <1>3, Zenon DEF NotifyThread
  <2>2. req[u] \subseteq req'[u]
    BY ONLY <1>1, <2>1, u \in Thread, v \in Thread
  <2>3. QED
    BY <2>1, <2>2, Zenon DEF Keeps
<1>4. QED
  BY <1>2, <1>3, Zenon

\* No step of any thread withdraws a request of an operation whose owner
\* keeps the level, or lets a thread out of the safepoint.
LEMMA NextKeepsStops == IInv /\ [Next]_vars => [KeepsStops]_vars
<1> SUFFICES ASSUME IInv, Next,
                    NEW u \in Thread, NEW l \in Level, l \in req[u],
                    owner[l] # NoThread, pc'[u] # "free"
             PROVE  Keeps(u, l)
  BY ZenonT(20) DEF KeepsStops, Keeps
<1>0. Types
  BY Zenon DEF IInv
<1>1. ASSUME NEW t \in Thread,
             \/ TransitionToNative(t) \/ ExitIsolate(t)
             \/ \E k \in Level : SafepointThreads(t, k)
      PROVE  Keeps(u, l)
  <2>1. UNCHANGED req /\ \E k : EnterSafepoint(t, k) \/ EnterSafepointLocked(t, k)
    BY <1>1, ZenonT(20) DEF TransitionToNative, ExitIsolate, SafepointThreads,
       EnterSafepointToStart
  <2>2. QED
    BY <1>0, <2>1, EnterKeeps, Zenon
<1>2. ASSUME NEW t \in Thread,
             CheckForSafepoint(t) \/ HandleVMInterrupt(t) \/ HandleCheckForReload(t)
      PROVE  Keeps(u, l)
  <2>1. UNCHANGED req /\ (UNCHANGED at \/ \E k : EnterSafepointLocked(t, k))
    BY <1>2, ZenonT(20) DEF CheckForSafepoint, HandleVMInterrupt, HandleCheckForReload,
       BlockForSafepoint
  <2>2. CASE UNCHANGED at
    BY <2>1, <2>2, Zenon DEF Keeps
  <2>3. QED
    BY <1>0, <2>1, <2>2, EnterKeeps, Zenon
<1>3. ASSUME NEW t \in Thread,
             \/ TransitionFromNative(t) \/ EnterIsolate(t)
             \/ RetryExitSafepoint(t) \/ StartOperation(t)
      PROVE  Keeps(u, l)
  <2>1. /\ UNCHANGED req
        /\ \E k, w : ExitSafepoint(t, k, w) \/ ExitSafepointLocked(t, k, w)
    BY <1>3, ZenonT(20) DEF TransitionFromNative, EnterIsolate, RetryExitSafepoint,
       StartOperation
  <2>2. QED
    BY <1>0, <2>1, ExitKeeps, Zenon
<1>4. ASSUME NEW t \in Thread,
             \/ \E k \in Kinds : AddActiveThread(t, k)
             \/ RetryAddActiveThread(t) \/ SpuriousWakeup(t)
             \/ EnterRuntimeCallDeoptScope(t) \/ LeaveRuntimeCallDeoptScope(t)
             \/ EnterNoReloadScope(t) \/ LeaveNoReloadScope(t)
             \/ \E v \in Thread : SendCheckForReload(t, v)
      PROVE  Keeps(u, l)
  <2>1. UNCHANGED wordVars
    BY <1>4, ZenonT(20) DEF AddActiveThread, RetryAddActiveThread, SpuriousWakeup,
       EnterRuntimeCallDeoptScope, LeaveRuntimeCallDeoptScope, EnterNoReloadScope,
       LeaveNoReloadScope, SendCheckForReload
  <2>2. QED
    BY <2>1, UnchangedKeeps, Zenon
<1>5. ASSUME NEW t \in Thread,
             \/ \E k \in Level : SafepointThreadsNested(t, k)
             \/ RetrySafepointThreads(t) \/ NotifyThreadsDone(t)
             \/ WaitUntilThreadsReachedSafepointLevel(t) \/ AcquireLowerLevelSafepoints(t)
             \/ ResumeThreads(t) \/ ResumeThreadsDone(t)
      PROVE  Keeps(u, l)
  <2>1. UNCHANGED wordVars
    BY <1>5, ZenonT(20) DEF SafepointThreadsNested, RetrySafepointThreads,
       NotifyThreadsDone, WaitUntilThreadsReachedSafepointLevel,
       AcquireLowerLevelSafepoints, ResumeThreads, ResumeThreadsDone
  <2>2. QED
    BY <2>1, UnchangedKeeps, Zenon
<1>6. QED
  BY <1>0, <1>1, <1>2, <1>3, <1>4, <1>5, ContinueKeeps, FreeAndNotifyKeep, ZenonT(30) DEF Next

\* IInv is an invariant of the safepoint protocol.
THEOREM Invariance == Spec => []IInv
BY InitInv, NextInv, PTL DEF Spec

\* What IInv says of a thread that runs an operation.
LEMMA InOperationOperates ==
  ASSUME IInv, NEW t \in Thread, InOperation(t) PROVE Operating(t)
BY Zenon DEF IInv, Scoping, InOperation, Operating, BlockedPCs

\* Every variable keeps its type; in particular operation_count_ and
\* num_threads_not_parked_, which are plain integers in the code, never become
\* negative.
THEOREM TypeCorrect == Spec => []TypeOK
<1>1. IInv => TypeOK
  <2> SUFFICES ASSUME IInv PROVE TypeOK
    OBVIOUS
  <2>1. notParked \in [Level -> Nat]
    BY MissingIsFinite DEF IInv, Types, NotParkedIsExact
  <2>2. ASSUME NEW l \in Level PROVE count[l] \in Nat
    <3>1. CASE owner[l] = NoThread
      BY <3>1 DEF IInv, Counting
    <3>2. CASE owner[l] \in Thread
      <4>1. count[l] = Cardinality(OpenScopes(owner[l], l))
        BY <3>2, ZenonT(20) DEF IInv, Counting, Owning
      <4>2. QED
        BY <3>2, <4>1, OpenScopesFinite, ZenonT(20) DEF IInv
    <3>3. QED
      BY ZenonT(20), <3>1, <3>2 DEF IInv, Types
  <2>3. count \in [Level -> Nat]
    BY <2>2 DEF IInv, Types
  <2>4. QED
    BY <2>1, <2>3 DEF IInv, Types, TypeOK
<1>2. QED
  BY <1>1, Invariance, PTL

\* While a SafepointOperationScope is open, no other thread that takes part in
\* safepoints executes: the reason GC, deoptimization and reload are safe.
THEOREM StopsTheWorld == Spec => []MutatorsStopped
<1>1. IInv => MutatorsStopped
  <2> SUFFICES ASSUME IInv, NEW t \in Thread, InOperation(t),
                      NEW u \in Active \ {t}, kind[u] # "bypass"
               PROVE  ~Executing(u) /\ 0..scopes[t][1] \subseteq at[u]
    BY DEF MutatorsStopped
  <2>1. Operating(t) /\ u \in Thread /\ u # t /\ scopes[t] # <<>> /\ Participates(u)
    BY InOperationOperates DEF Active, Participates, InOperation
  <2>2. scopes[t][1] \in at[u] /\ scopes[t][1] \in Level
    BY ZenonT(20), <2>1 DEF IInv, Stopping, Types
  <2>3. pc[u] \notin AwakePCs /\ at[u] = 0..ParkLevel(u)
    BY ZenonT(20), <2>1, <2>2 DEF IInv, Parking
  <2>4. ParkLevel(u) \in Level
    BY ZenonT(20), <2>1, LevelIsLevel, OneScope DEF IInv, ParkLevel, StartPCs
  <2>5. 0..scopes[t][1] \subseteq at[u]
    BY <2>2, <2>3, <2>4 DEF Level, kGC, kGCAndDeoptAndReload
  <2>6. QED
    BY <2>3, <2>5 DEF Executing, AwakePCs
<1>2. QED
  BY <1>1, Invariance, PTL

\* num_threads_not_parked_ counts the threads that are still to park, exactly.
THEOREM NotParkedExact == Spec => []NotParkedIsExact
<1>1. IInv => NotParkedIsExact
  BY ZenonT(20) DEF IInv
<1>2. QED
  BY <1>1, Invariance, PTL

\* What the wait in SafepointThreads relies on: a thread that was asked to stop
\* stays asked, and stays once it has stopped, until the owner of the level
\* gives it up, even if other operations end meanwhile.
THEOREM StopsAreKept == Spec => StopIsKept
BY Invariance, NextKeepsStops, PTL DEF Spec, StopIsKept

\* The assertion of NotifyWeAreParked: the requesting operation owns its level
\* until the last thread has parked for it.
THEOREM RequestsAreOwned == Spec => []RequestHasOwner
<1>1. IInv => RequestHasOwner
  <2> SUFFICES ASSUME IInv, NEW u \in Thread, NEW l \in Level, l \in req[u], l \notin at[u]
               PROVE  owner[l] \notin {NoThread, u}
    BY DEF RequestHasOwner
  <2>1. PICK s \in Thread : Requests(s, l, u)
    BY ZenonT(20) DEF IInv, Requesting
  <2>2. pc[s] # "resume"
    BY ZenonT(20), <2>1 DEF IInv, Stopping, Requests, Requesting, Operating
  <2>3. owner[l] = s /\ s # u
    BY ZenonT(20), <2>1, <2>2, RequesterOwns DEF Requests
  <2>4. QED
    BY <2>3, ConstantsAssumption
<1>2. QED
  BY <1>1, Invariance, PTL

\* The assertion of AcquireLowerLevelSafepoints: nobody owns a lower level when
\* all threads have parked for a higher one.
THEOREM LowerLevelsAreFree == Spec => []LowerLevelsFree
<1>1. IInv => LowerLevelsFree
  BY OneScope, LowerLevelsUnowned DEF LowerLevelsFree, SafepointInProgress, StartPCs
<1>2. QED
  BY <1>1, Invariance, PTL

\* The thread that owns a level is never requested to reach it, so the end of
\* SafepointThreads, and the way back into a reload, never block.
THEOREM OwnersAreNotRequested == Spec => []OwnerIsNotRequested
<1>1. IInv => OwnerIsNotRequested
  BY ZenonT(20), InOperationOperates, OwnerNotRequested DEF OwnerIsNotRequested
<1>2. QED
  BY <1>1, Invariance, PTL

\* operation_count_ is at each level the number of open scopes that hold it, so
\* that nested operations resume the group exactly once, at the end.
THEOREM CountsAreScopes == Spec => []CountsMatchScopes
<1>1. IInv => CountsMatchScopes
  <2> HAVE IInv
  <2> SUFFICES ASSUME NEW t \in Thread, InOperation(t), NEW l \in Level
               PROVE  IF OpenScopes(t, l) = {} THEN owner[l] # t
                      ELSE owner[l] = t /\ count[l] = Cardinality(OpenScopes(t, l))
    <3>1. ASSUME NEW t \in Thread, NEW l \in Level
          PROVE  {i \in DOMAIN scopes[t] : scopes[t][i] >= l} = OpenScopes(t, l)
      <4>1. scopes[t] \in Seq(Level)
        BY <3>1 DEF IInv, Types
      <4>2. DOMAIN scopes[t] = 1..Len(scopes[t])
        BY <4>1
      <4>3. QED
        BY <4>2 DEF OpenScopes
    <3>2. QED
      BY <3>1 DEF CountsMatchScopes
  <2>1. Operating(t) /\ scopes[t] \in Seq(Level) /\ scopes[t] # <<>>
    BY ZenonT(20), InOperationOperates DEF InOperation, IInv, Types
  <2>2. Holds(t, l) <=> l <= scopes[t][1]
    BY <2>1, ZenonT(20) DEF Holds, Operating
  <2>3. scopes[t][1] \in Level /\ Len(scopes[t]) \in Nat \ {0}
    BY ONLY <2>1
  <2>4. OpenScopes(t, l) # {} <=> l <= scopes[t][1]
    <3>1. \A i \in 1..Len(scopes[t]) : scopes[t][i] <= scopes[t][1]
      BY ZenonT(20) DEF IInv, Scoping
    <3>2. \A i \in 1..Len(scopes[t]) : scopes[t][i] \in Level
      BY ONLY <2>1
    <3>3. QED
      BY <2>3, <3>1, <3>2 DEF OpenScopes, Level, kGC, kGCAndDeoptAndReload
  <2>5. QED
    BY <2>2, <2>4 DEF IInv, Owning, Counting
<1>2. QED
  BY <1>1, Invariance, PTL

\* No thread waits for a notification that nobody is left to send.
THEOREM NoWakeupIsLost == Spec => []NoLostWakeup
<1>1. IInv => NoLostWakeup
  <2> SUFFICES ASSUME IInv, NEW t \in waiting
               PROVE
        \/ pc[t] \in {"blocked", "blockedReload"} /\ IsSafepointRequested(t, ExitLevel(t))
        \/ pc[t] = "addWait" /\ (AnySafepointInProgressLocked \/ ~ThreadsLockFree)
        \/ pc[t] = "spWait" /\ (SafepointInProgress(Top(t)) \/ ~ThreadsLockFree)
    BY DEF NoLostWakeup
  <2>1. t \in Thread
    BY ZenonT(20) DEF IInv, Types
  <2>2. CASE pc[t] \in BlockedPCs
    <3>1. ExitLevel(t) = current_safepoint_level(t)
      BY ZenonT(20), <2>1, <2>2 DEF IInv, Scoping, ExitLevel
    <3>2. QED
      BY <2>2, <3>1 DEF IInv, Waiting, BlockedPCs
  <2>3. CASE pc[t] = "addWait"
    BY ZenonT(20), <2>3, InProgressOwned DEF IInv, Waiting, BlockedPCs, AnySafepointInProgressLocked,
       ThreadsLockFree
  <2>4. CASE pc[t] = "spWait"
    BY <2>1, <2>4, OneScope, InProgressOwned, ZenonT(20)
       DEF IInv, Waiting, BlockedPCs, StartPCs, ThreadsLockFree
  <2>5. QED
    BY <2>2, <2>3, <2>4, ZenonT(20) DEF IInv, Waiting
<1>2. QED
  BY <1>1, Invariance, PTL

\* A set of natural numbers has a least element: what stands for induction on
\* the position in a sequence below.
LEMMA Least ==
  ASSUME NEW S, S \subseteq Nat, S # {}
  PROVE  \E n \in S : \A m \in S : n <= m
<1> DEFINE R == OpToRel(<, Nat)
<1>1. IsWellFoundedOn(R, Nat)
  BY NatLessThanWellFounded, ZenonT(20)
<1>2. \A x, y \in Nat : <<y, x>> \in R <=> y < x
  BY DEF OpToRel
<1> HIDE DEF R
<1>3. PICK n \in S : \A m \in S : ~(<<m, n>> \in R)
  BY <1>1, WFMin, Zenon
<1>4. \A m \in S : ~(m < n)
  BY <1>2, <1>3, Zenon
<1>5. \A m \in S : n <= m
  BY <1>4
<1>6. QED
  BY <1>5

\* If no scope is above the one around it, none is below the innermost.
LEMMA LastIsLowest ==
  ASSUME NEW s \in Seq(Level), s # <<>>, \A i \in 2..Len(s) : s[i] <= s[i-1]
  PROVE  \A i \in 1..Len(s) : s[i] >= s[Len(s)]
<1> DEFINE n == Len(s)
           D == {k \in 0..n-1 : ~(s[n-k] >= s[n])}
<1>1. n \in Nat /\ n >= 1 /\ \A i \in 1..n : s[i] \in Level
  OBVIOUS
<1>2. Level \subseteq Int
  BY DEF Level, kGC, kGCAndDeoptAndReload
<1> HIDE DEF n
<1>3. ASSUME D # {} PROVE FALSE
  <2>1. PICK k \in D : \A m \in D : k <= m
    <3>1. D \subseteq Nat
      BY <1>1
    <3>2. QED
      BY <1>3, <3>1, Least, Zenon
  <2>2. k \in 0..n-1 /\ ~(s[n-k] >= s[n])
    BY <2>1
  <2>3. k # 0
    <3>1. k = 0 => n - k = n
      BY <1>1
    <3>2. s[n] >= s[n]
      <4>1. \A x \in Int : x >= x
        OBVIOUS
      <4>2. n \in 1..n
        BY <1>1
      <4>3. s[n] \in Int
        BY <1>1, <1>2, <4>2, Zenon
      <4>4. QED
        BY <4>1, <4>3, Zenon
    <3>3. QED
      BY <2>2, <3>1, <3>2
  <2>4. k - 1 \in 0..n-1 /\ ~(k <= k - 1) /\ n - (k - 1) = (n - k) + 1
    BY <1>1, <2>2, <2>3
  <2>5. s[n - (k - 1)] >= s[n]
    BY <2>1, <2>4
  <2>6. /\ (n - k) + 1 \in 2..n /\ ((n - k) + 1) - 1 = n - k
        /\ n - k \in 1..n /\ (n - k) + 1 \in 1..n /\ n \in 1..n
    BY <1>1, <2>2, <2>3
  <2>7. s[(n - k) + 1] <= s[n - k]
    BY <2>6 DEF n
  <2>8. s[n] \in Int /\ s[n - k] \in Int /\ s[(n - k) + 1] \in Int
    BY <1>1, <1>2, <2>6, Zenon
  <2>9. QED
    BY <2>2, <2>4, <2>5, <2>7, <2>8
<1>4. ASSUME NEW i \in 1..n PROVE s[i] >= s[n]
  <2>1. n - i \in 0..n-1 /\ n - (n - i) = i
    BY <1>1
  <2>2. QED
    BY <1>3, <2>1
<1>5. QED
  BY <1>4 DEF n

\* Operations nested as the class comment of SafepointOperationScope shows:
\* InnermostSafepointOperation finds the innermost, by operation_count_ alone.
THEOREM InnermostIsFound == Spec => []InnermostWhenNestedDownward
<1>1. IInv => InnermostWhenNestedDownward
  <2> SUFFICES ASSUME IInv, NEW t \in Thread, InOperation(t),
                      \A i \in 2..Len(scopes[t]) : scopes[t][i] <= scopes[t][i-1]
               PROVE  InnermostSafepointOperation(t) = Top(t)
    BY DEF InnermostWhenNestedDownward
  <2> DEFINE s == scopes[t]
             n == Len(s)
             top == s[n]
             owned == {l \in Level : \A i \in 0..l : owner[i] = t}
             level == {l \in owned : \A i \in 1..l : count[i] >= count[i - 1]}
  <2>1. Operating(t) /\ s \in Seq(Level) /\ s # <<>>
    BY ZenonT(20), InOperationOperates DEF InOperation, IInv, Types
  <2>2. /\ n \in Nat /\ n >= 1 /\ top \in Level /\ s[1] \in Level
        /\ \A i \in 1..n : s[i] \in Level /\ s[i] <= s[1]
    <3>1. n \in Nat /\ n >= 1 /\ top \in Level /\ s[1] \in Level /\ \A i \in 1..n : s[i] \in Level
      BY <2>1
    <3>2. \A i \in 1..n : s[i] <= s[1]
      BY DEF IInv, Scoping
    <3>3. QED
      BY <3>1, <3>2
  <2>3. \A i \in 1..n : s[i] >= top
    BY <2>1, LastIsLowest
  <2>4. \A l \in Level : owner[l] = t <=> l <= s[1]
    BY <2>1, ZenonT(20) DEF IInv, Owning, Holds, Operating
  <2>5. \A l \in Level : l <= s[1] => count[l] = Cardinality(OpenScopes(t, l))
    BY <2>1, ZenonT(20) DEF IInv, Counting, Holds, Operating
  <2> HIDE DEF s, n, top
  <2>6. top <= s[1] /\ Level = 0..2
    BY <2>2 DEF top, Level, kGC, kGCAndDeoptAndReload
  <2>7. ASSUME NEW l \in Level, l <= top
        PROVE  l <= s[1] /\ count[l] = n
    <3>1. OpenScopes(t, l) = 1..n
      BY <2>2, <2>3, <2>6, <2>7 DEF OpenScopes, s, n
    <3>2. Cardinality(1..n) = n
      BY <2>2, FS_Interval
    <3>3. l <= s[1]
      BY <2>2, <2>6, <2>7
    <3>4. QED
      BY <2>5, <3>1, <3>2, <3>3
  <2>8. ASSUME NEW l \in Level, l = top + 1, l <= s[1]
        PROVE  ~(count[l] >= count[l - 1])
    <3>1. n \in 1..n /\ n \notin OpenScopes(t, l) /\ OpenScopes(t, l) \subseteq 1..n
      <4>1. n \in 1..n /\ ~(top >= top + 1)
        BY <2>2, <2>6
      <4>2. OpenScopes(t, l) = {i \in 1..n : s[i] >= l}
        BY Zenon DEF OpenScopes, s, n
      <4>3. n \in OpenScopes(t, l) => top >= top + 1
        BY <2>8, <4>2, Zenon DEF top
      <4>4. QED
        BY <4>1, <4>2, <4>3, Zenon
    <3>2. /\ IsFiniteSet(1..n) /\ Cardinality(1..n) = n
          /\ Cardinality(OpenScopes(t, l)) \in Nat
          /\ Cardinality(OpenScopes(t, l)) <= n /\ Cardinality(OpenScopes(t, l)) # n
      <4>1. IsFiniteSet(1..n) /\ Cardinality(1..n) = n
        BY <2>2, FS_Interval
      <4>2. OpenScopes(t, l) # 1..n
        BY <3>1, Zenon
      <4>3. /\ IsFiniteSet(OpenScopes(t, l))
            /\ Cardinality(OpenScopes(t, l)) <= Cardinality(1..n)
            /\ Cardinality(OpenScopes(t, l)) # Cardinality(1..n)
        BY <3>1, <4>1, <4>2, FS_Subset, Zenon
      <4>4. Cardinality(OpenScopes(t, l)) \in Nat
        BY <4>3, FS_CardinalityType, Zenon
      <4>5. QED
        BY <4>1, <4>3, <4>4, Zenon
    <3>3. count[l - 1] = n
      BY <2>2, <2>6, <2>7, <2>8
    <3>4. QED
      BY <2>2, <2>5, <2>8, <3>2, <3>3
  <2>9. top \in level
    <3>1. \A i \in 0..top : owner[i] = t
      BY <2>2, <2>4, <2>6
    <3>2. \A i \in 1..top : count[i] >= count[i - 1]
      BY <2>2, <2>6, <2>7
    <3>3. QED
      BY <2>2, <3>1, <3>2
  <2>10. ASSUME NEW l \in level PROVE l <= top
    <3>1. SUFFICES ASSUME ~(l <= top) PROVE FALSE
      OBVIOUS
    <3>2. l \in Level /\ top + 1 \in 1..l /\ top + 1 \in Level
      BY <2>2, <2>6, <3>1
    <3>3. owner[l] = t /\ count[top + 1] >= count[(top + 1) - 1]
      BY <2>6, <3>2
    <3>4. top + 1 <= s[1]
      BY <2>2, <2>4, <2>6, <3>2, <3>3
    <3>5. QED
      BY <2>8, <3>2, <3>3, <3>4
  <2>11. \A x \in level : (\A k \in level : k <= x) => x = top
    BY <2>2, <2>6, <2>9, <2>10
  <2>12. InnermostSafepointOperation(t) = CHOOSE l \in level : \A k \in level : k <= l
    BY <2>9, Zenon DEF InnermostSafepointOperation
  <2> HIDE DEF level
  <2>13. (CHOOSE l \in level : \A k \in level : k <= l) = top
    BY <2>9, <2>10, <2>11, Zenon
  <2>14. QED
    BY <2>12, <2>13 DEF Top, top, n, s
<1>2. QED
  BY <1>1, Invariance, PTL

=============================================================================
