--------------------------- MODULE OldSpaceProofs ---------------------------
(***************************************************************************)
(* The tasks of the old space are counted, held at safepoints and never    *)
(* leave a waiting thread behind, for any number of threads, marker tasks  *)
(* and root slices.  The steps that mark roots, end an operation and run   *)
(* the tasks keep the invariant, and the theorems follow from it.          *)
(***************************************************************************)
EXTENDS OldSpaceThreadProofs

(* A leaf that names no prover is tried with the SMT solver, then Zenon.   *)
USE SMTT(30), Z3T(30), ZenonT(20)

\* The thread marks the slices it has taken.
LEMMA MainRootsDoneInv ==
  ASSUME IInv, NEW t \in Thread, MainRootsDone(t)
  PROVE  IInv'
<1>1. /\ Now(t) = "mainRoots" /\ Now(t) \in RootPCs /\ Return(t) /\ UNCHANGED <<mt, slices>>
      /\ UNCHANGED <<owner, irq, spaceVars, sw, waitVars>>
  BY DEF MainRootsDone, RootPCs, taskVars
<1>2. todo[t][2] = "startTasks"
  BY <1>1, Roots, Zenon DEF Fits
<1>3. /\ todo' = [todo EXCEPT ![t] = Tail(todo[t])]
      /\ Stack(todo[t])' /\ todo'[t][1] = "startTasks"
  BY <1>1, <1>2, Roots, PopTop
<1>4. HoldsRoots(todo[t])'
  BY <1>3, ZenonT(20) DEF HoldsRoots, RootPCs
<1>5. /\ mt' \in [MarkerTask -> MarkerPC] /\ slices' \in 0 .. RootSlices
      /\ \A i \in MarkerTask : mt'[i] = mt[i]
  BY <1>1, Roots, Zenon
<1>6. todo'[t][1] \in RootPCs \cup {"account"}
  BY <1>3, Zenon DEF RootPCs
<1> QED BY <1>1, <1>3, <1>4, <1>5, <1>6, RootStep, ZenonT(20)

\* The thread waits for the slices the tasks have taken: then no roots are left.
LEMMA RootsWaitInv ==
  ASSUME IInv, NEW t \in Thread, RootsWait(t)
  PROVE  IInv'
<1>1. /\ Now(t) = "rootsWait" /\ Now(t) \in RootPCs /\ Return(t) /\ UNCHANGED <<mt, slices>>
      /\ UNCHANGED <<owner, irq, spaceVars, sw, waitVars>> /\ RootsFinished
  BY DEF RootsWait, RootPCs, taskVars
<1>2. todo[t][2] = "account"
  BY <1>1, Roots, ZenonT(20) DEF Fits
<1>3. /\ todo' = [todo EXCEPT ![t] = Tail(todo[t])]
      /\ Stack(todo[t])' /\ todo'[t][1] = "account"
  BY <1>1, <1>2, Roots, PopTop
<1>4. HoldsRoots(todo[t])'
  <2>1. \A i \in MarkerTask : mt[i] # "counted" /\ mt[i] # "roots" /\ ~(slices < RootSlices)
    BY <1>1, Roots, OldSpaceConstants DEF RootsFinished
  <2> QED BY <1>1, <2>1 DEF HoldsRoots, Rooting
<1>5. /\ mt' \in [MarkerTask -> MarkerPC] /\ slices' \in 0 .. RootSlices
      /\ \A i \in MarkerTask : mt'[i] = mt[i]
  BY <1>1, Roots, ZenonT(20)
<1>6. todo'[t][1] \in RootPCs \cup {"account"}
  BY <1>3, ZenonT(20) DEF RootPCs
<1> QED BY <1>1, <1>3, <1>4, <1>5, <1>6, RootStep, ZenonT(20)

\* The loop of StartConcurrentMark: the last task is started after the roots.
LEMMA StartTasksInv ==
  ASSUME IInv, NEW t \in Thread, StartTasks(t)
  PROVE  IInv'
<1>1. /\ Now(t) = "startTasks" /\ Now(t) \in RootPCs
      /\ UNCHANGED <<owner, irq, spaceVars, sw, waitVars>>
  BY DEF StartTasks, RootPCs
<1>2. /\ todo[t][2] = "rootsWait" /\ Stack(todo[t]) /\ Now(t) = todo[t][1] /\ Now(t) # "run"
      /\ mt \in [MarkerTask -> MarkerPC] /\ slices \in 0 .. RootSlices
      /\ todo \in [Thread -> Seq(Doing)]
  BY <1>1, Roots DEF Fits, IInv, Types
<1>3. PICK i \in Counted :
        \/ /\ Counted # {i}
           /\ StartMarkerTask(i) /\ UNCHANGED <<todo, slices>>
        \/ /\ Counted = {i} /\ slices < RootSlices
           /\ slices' = slices + 1
           /\ Become(t, <<"mainRoots", "startTasks">>) /\ UNCHANGED mt
        \/ /\ Counted = {i} /\ slices = RootSlices
           /\ StartMarkerTask(i) /\ Return(t) /\ UNCHANGED slices
  BY DEF StartTasks
<1>4. i \in MarkerTask /\ mt[i] = "counted"
  BY <1>3 DEF Counted
<1>5. ASSUME StartMarkerTask(i)
      PROVE  /\ mt' \in [MarkerTask -> MarkerPC]
             /\ \A j \in MarkerTask : mt'[j] = mt[j] \/ (mt[j] = "counted" /\ mt'[j] = "started")
             /\ \A j \in MarkerTask : mt'[j] = "counted" => mt[j] = "counted" /\ j # i
  BY <1>2, <1>4, <1>5 DEF StartMarkerTask, MarkerPC
<1>6. CASE StartMarkerTask(i) /\ UNCHANGED <<todo, slices>>
  <2>1. todo' = [todo EXCEPT ![t] = todo[t]] /\ Stack(todo[t])' /\ todo'[t][1] = "startTasks"
    BY <1>1, <1>2, <1>6 DEF Stack
  <2>2. HoldsRoots(todo[t])' /\ slices' \in 0 .. RootSlices
    BY <1>2, <1>6, <2>1 DEF HoldsRoots, RootPCs
  <2>3. todo'[t][1] \in RootPCs \cup {"account"}
    BY <2>1 DEF RootPCs
  <2> QED BY <1>1, <1>5, <1>6, <2>1, <2>2, <2>3, RootStep, ZenonT(20)
<1>7. CASE /\ slices < RootSlices /\ slices' = slices + 1 /\ UNCHANGED mt
           /\ Become(t, <<"mainRoots", "startTasks">>)
  <2> DEFINE p == <<"mainRoots", "startTasks">>
  <2>1. Chain(p, "rootsWait") /\ p[1] = "mainRoots" /\ Become(t, p)
    BY <1>7 DEF Chain, Fits, Doing, Outside
  <2> HIDE DEF p
  <2>2. /\ todo' = [todo EXCEPT ![t] = p \o Tail(todo[t])]
        /\ Stack(todo[t])' /\ todo'[t][1] = "mainRoots"
    BY <1>2, <2>1, PutTop
  <2>3. HoldsRoots(todo[t])' /\ todo'[t][1] \in RootPCs \cup {"account"}
    BY <2>2, Zenon DEF HoldsRoots, RootPCs
  <2>4. slices' \in 0 .. RootSlices /\ mt' \in [MarkerTask -> MarkerPC]
    BY <1>2, <1>7, OldSpaceConstants
  <2> QED BY <1>1, <1>7, <2>2, <2>3, <2>4, RootStep, ZenonT(20)
<1>8. CASE /\ Counted = {i} /\ StartMarkerTask(i) /\ Return(t) /\ UNCHANGED slices
  <2>1. /\ todo' = [todo EXCEPT ![t] = Tail(todo[t])]
        /\ Stack(todo[t])' /\ todo'[t][1] = "rootsWait"
    BY <1>2, <1>8, PopTop
  <2>2. \A j \in MarkerTask : mt'[j] # "counted"
    BY <1>5, <1>8 DEF Counted
  <2>3. HoldsRoots(todo[t])' /\ todo'[t][1] \in RootPCs \cup {"account"}
    BY <2>1, <2>2, Zenon DEF HoldsRoots, RootPCs
  <2>4. slices' \in 0 .. RootSlices
    BY <1>2, <1>8
  <2> QED BY <1>1, <1>5, <1>8, <2>1, <2>3, <2>4, RootStep, ZenonT(20)
<1> QED BY <1>3, <1>6, <1>7, <1>8

\* A notification moves no task that is not asleep.
LEMMA Notifies ==
  ASSUME NEW at \in [MarkerTask -> MarkerPC], NotifyAll(at)
  PROVE  /\ sleep' = {} /\ shut' = (IF shut = "asleep" THEN "wait" ELSE shut)
         /\ mt' \in [MarkerTask -> MarkerPC]
         /\ \A i \in MarkerTask : mt'[i] # "asleep"
         /\ \A i \in MarkerTask : mt'[i] = at[i] \/ (at[i] = "asleep" /\ mt'[i] = "yield")
BY DEF NotifyAll, Notified, MarkerPC

\* The last step of a collection or of an iteration: the thread no longer counts.
LEMMA DriverEnds ==
  ASSUME IInv, NEW t \in Thread, Now(t) \in {"account", "iterating"}, Return(t),
         tasks' = tasks - 1, NotifyAll(mt),
         UNCHANGED <<owner, irq, phase, markers, active, paused, marker, slices, sw>>
  PROVE  IInv'
<1>1. /\ Now(t) \notin Outside \cup {"stopping"} /\ Now(t) # "run" /\ Now(t) \in DriverPCs
      /\ Now(t) \notin WaitPCs
  BY DEF Outside, DriverPCs, WaitPCs
<1>2. /\ SpaceTypes /\ Phases /\ ThreadInv(t, todo[t])
      /\ markers = Cardinality(Live) /\ active = Cardinality(Live \ Yielded)
      /\ tasks = markers + (IF sw = "none" THEN 0 ELSE 1) + 1
      /\ Now(t) = todo[t][1] /\ Fits(Now(t), todo[t][2])
      /\ owner = t /\ shut = "no" /\ (paused <=> Pausing(todo[t])) /\ HoldsRoots(todo[t])
  BY <1>1, InsideCounts, Inside, ZenonT(20)
<1>3. ~paused /\ t \notin sleep /\ todo[t][2] \in {"release", "iterWait", "retry", "sweepWait"}
  BY <1>1, <1>2, AnyThread, ZenonT(20) DEF Pausing, Fits
<1>4. /\ todo' = [todo EXCEPT ![t] = Tail(todo[t])]
      /\ Stack(todo[t])' /\ todo'[t][1] = todo[t][2] /\ Now(t)' = todo[t][2]
      /\ todo[t][2] = "sweepWait" => todo'[t][2] # "resume"
  BY <1>1, PopTop
<1>5. /\ sleep' = {} /\ shut' = "no" /\ mt' \in [MarkerTask -> MarkerPC]
      /\ \A i \in MarkerTask : mt'[i] # "asleep"
      /\ \A i \in MarkerTask : mt'[i] = mt[i] \/ (mt[i] = "asleep" /\ mt'[i] = "yield")
  BY <1>2, Notifies DEF SpaceTypes
<1>6. Live' = Live /\ Yielded' = Yielded
  BY <1>5 DEF Live, Yielded
<1>7. tasks' = markers' + (IF sw' = "none" THEN 0 ELSE 1)
                        + (IF Now(t)' \in DriverPCs THEN 1 ELSE 0)
  <2>1. Now(t)' \notin DriverPCs
    BY <1>3, <1>4 DEF DriverPCs
  <2>2. tasks \in Nat /\ markers \in Nat /\ tasks' = tasks - 1 /\ markers' = markers /\ sw' = sw
    BY <1>2 DEF SpaceTypes
  <2>3. tasks = markers + (IF sw = "none" THEN 0 ELSE 1) + 1
    BY <1>2
  <2> QED BY ONLY <2>1, <2>2, <2>3
<1>8. SpaceTypes'
  <2>1. tasks' \in Nat
    BY <1>2 DEF SpaceTypes
  <2>2. /\ phase' \in Phase /\ markers' \in Nat /\ active' \in Nat
        /\ paused' \in BOOLEAN /\ marker' \in BOOLEAN
        /\ slices' \in 0 .. RootSlices /\ sw' \in SweeperPC
    BY <1>2 DEF SpaceTypes
  <2> QED BY <1>5, <2>1, <2>2, Zenon DEF SpaceTypes
<1>9. Phases'
  BY <1>2, <1>5, <1>6 DEF Phases
<1>10. ThreadInv(t, todo[t])'
  BY <1>2, <1>3, <1>4, ZenonT(20) DEF ThreadInv, Pausing, Outside
<1>11. HoldsRoots(todo[t])'
  <2>1. \A i \in MarkerTask : ~Rooting(i)
    BY <1>2 DEF HoldsRoots, RootPCs
  <2>2. \A i \in MarkerTask : ~Rooting(i)'
    BY <1>5, <2>1 DEF Rooting
  <2> QED BY <2>2, ZenonT(20) DEF HoldsRoots, Rooting
<1>12. markers' = Cardinality(Live') /\ active' = Cardinality(Live' \ Yielded')
  BY <1>2, <1>6, ZenonT(20)
<1>13. UNCHANGED <<owner, irq>> /\ sleep' \subseteq sleep /\ (paused => Pausing(todo[t]))'
  BY <1>3, <1>5, ZenonT(20)
<1> QED BY <1>1, <1>3, <1>4, <1>5, <1>7, <1>8, <1>9, <1>10, <1>11, <1>12, <1>13, InsideStep, ZenonT(20)

\* PageSpace::CollectGarbage returns.
LEMMA AccountInv ==
  ASSUME IInv, NEW t \in Thread, Account(t)
  PROVE  IInv'
BY DriverEnds DEF Account

\* The destructor of HeapIterationScope, which counts nobody else.
LEMMA IterateEndInv ==
  ASSUME IInv, NEW t \in Thread, IterateEnd(t)
  PROVE  IInv'
<1>1. Now(t) = "iterating" /\ Now(t) \notin Outside /\ Now(t) \in DriverPCs
  BY DEF IterateEnd, Outside, DriverPCs
<1>2. /\ Live = {} /\ sw = "none" /\ markers = Cardinality(Live)
      /\ tasks = markers + (IF sw = "none" THEN 0 ELSE 1) + 1
  BY <1>1, InsideCounts DEF ThreadInv
<1>3. tasks = 1
  BY <1>2, FS_EmptySet
<1>4. tasks' = tasks - 1
  BY <1>3 DEF IterateEnd
<1> QED BY <1>1, <1>4, DriverEnds, ZenonT(20) DEF IterateEnd

\* The wait of PageSpace::CollectGarbage.
LEMMA CollectWaitInv ==
  ASSUME IInv, NEW t \in Thread, CollectWait(t) \/ StartWait(t)
  PROVE  IInv'
<1>1. CASE CollectWait(t)
  BY <1>1, WaitForPendingTasksInv DEF CollectWait
<1>2. CASE StartWait(t)
  BY <1>2, WaitForPendingTasksInv DEF StartWait
<1> QED BY <1>1, <1>2

\* A scavenge asks the marker tasks to yield.
LEMMA PauseConcurrentMarkingInv ==
  ASSUME IInv, NEW t \in Thread, PauseConcurrentMarking(t)
  PROVE  IInv'
<1> DEFINE p == <<"pauseWait">>
<1>1. /\ Now(t) = "pause" /\ paused' = TRUE /\ Become(t, p)
      /\ UNCHANGED <<owner, irq, phase, tasks, markers, active, marker>>
      /\ UNCHANGED <<slices, mt, sw, sleep, shut>>
  BY DEF PauseConcurrentMarking, counters, taskVars, waitVars
<1>2. /\ Now(t) \notin Outside \cup {"stopping"} /\ Now(t) # "run" /\ Now(t) \notin DriverPCs
      /\ Now(t) \notin WaitPCs
  BY <1>1 DEF Outside, DriverPCs, WaitPCs
<1>3. /\ SpaceTypes /\ Phases /\ ThreadInv(t, todo[t])
      /\ markers = Cardinality(Live) /\ active = Cardinality(Live \ Yielded)
      /\ tasks = markers + (IF sw = "none" THEN 0 ELSE 1) + 0
      /\ Now(t) = todo[t][1] /\ Fits(Now(t), todo[t][2])
      /\ owner = t /\ shut = "no" /\ HoldsRoots(todo[t])
  BY <1>2, InsideCounts, Inside, ZenonT(20)
<1>4. t \notin sleep
  BY <1>2, AnyThread
<1>5. Chain(p, todo[t][2]) /\ p[1] = "pauseWait"
  <2>1. "pauseWait" \in Doing /\ Fits("pauseWait", todo[t][2])
    BY <1>1, <1>3 DEF Fits, Doing, Outside
  <2> QED BY <2>1, ChainOfOne
<1> HIDE DEF p
<1>6. /\ todo' = [todo EXCEPT ![t] = p \o Tail(todo[t])]
      /\ Stack(todo[t])' /\ todo'[t][1] = "pauseWait" /\ Now(t)' = "pauseWait"
  BY <1>1, <1>2, <1>5, PutTop
<1>7. Live' = Live /\ Yielded' = Yielded
  BY <1>1 DEF Live, Yielded
<1>8. SpaceTypes' /\ Phases'
  BY <1>1, <1>3, <1>7 DEF SpaceTypes, Phases
<1>9. ThreadInv(t, todo[t])' /\ (paused => Pausing(todo[t]))'
  BY <1>1, <1>3, <1>6, ZenonT(20) DEF ThreadInv, Pausing, Outside
<1>10. HoldsRoots(todo[t])'
  BY <1>1, <1>3, Zenon DEF HoldsRoots, Rooting, RootPCs
<1>11. tasks' = markers' + (IF sw' = "none" THEN 0 ELSE 1)
                         + (IF Now(t)' \in DriverPCs THEN 1 ELSE 0)
  BY <1>1, <1>3, <1>6 DEF DriverPCs
<1> QED BY <1>1, <1>2, <1>3, <1>4, <1>6, <1>7, <1>8, <1>9, <1>10, <1>11, InsideStep, ZenonT(20)

\* A scavenge lets the marker tasks go on.
LEMMA ResumeConcurrentMarkingInv ==
  ASSUME IInv, NEW t \in Thread, ResumeConcurrentMarking(t)
  PROVE  IInv'
<1>1. /\ Now(t) = "resume" /\ paused' = FALSE /\ Return(t) /\ NotifyAll(mt)
      /\ UNCHANGED <<owner, irq, phase, tasks, markers, active, marker, slices, sw>>
  BY DEF ResumeConcurrentMarking, counters
<1>2. /\ Now(t) \notin Outside \cup {"stopping"} /\ Now(t) # "run" /\ Now(t) \notin DriverPCs
      /\ Now(t) \notin WaitPCs
  BY <1>1 DEF Outside, DriverPCs, WaitPCs
<1>3. /\ SpaceTypes /\ Phases /\ ThreadInv(t, todo[t])
      /\ markers = Cardinality(Live) /\ active = Cardinality(Live \ Yielded)
      /\ tasks = markers + (IF sw = "none" THEN 0 ELSE 1) + 0
      /\ Now(t) = todo[t][1] /\ Fits(Now(t), todo[t][2])
      /\ owner = t /\ shut = "no" /\ HoldsRoots(todo[t])
  BY <1>2, InsideCounts, Inside, Zenon
<1>4. t \notin sleep /\ todo[t][2] \in {"afterScavenge", "pause", "release"}
  BY <1>1, <1>2, <1>3, AnyThread, ZenonT(20) DEF Fits
<1>5. /\ todo' = [todo EXCEPT ![t] = Tail(todo[t])]
      /\ Stack(todo[t])' /\ todo'[t][1] = todo[t][2] /\ Now(t)' = todo[t][2]
  BY <1>1, <1>2, PopTop
<1>6. /\ sleep' = {} /\ shut' = "no" /\ mt' \in [MarkerTask -> MarkerPC]
      /\ \A i \in MarkerTask : mt'[i] # "asleep"
      /\ \A i \in MarkerTask : mt'[i] = mt[i] \/ (mt[i] = "asleep" /\ mt'[i] = "yield")
  BY <1>1, <1>3, Notifies DEF SpaceTypes
<1>7. Live' = Live /\ Yielded' = Yielded
  BY <1>6 DEF Live, Yielded
<1>8. SpaceTypes' /\ Phases'
  BY <1>1, <1>3, <1>6, <1>7, ZenonT(20) DEF SpaceTypes, Phases
<1>9. ThreadInv(t, todo[t])' /\ (paused => Pausing(todo[t]))'
  BY <1>1, <1>3, <1>4, <1>5, ZenonT(20) DEF ThreadInv, Pausing, Outside
<1>10. HoldsRoots(todo[t])'
  <2>1. \A i \in MarkerTask : ~Rooting(i)
    BY <1>1, <1>3, ZenonT(20) DEF HoldsRoots, RootPCs
  <2>2. \A i \in MarkerTask : ~Rooting(i)'
    BY <1>1, <1>6, <2>1 DEF Rooting
  <2> QED BY <2>2, Zenon DEF HoldsRoots, Rooting
<1>11. tasks' = markers' + (IF sw' = "none" THEN 0 ELSE 1)
                         + (IF Now(t)' \in DriverPCs THEN 1 ELSE 0)
  BY <1>1, <1>3, <1>4, <1>5 DEF DriverPCs
<1>12. UNCHANGED <<owner, irq>> /\ sleep' \subseteq sleep
  BY <1>1, <1>6
<1>13. markers' = Cardinality(Live') /\ active' = Cardinality(Live' \ Yielded')
  BY <1>1, <1>3, <1>7
<1> QED BY <1>2, <1>4, <1>5, <1>6, <1>8, <1>9, <1>10, <1>11, <1>12, <1>13, InsideStep, ZenonT(20)

\* The constructor of HeapIterationScope helps the tasks, or counts itself once
\* there are none.
LEMMA IterateInv ==
  ASSUME IInv, NEW t \in Thread, Iterate(t)
  PROVE  IInv'
<1>1. /\ Now(t) = "iterate"
      /\ UNCHANGED <<owner, irq, phase, markers, active, paused, marker, taskVars, waitVars>>
  BY DEF Iterate
<1>2. /\ Now(t) \notin Outside \cup DriverPCs
                       \cup {"stopping", "pauseWait", "cards", "resume", "sweepWait"}
      /\ Now(t) # "run" /\ Now(t) \notin WaitPCs
  BY <1>1 DEF Outside, DriverPCs, WaitPCs
<1>3. t \notin sleep
  BY <1>2, AnyThread
<1>4. todo[t][2] = "release"
  BY <1>1, <1>2, InsideCounts, ZenonT(20) DEF Fits
<1>5. CASE Become(t, <<"iterAssist">>) /\ UNCHANGED tasks
  <2> DEFINE p == <<"iterAssist">>
  <2>1. Chain(p, todo[t][2]) /\ p[1] = "iterAssist" /\ Become(t, p)
    <3>1. "iterAssist" \in Doing /\ Fits("iterAssist", todo[t][2])
      BY <1>4 DEF Fits, Doing, Outside
    <3> QED BY <1>5, <3>1, ChainOfOne
  <2>2. UNCHANGED <<owner, irq, spaceVars, taskVars, waitVars>>
    BY <1>1, <1>5 DEF spaceVars, counters
  <2> HIDE DEF p
  <2>3. /\ p[1] \notin Outside \cup DriverPCs \cup {"pauseWait", "cards", "resume"}
        /\ p[1] # "sweepWait" /\ p[1] # "startWait"
    BY <2>1 DEF Outside, DriverPCs
  <2> QED BY <1>2, <1>3, <2>1, <2>2, <2>3, InsideReplaces, ZenonT(20)
<1>6. CASE tasks = 0 /\ phase = "done" /\ tasks' = 1 /\ Become(t, <<"iterating">>)
  <2> DEFINE p == <<"iterating">>
  <2>1. Chain(p, todo[t][2]) /\ p[1] = "iterating" /\ Become(t, p)
    <3>1. "iterating" \in Doing /\ Fits("iterating", todo[t][2])
      BY <1>4 DEF Fits, Doing, Outside
    <3> QED BY <1>6, <3>1, ChainOfOne
  <2> HIDE DEF p
  <2>2. /\ UNCHANGED <<owner, irq, phase, markers, active, paused, marker>>
        /\ UNCHANGED <<slices, mt, sw, sleep, shut>>
    BY <1>1 DEF taskVars, waitVars
  <2>3. /\ SpaceTypes /\ Phases /\ ThreadInv(t, todo[t])
        /\ markers = Cardinality(Live) /\ active = Cardinality(Live \ Yielded)
        /\ \A i \in MarkerTask : mt[i] = "asleep" => paused
        /\ Now(t) = todo[t][1]
        /\ owner = t /\ shut = "no" /\ (paused <=> Pausing(todo[t]))
    BY <1>2, InsideCounts, Inside, ZenonT(20)
  <2>4. Live = {} /\ sw = "none" /\ markers = 0 /\ ~paused
    BY <1>1, <1>2, <1>6, <2>3, NoTask DEF Pausing
  <2>5. /\ todo' = [todo EXCEPT ![t] = p \o Tail(todo[t])]
        /\ Stack(todo[t])' /\ todo'[t][1] = "iterating" /\ Now(t)' = "iterating"
    BY <1>2, <2>1, PutTop
  <2>6. Live' = Live /\ Yielded' = Yielded
    BY <2>2 DEF Live, Yielded
  <2>7. SpaceTypes' /\ Phases'
    BY <1>6, <2>2, <2>3, <2>6 DEF SpaceTypes, Phases
  <2>8. ThreadInv(t, todo[t])'
    BY <2>2, <2>3, <2>4, <2>5, <2>6, ZenonT(20) DEF ThreadInv, Pausing, Outside
  <2>9. HoldsRoots(todo[t])'
    BY <2>2, <2>4, Zenon DEF HoldsRoots, Rooting, Live
  <2>10. tasks' = markers' + (IF sw' = "none" THEN 0 ELSE 1)
                           + (IF Now(t)' \in DriverPCs THEN 1 ELSE 0)
    BY <1>6, <2>2, <2>4, <2>5 DEF DriverPCs
  <2> QED BY <1>2, <1>3, <2>2, <2>3, <2>4, <2>5, <2>6, <2>7, <2>8, <2>9, <2>10, InsideStep, ZenonT(20)
<1> QED BY <1>5, <1>6 DEF Iterate

-----------------------------------------------------------------------------
(* Steps of the tasks. *)

\* What the step of a task has to show: it lets no thread down that relies on
\* there being no task, on the phase or on the marking being paused.
LEMMA TaskStep ==
  ASSUME IInv, UNCHANGED <<todo, owner, paused>>, irq' \subseteq Thread,
         SpaceTypes', Phases',
         markers' = Cardinality(Live'), active' = Cardinality(Live' \ Yielded'),
         tasks' = markers' + (IF sw' = "none" THEN 0 ELSE 1) + (IF Driving THEN 1 ELSE 0),
         \A i \in MarkerTask : /\ Rooting(i)' => Rooting(i)
                               /\ mt'[i] = "counted" => mt[i] = "counted"
                               /\ mt'[i] = "asleep" => paused,
         Live = {} => Live' = {}, sw = "none" => sw' = "none",
         paused /\ Live = Yielded => Live' = Yielded',
         phase = "done" => phase' = "done",
         phase \notin {"marking", "awaitingFinalization"}
           => phase' \notin {"marking", "awaitingFinalization"},
         \/ sleep' = {}
         \/ /\ sleep' \subseteq sleep /\ phase' = phase /\ tasks' = tasks
            /\ active # 0 => active' # 0,
         \/ shut' = (IF shut = "asleep" THEN "wait" ELSE shut)
         \/ shut' = shut /\ tasks' = tasks
  PROVE  IInv'
<1>0. Types /\ Threads /\ Counting /\ Phases /\ Holding /\ NoLostWakeup
  BY DEF IInv
<1>1. Types'
  BY <1>0 DEF Types
<1>2. \A t \in Thread : Now(t)' = Now(t)
  BY DEF Now
<1>3. Threads'
  <2>1. ASSUME owner # NoThread PROVE ThreadInv(owner, todo[owner])'
    <3>1. ThreadInv(owner, todo[owner])
      BY <1>0, <2>1, ZenonT(20) DEF Types, Threads
    <3> QED BY <3>1, ZenonT(20) DEF ThreadInv, Pausing
  <2> QED BY <2>1, ThreadsFollowOwner
<1>4. Driving' = Driving
  BY DEF Driving, Now
<1>5. Counting'
  BY <1>4 DEF Counting
<1>6. Holding'
  <2>1. owner # NoThread =>
          /\ Now(owner)' # "stopping" => \A t \in Thread \ {owner} : AtSafepoint(t)'
          /\ HoldsRoots(todo[owner])'
          /\ paused' => Pausing(todo[owner])'
    <3>1. \A t \in Thread : AtSafepoint(t)' = AtSafepoint(t)
      BY <1>2 DEF AtSafepoint
    <3>2. HoldsRoots(todo[owner]) => HoldsRoots(todo[owner])'
      BY ZenonT(20) DEF HoldsRoots
    <3>3. Pausing(todo[owner])' = Pausing(todo[owner]) /\ Now(owner)' = Now(owner)
      BY DEF Pausing, Now
    <3> QED BY <1>0, <3>1, <3>2, <3>3, ZenonT(20) DEF Holding
  <2>2. owner = NoThread => ~paused /\ \A i \in MarkerTask : ~Rooting(i)'
    BY <1>0 DEF Holding
  <2>3. shut' # "no" => \A t \in Thread : Now(t)' = "run"
    BY <1>0, <1>2 DEF Holding
  <2>4. shut' = "gone" => Live' = {} /\ sw' = "none"
    BY <1>0, ZenonT(20) DEF Holding
  <2> QED BY <2>1, <2>2, <2>3, <2>4 DEF Holding
<1>7. NoLostWakeup'
  <2>1. ASSUME NEW t \in sleep'
        PROVE  \/ Now(t)' \in {"collect", "startWait", "iterWait"} /\ tasks' > 0
               \/ Now(t)' = "pauseWait" /\ active' # 0
               \/ Now(t)' = "cards" /\ phase' = "sweepingLarge"
               \/ Now(t)' \in {"sweepWait", "sweepAsleep"} /\ Sweeping'
               \/ Now(t)' = "markAsleep" /\ phase' = "marking"
    <3>1. t \in sleep /\ t \in Thread
      BY <1>0 DEF Types
    <3> QED BY ZenonT(20), <1>0, <1>2, <3>1 DEF NoLostWakeup, Sweeping
  <2>2. shut' = "asleep" => tasks' > 0
    BY <1>0 DEF NoLostWakeup
  <2> QED BY <2>1, <2>2 DEF NoLostWakeup
<1> QED BY <1>1, <1>3, <1>5, <1>6, <1>7 DEF IInv

\* A step that changes no counter.
LEMMA QuietStep ==
  ASSUME IInv, UNCHANGED <<todo, owner, irq, spaceVars>>,
         mt' \in [MarkerTask -> MarkerPC], slices' \in 0 .. RootSlices,
         Live' = Live, Yielded' = Yielded,
         UNCHANGED sw \/ (sw = "regular" /\ sw' = "left"),
         \A i \in MarkerTask : /\ Rooting(i)' => Rooting(i)
                               /\ mt'[i] = "counted" => mt[i] = "counted"
                               /\ mt'[i] = "asleep" => paused,
         sleep' \subseteq sleep,
         shut' = (IF shut = "asleep" THEN "wait" ELSE shut) \/ shut' = shut
  PROVE  IInv'
<1>0. Types /\ Counting /\ Phases
  BY DEF IInv
<1>1. UNCHANGED <<phase, tasks, markers, active, paused, marker>>
  BY DEF spaceVars, counters
<1>2. SpaceTypes' /\ irq' \subseteq Thread
  BY <1>0, <1>1 DEF SpaceTypes, Types, SweeperPC
<1>3. Phases'
  BY <1>0, <1>1 DEF Phases
<1>4. /\ markers' = Cardinality(Live') /\ active' = Cardinality(Live' \ Yielded')
      /\ tasks' = markers' + (IF sw' = "none" THEN 0 ELSE 1) + (IF Driving THEN 1 ELSE 0)
  BY <1>0, <1>1 DEF Counting
<1> QED BY <1>1, <1>2, <1>3, <1>4, TaskStep

\* A marker task takes a slice of the roots.
LEMMA TakeRootSliceInv ==
  ASSUME IInv, NEW i \in MarkerTask, TakeRootSlice(i)
  PROVE  IInv'
<1>1. mt \in [MarkerTask -> MarkerPC] /\ slices \in 0 .. RootSlices /\ mt[i] = "started"
  BY DEF IInv, Types, SpaceTypes, TakeRootSlice
<1>2. /\ slices' \in 0 .. RootSlices /\ slices <= slices' /\ mt' \in [MarkerTask -> MarkerPC]
      /\ (mt'[i] = "roots" /\ slices < RootSlices) \/ mt'[i] = "mark"
      /\ \A j \in MarkerTask \ {i} : mt'[j] = mt[j]
  BY <1>1, OldSpaceConstants DEF TakeRootSlice, MarkerPC
<1>3. Live' = Live /\ Yielded' = Yielded
  BY <1>1, <1>2 DEF Live, Yielded
<1>4. \A j \in MarkerTask : /\ Rooting(j)' => Rooting(j)
                            /\ mt'[j] = "counted" => mt[j] = "counted"
                            /\ mt'[j] = "asleep" => mt[j] = "asleep"
  BY <1>1, <1>2, OldSpaceConstants DEF Rooting
<1>5. \A j \in MarkerTask : mt[j] = "asleep" => paused
  BY DEF IInv, NoLostWakeup
<1>6. UNCHANGED <<todo, owner, irq, spaceVars>> /\ UNCHANGED <<sw, sleep, shut>>
  BY DEF TakeRootSlice, waitVars
<1> QED BY <1>2, <1>3, <1>4, <1>5, <1>6, QuietStep

\* A marker task is done with a slice, or with marking.
LEMMA RootSliceDoneInv ==
  ASSUME IInv, NEW i \in MarkerTask, RootSliceDone(i) \/ LeaveMarking(i)
  PROVE  IInv'
<1>1. /\ mt \in [MarkerTask -> MarkerPC] /\ slices \in 0 .. RootSlices
      /\ \A j \in MarkerTask : mt[j] = "asleep" => paused
  BY DEF IInv, Types, SpaceTypes, NoLostWakeup
<1>2. /\ UNCHANGED <<todo, owner, irq, spaceVars>> /\ UNCHANGED <<slices, sw, sleep, shut>>
      /\ \/ mt[i] = "roots" /\ mt' = [mt EXCEPT ![i] = "started"]
         \/ mt[i] = "mark" /\ mt' = [mt EXCEPT ![i] = "left"]
  BY DEF RootSliceDone, LeaveMarking, waitVars
<1>3. /\ mt' \in [MarkerTask -> MarkerPC]
      /\ \/ mt[i] = "roots" /\ mt'[i] = "started"
         \/ mt[i] = "mark" /\ mt'[i] = "left"
      /\ \A j \in MarkerTask \ {i} : mt'[j] = mt[j]
  BY <1>1, <1>2 DEF MarkerPC
<1>4. Live' = Live /\ Yielded' = Yielded
  BY <1>3 DEF Live, Yielded
<1>5. \A j \in MarkerTask : /\ Rooting(j)' => Rooting(j)
                            /\ mt'[j] = "counted" => mt[j] = "counted"
                            /\ mt'[j] = "asleep" => mt[j] = "asleep"
  BY <1>2, <1>3 DEF Rooting
<1> QED BY <1>1, <1>2, <1>3, <1>4, <1>5, QuietStep

\* ConcurrentSweeperTask is done with the last page.
LEMMA LeaveSweepingInv ==
  ASSUME IInv, LeaveSweeping
  PROVE  IInv'
<1>1. /\ mt \in [MarkerTask -> MarkerPC] /\ slices \in 0 .. RootSlices
      /\ \A j \in MarkerTask : mt[j] = "asleep" => paused
  BY DEF IInv, Types, SpaceTypes, NoLostWakeup
<1>2. /\ UNCHANGED <<todo, owner, irq, spaceVars>> /\ UNCHANGED <<slices, mt, sleep, shut>>
      /\ sw = "regular" /\ sw' = "left"
  BY DEF LeaveSweeping, waitVars
<1>3. Live' = Live /\ Yielded' = Yielded /\ \A j \in MarkerTask : Rooting(j)' = Rooting(j)
  BY <1>2 DEF Live, Yielded, Rooting
<1> QED BY ZenonT(20), <1>1, <1>2, <1>3, QuietStep

\* A wait on tasks_lock_ may return for no reason.
LEMMA SpuriousWakeupInv ==
  ASSUME IInv, SpuriousWakeup
  PROVE  IInv'
<1>1. /\ mt \in [MarkerTask -> MarkerPC] /\ slices \in 0 .. RootSlices
      /\ \A j \in MarkerTask : mt[j] = "asleep" => paused
  BY DEF IInv, Types, SpaceTypes, NoLostWakeup
<1>2. UNCHANGED <<todo, owner, irq, spaceVars>> /\ UNCHANGED <<slices, sw>>
  BY DEF SpuriousWakeup
<1>3. /\ sleep' \subseteq sleep /\ mt' \in [MarkerTask -> MarkerPC]
      /\ shut' = (IF shut = "asleep" THEN "wait" ELSE shut) \/ shut' = shut
      /\ \A j \in MarkerTask : mt'[j] = mt[j] \/ (mt[j] = "asleep" /\ mt'[j] = "yield")
  BY <1>1 DEF SpuriousWakeup, waitVars, MarkerPC
<1>4. Live' = Live /\ Yielded' = Yielded
  BY <1>3 DEF Live, Yielded
<1>5. \A j \in MarkerTask : /\ Rooting(j)' => Rooting(j)
                            /\ mt'[j] = "counted" => mt[j] = "counted"
                            /\ mt'[j] = "asleep" => mt[j] = "asleep"
  BY <1>2, <1>3 DEF Rooting
<1> QED BY <1>1, <1>2, <1>3, <1>4, <1>5, QuietStep

\* The wait of a marker task that yields returns, or begins again.
LEMMA YieldWaitReturnsInv ==
  ASSUME IInv, NEW i \in MarkerTask, YieldWaitReturns(i)
  PROVE  IInv'
<1>0. /\ Types /\ Counting /\ Phases /\ SpaceTypes /\ mt \in [MarkerTask -> MarkerPC]
      /\ slices \in 0 .. RootSlices /\ \A j \in MarkerTask : mt[j] = "asleep" => paused
  BY DEF IInv, Types, SpaceTypes, NoLostWakeup
<1>1. /\ mt[i] = "yield"
      /\ UNCHANGED <<todo, owner, irq, phase, tasks, markers, paused, marker>>
      /\ UNCHANGED <<slices, sw, sleep, shut>>
  BY DEF YieldWaitReturns, waitVars
<1>2. CASE paused /\ mt' = [mt EXCEPT ![i] = "asleep"] /\ UNCHANGED active
  <2>1. /\ mt' \in [MarkerTask -> MarkerPC] /\ mt'[i] = "asleep"
        /\ \A j \in MarkerTask \ {i} : mt'[j] = mt[j]
    BY <1>0, <1>2 DEF MarkerPC
  <2>2. Live' = Live /\ Yielded' = Yielded
    BY ZenonT(20), <1>1, <2>1 DEF Live, Yielded
  <2>3. \A j \in MarkerTask : /\ Rooting(j)' => Rooting(j)
                              /\ mt'[j] = "counted" => mt[j] = "counted"
                              /\ mt'[j] = "asleep" => paused
    BY ZenonT(20), <1>0, <1>1, <1>2, <2>1 DEF Rooting
  <2>4. UNCHANGED spaceVars
    BY ZenonT(20), <1>1, <1>2 DEF spaceVars, counters
  <2> QED BY <1>0, <1>1, <2>1, <2>2, <2>3, <2>4, QuietStep
<1>3. CASE ~paused /\ mt' = [mt EXCEPT ![i] = "mark"] /\ active' = active + 1
  <2>1. /\ mt' \in [MarkerTask -> MarkerPC] /\ mt'[i] = "mark"
        /\ \A j \in MarkerTask \ {i} : mt'[j] = mt[j]
    BY <1>0, <1>3 DEF MarkerPC
  <2>2. /\ Live' = Live /\ Live' \ Yielded' = (Live \ Yielded) \cup {i}
        /\ i \notin Live \ Yielded
    BY <1>1, <2>1 DEF Live, Yielded
  <2>3. \A j \in MarkerTask : /\ Rooting(j)' => Rooting(j)
                              /\ mt'[j] = "counted" => mt[j] = "counted"
                              /\ mt'[j] = "asleep" => paused
    BY <1>0, <1>1, <2>1 DEF Rooting
  <2>4. active' = Cardinality(Live' \ Yielded') /\ active' \in Nat
    <3>1. Cardinality((Live \ Yielded) \cup {i}) = Cardinality(Live \ Yielded) + 1
      BY <2>2, TasksFinite, FS_AddElement, ZenonT(20)
    <3> QED BY <1>0, <1>3, <2>2, <3>1 DEF Counting, SpaceTypes
  <2>5. SpaceTypes' /\ irq' \subseteq Thread
    BY <1>0, <1>1, <2>1, <2>4 DEF SpaceTypes, Types
  <2>6. Phases'
    BY <1>0, <1>1, <2>2 DEF Phases
  <2>7. /\ markers' = Cardinality(Live')
        /\ tasks' = markers' + (IF sw' = "none" THEN 0 ELSE 1) + (IF Driving THEN 1 ELSE 0)
    BY <1>0, <1>1, <2>2 DEF Counting
  <2>8. active # 0 => active' # 0
    BY <1>0, <1>3 DEF SpaceTypes
  <2> QED BY <1>1, <1>3, <2>2, <2>3, <2>4, <2>5, <2>6, <2>7, <2>8, TaskStep
<1> QED BY ZenonT(20), <1>2, <1>3 DEF YieldWaitReturns

\* A marker task yields; the last one notifies.
LEMMA YieldConcurrentMarkingInv ==
  ASSUME IInv, NEW i \in MarkerTask, YieldConcurrentMarking(i)
  PROVE  IInv'
<1> DEFINE at == [mt EXCEPT ![i] = "asleep"]
<1>0. /\ Types /\ Counting /\ Phases /\ SpaceTypes /\ mt \in [MarkerTask -> MarkerPC]
      /\ slices \in 0 .. RootSlices
  BY DEF IInv, Types, SpaceTypes
<1>1. /\ mt[i] = "mark" /\ paused /\ active' = active - 1
      /\ \/ active' = 0 /\ NotifyAll(at)
         \/ active' # 0 /\ mt' = at /\ UNCHANGED <<sleep, shut>>
      /\ UNCHANGED <<todo, owner, irq, phase, tasks, markers, paused, marker>>
      /\ UNCHANGED <<slices, sw>>
  BY DEF YieldConcurrentMarking, waitVars
<1>2. /\ at \in [MarkerTask -> MarkerPC] /\ at[i] = "asleep"
      /\ \A j \in MarkerTask \ {i} : at[j] = mt[j]
  BY <1>0 DEF MarkerPC
<1> HIDE DEF at
<1>3. /\ mt' \in [MarkerTask -> MarkerPC]
      /\ \A j \in MarkerTask : mt'[j] = at[j] \/ (at[j] = "asleep" /\ mt'[j] = "yield")
      /\ \/ sleep' = {} /\ shut' = (IF shut = "asleep" THEN "wait" ELSE shut)
         \/ active' # 0 /\ sleep' = sleep /\ shut' = shut
  BY <1>1, <1>2, Notifies
<1>4. /\ Live' = Live /\ Live' \ Yielded' = (Live \ Yielded) \ {i}
      /\ i \in Live \ Yielded /\ Live # {} /\ Live # Yielded
  BY <1>1, <1>2, <1>3 DEF Live, Yielded
<1>5. \A j \in MarkerTask : /\ Rooting(j)' => Rooting(j)
                            /\ mt'[j] = "counted" => mt[j] = "counted"
                            /\ mt'[j] = "asleep" => paused
  BY <1>1, <1>2, <1>3 DEF Rooting
<1>6. active' = Cardinality(Live' \ Yielded') /\ active' \in Nat
  <2>1. /\ Cardinality((Live \ Yielded) \ {i}) = Cardinality(Live \ Yielded) - 1
        /\ Cardinality(Live \ Yielded) \in Nat /\ IsFiniteSet((Live \ Yielded) \ {i})
    BY <1>4, TasksFinite, FS_RemoveElement, FS_CardinalityType, ZenonT(20)
  <2>2. Cardinality((Live \ Yielded) \ {i}) \in Nat
    BY <2>1, FS_CardinalityType
  <2> QED BY <1>0, <1>1, <1>4, <2>1, <2>2, Zenon DEF Counting
<1>7. SpaceTypes' /\ irq' \subseteq Thread
  BY <1>0, <1>1, <1>3, <1>6, ZenonT(20) DEF SpaceTypes, Types
<1>8. Phases'
  <2>1. shut' = "gone" <=> shut = "gone"
    BY <1>3
  <2> QED BY <1>0, <1>1, <1>4, <2>1 DEF Phases
<1>9. /\ markers' = Cardinality(Live')
      /\ tasks' = markers' + (IF sw' = "none" THEN 0 ELSE 1) + (IF Driving THEN 1 ELSE 0)
  BY <1>0, <1>1, <1>4 DEF Counting
<1> QED BY <1>1, <1>3, <1>4, <1>5, <1>6, <1>7, <1>8, <1>9, TaskStep

\* A marker task ends; the last one ends the marking and interrupts the threads.
LEMMA MarkerTaskDoneInv ==
  ASSUME IInv, NEW i \in MarkerTask, MarkerTaskDone(i)
  PROVE  IInv'
<1> DEFINE at == [mt EXCEPT ![i] = "none"]
<1>0. /\ Types /\ Counting /\ Phases /\ Holding /\ SpaceTypes /\ mt \in [MarkerTask -> MarkerPC]
      /\ slices \in 0 .. RootSlices
  BY DEF IInv, Types, SpaceTypes
<1>1. /\ mt[i] = "left"
      /\ tasks' = tasks - 1 /\ markers' = markers - 1 /\ active' = active - 1
      /\ \/ markers' = 0 /\ phase' = "awaitingFinalization" /\ irq' = Thread
         \/ markers' # 0 /\ UNCHANGED <<phase, irq>>
      /\ NotifyAll(at)
      /\ UNCHANGED <<todo, owner, paused, marker>> /\ UNCHANGED <<slices, sw>>
  BY DEF MarkerTaskDone, ScheduleInterrupts
<1>2. /\ at \in [MarkerTask -> MarkerPC] /\ at[i] = "none"
      /\ \A j \in MarkerTask \ {i} : at[j] = mt[j]
  BY <1>0 DEF MarkerPC
<1> HIDE DEF at
<1>3. /\ mt' \in [MarkerTask -> MarkerPC] /\ \A j \in MarkerTask : mt'[j] # "asleep"
      /\ \A j \in MarkerTask : mt'[j] = at[j] \/ (at[j] = "asleep" /\ mt'[j] = "yield")
      /\ sleep' = {} /\ shut' = (IF shut = "asleep" THEN "wait" ELSE shut)
  BY <1>1, <1>2, Notifies
<1>4. /\ Live' = Live \ {i} /\ Live' \ Yielded' = (Live \ Yielded) \ {i}
      /\ i \in Live /\ i \in Live \ Yielded /\ Live # {} /\ Live # Yielded
  BY <1>1, <1>2, <1>3 DEF Live, Yielded
<1>5. \A j \in MarkerTask : /\ Rooting(j)' => Rooting(j)
                            /\ mt'[j] = "counted" => mt[j] = "counted"
  BY <1>1, <1>2, <1>3 DEF Rooting
<1>6. active' = Cardinality(Live' \ Yielded') /\ active' \in Nat
  <2>1. /\ Cardinality((Live \ Yielded) \ {i}) = Cardinality(Live \ Yielded) - 1
        /\ Cardinality(Live \ Yielded) \in Nat /\ IsFiniteSet((Live \ Yielded) \ {i})
    BY <1>4, TasksFinite, FS_RemoveElement, FS_CardinalityType, ZenonT(20)
  <2>2. Cardinality((Live \ Yielded) \ {i}) \in Nat
    BY <2>1, FS_CardinalityType
  <2> QED BY <1>0, <1>1, <1>4, <2>1, <2>2 DEF Counting
<1>7. markers' = Cardinality(Live') /\ markers' \in Nat /\ (markers' = 0 <=> Live' = {})
  <2>1. /\ Cardinality(Live \ {i}) = Cardinality(Live) - 1
        /\ Cardinality(Live) \in Nat /\ IsFiniteSet(Live \ {i})
    BY <1>4, TasksFinite, FS_RemoveElement, FS_CardinalityType
  <2>2. Cardinality(Live \ {i}) \in Nat /\ (Cardinality(Live \ {i}) = 0 <=> Live \ {i} = {})
    BY <2>1, FS_CardinalityType, FS_EmptySet, ZenonT(20)
  <2>3. markers' = Cardinality(Live \ {i})
    BY <1>0, <1>1, <2>1 DEF Counting
  <2> QED BY <1>4, <2>2, <2>3
<1>8. tasks' = markers' + (IF sw' = "none" THEN 0 ELSE 1) + (IF Driving THEN 1 ELSE 0)
  BY <1>0, <1>1 DEF Counting, SpaceTypes
<1>9. tasks' \in Nat
  BY <1>7, <1>8
<1>10. phase = "marking" /\ shut # "gone" /\ shut' # "gone"
  BY <1>0, <1>3, <1>4 DEF Phases, Holding
<1>11. phase' \in Phase /\ irq' \subseteq Thread
  BY <1>0, <1>1 DEF Types, SpaceTypes, Phase
<1>12. SpaceTypes'
  BY ZenonT(20), <1>0, <1>1, <1>3, <1>6, <1>7, <1>9, <1>11 DEF SpaceTypes
<1>13. Phases'
  BY ZenonT(20), <1>0, <1>1, <1>7, <1>10 DEF Phases
<1> QED BY <1>1, <1>3, <1>4, <1>5, <1>6, <1>7, <1>8, <1>10, <1>11, <1>12, <1>13, TaskStep, ZenonT(20)

\* ConcurrentSweeperTask is done with the large pages, or with all.
LEMMA SweeperDoneInv ==
  ASSUME IInv, SweepLargeDone \/ SweeperTaskDone
  PROVE  IInv'
<1>0. /\ Types /\ Counting /\ Phases /\ SpaceTypes /\ mt \in [MarkerTask -> MarkerPC]
      /\ slices \in 0 .. RootSlices
  BY DEF IInv, Types, SpaceTypes
<1>1. /\ \/ sw = "started" /\ sw' = "regular" /\ phase' = "sweepingRegular" /\ tasks' = tasks
         \/ sw = "left" /\ sw' = "none" /\ phase' = "done" /\ tasks' = tasks - 1
      /\ NotifyAll(mt)
      /\ UNCHANGED <<todo, owner, irq, markers, active, paused, marker, slices>>
  BY DEF SweepLargeDone, SweeperTaskDone, counters
<1>2. /\ mt' \in [MarkerTask -> MarkerPC] /\ \A j \in MarkerTask : mt'[j] # "asleep"
      /\ \A j \in MarkerTask : mt'[j] = mt[j] \/ (mt[j] = "asleep" /\ mt'[j] = "yield")
      /\ sleep' = {} /\ shut' = (IF shut = "asleep" THEN "wait" ELSE shut)
  BY <1>0, <1>1, Notifies
<1>3. Live' = Live /\ Yielded' = Yielded
  BY <1>2 DEF Live, Yielded
<1>4. \A j \in MarkerTask : /\ Rooting(j)' => Rooting(j)
                            /\ mt'[j] = "counted" => mt[j] = "counted"
  BY <1>1, <1>2 DEF Rooting
<1>5. phase \in {"sweepingLarge", "sweepingRegular"} /\ Live = {} /\ ~marker
  BY <1>0, <1>1 DEF Phases, SpaceTypes
<1>6. /\ markers' = Cardinality(Live') /\ active' = Cardinality(Live' \ Yielded')
      /\ tasks' = markers' + (IF sw' = "none" THEN 0 ELSE 1) + (IF Driving THEN 1 ELSE 0)
  <2>1. markers' = Cardinality(Live') /\ active' = Cardinality(Live' \ Yielded')
    BY <1>0, <1>1, <1>3 DEF Counting
  <2>2. tasks' = markers' + (IF sw' = "none" THEN 0 ELSE 1) + (IF Driving THEN 1 ELSE 0)
    BY <1>0, <1>1 DEF Counting, SpaceTypes
  <2> QED BY <2>1, <2>2
<1>7. phase' \in Phase /\ sw' \in SweeperPC
  BY <1>1 DEF Phase, SweeperPC
<1>8. tasks' \in Nat
  BY <1>0, <1>1, <1>6 DEF SpaceTypes
<1>9. SpaceTypes' /\ irq' \subseteq Thread
  BY ZenonT(20), <1>0, <1>1, <1>2, <1>7, <1>8 DEF SpaceTypes, Types
<1>10. Phases'
  BY ZenonT(20), <1>1, <1>3, <1>5 DEF Phases
<1> QED BY <1>1, <1>2, <1>3, <1>4, <1>5, <1>6, <1>9, <1>10, TaskStep

-----------------------------------------------------------------------------
(* The shutdown of the group. *)

\* The last isolate of the group is gone.
LEMMA BeginShutdownInv ==
  ASSUME IInv, BeginShutdown
  PROVE  IInv'
<1>0. Types /\ Threads /\ Counting /\ Phases /\ Holding /\ NoLostWakeup
  BY DEF IInv
<1>a. /\ UNCHANGED <<todo, owner, irq, phase, tasks, markers, active, paused, marker>>
      /\ UNCHANGED <<slices, mt, sw, sleep>> /\ shut = "no" /\ shut' = "wait"
      /\ \A t \in Thread : Now(t) = "run"
  BY DEF BeginShutdown, spaceVars, counters, taskVars
<1>1. Types'
  BY <1>0, <1>a DEF Types, SpaceTypes
<1>2. Threads'
  BY <1>0, <1>a, ZenonT(20) DEF Threads, ThreadInv, Pausing, Live, Yielded
<1>3. Counting' /\ Phases'
  BY <1>0, <1>a DEF Counting, Phases, Driving, Now, Live, Yielded
<1>4. Holding'
  BY <1>0, <1>a DEF Holding, HoldsRoots, Rooting, Pausing, AtSafepoint, Now, Live
<1>5. NoLostWakeup'
  BY <1>0, <1>a DEF NoLostWakeup, Now, Sweeping
<1> QED BY <1>1, <1>2, <1>3, <1>4, <1>5 DEF IInv

\* IsolateGroup::Shutdown waits for the tasks, and abandons the marking.
LEMMA ShutdownInv ==
  ASSUME IInv, Shutdown
  PROVE  IInv'
<1>0. Types /\ Threads /\ Counting /\ Phases /\ Holding /\ NoLostWakeup
  BY DEF IInv
<1>a. /\ UNCHANGED <<todo, owner, irq, phase, tasks, markers, active, paused>>
      /\ UNCHANGED <<slices, mt, sw, sleep>> /\ shut = "wait"
      /\ \/ tasks > 0 /\ shut' = "asleep" /\ UNCHANGED marker
         \/ tasks = 0 /\ shut' = "gone" /\ marker' = FALSE
  BY DEF Shutdown, counters, taskVars
<1>b. \A t \in Thread : Now(t) = "run"
  BY <1>0, <1>a DEF Holding
<1>1. Types'
  BY <1>0, <1>a, Zenon DEF Types, SpaceTypes
<1>2. Threads'
  BY <1>0, <1>a, ZenonT(20) DEF Threads, ThreadInv, Pausing, Live, Yielded
<1>3. Counting'
  BY <1>0, <1>a DEF Counting, Driving, Now, Live, Yielded
<1>4. Live' = Live /\ (tasks = 0 => Live = {} /\ sw = "none")
  <2>1. tasks = 0 => markers = 0 /\ sw = "none"
    BY <1>0 DEF Counting, Types, SpaceTypes
  <2>2. markers = 0 => Live = {}
    BY <1>0, TasksFinite, FS_EmptySet DEF Counting
  <2>3. Live' = Live
    BY <1>a DEF Live
  <2> QED BY <2>1, <2>2, <2>3
<1>5. Phases'
  BY <1>0, <1>a, <1>4 DEF Phases
<1>6. Holding'
  <2>1. shut' = "gone" => Live' = {} /\ sw' = "none"
    BY <1>a, <1>4
  <2> QED BY <1>0, <1>a, <1>b, <2>1 DEF Holding, HoldsRoots, Rooting, Pausing, AtSafepoint, Now
<1>7. NoLostWakeup'
  BY <1>0, <1>a DEF NoLostWakeup, Now, Sweeping
<1> QED BY <1>1, <1>2, <1>3, <1>5, <1>6, <1>7 DEF IInv

-----------------------------------------------------------------------------
(* The invariant. *)

\* A heap starts without tasks.
LEMMA InitInv ==
  ASSUME Init
  PROVE  IInv
<1>1. Live = {} /\ Yielded = {} /\ Live \ Yielded = {} /\ \A i \in MarkerTask : ~Rooting(i)
  BY DEF Init, Live, Yielded, Rooting
<1>2. Cardinality(Live) = 0 /\ Cardinality(Live \ Yielded) = 0
  BY <1>1, FS_EmptySet
<1>3. Types
  <2>1. <<"run">> \in Seq(Doing)
    BY DEF Doing
  <2>2. todo \in [Thread -> Seq(Doing)]
    BY <2>1, Zenon DEF Init
  <2>3. SpaceTypes
    <3>1. mt \in [MarkerTask -> MarkerPC]
      BY DEF Init, MarkerPC
    <3>2. phase \in Phase /\ sw \in SweeperPC /\ paused \in BOOLEAN /\ marker \in BOOLEAN
      BY ZenonT(20) DEF Init, Phase, SweeperPC
    <3>3. tasks \in Nat /\ markers \in Nat /\ active \in Nat /\ slices \in 0 .. RootSlices
      BY OldSpaceConstants DEF Init
    <3> QED BY <3>1, <3>2, <3>3 DEF SpaceTypes
  <2> QED BY <2>2, <2>3 DEF Init, Types
<1>4. \A t \in Thread : todo[t] = <<"run">> /\ Now(t) = "run" /\ t # NoThread
  BY OldSpaceConstants DEF Init, Now
<1>5. Threads
  <2> DEFINE r == <<"run">>
  <2>1. Stack(r) /\ r[1] = "run"
    BY DEF Stack, Doing
  <2> HIDE DEF r
  <2>2. \A t \in Thread : todo[t] = r /\ owner # t
    BY <1>4 DEF Init, r
  <2> QED BY <2>1, <2>2 DEF Threads, ThreadInv, Pausing, Outside
<1>6. Counting
  BY <1>2 DEF Init, Counting, Driving
<1>7. Phases
  BY <1>1 DEF Init, Phases
<1>8. Holding
  BY <1>1 DEF Init, Holding
<1>9. NoLostWakeup
  BY DEF Init, NoLostWakeup
<1> QED BY <1>3, <1>5, <1>6, <1>7, <1>8, <1>9 DEF IInv

\* Every step of a thread keeps the invariant.
LEMMA ThreadStepsKeep ==
  ASSUME IInv, NEW t \in Thread, Call(t) \/ HandleInterrupts(t) \/ ThreadStep(t)
  PROVE  IInv'
<1>1. CASE Call(t)
  BY <1>1, CollectGarbageInv, WaitForTasksInv, StoreBufferOverflowsInv DEF Call
<1>2. CASE HandleInterrupts(t)
  BY <1>2, HandleInterruptsInv
<1>3. CASE CollectStep(t)
  BY <1>3, AfterScavengeInv, RetryAllocationInv, FinalizeInv, StartInv, CollectWaitInv,
     CollectGarbageHelperInv, StartConcurrentMarkInv, StartTasksInv, MainRootsDoneInv,
     RootsWaitInv, AccountInv, Zenon DEF CollectStep
<1>4. CASE ScavengeStep(t)
  BY <1>4, AbortInv, PauseConcurrentMarkingInv, PauseWaitInv, VisitRememberedCardsInv,
     ResumeConcurrentMarkingInv, WaitForSweeperTasksAtSafepointInv, Zenon DEF ScavengeStep
<1>5. CASE IterateStep(t)
  BY <1>5, IterateInv, IterateAfterAssistInv, IterateWaitInv, IterateEndInv, Zenon
     DEF IterateStep
<1>6. CASE ThreadStep(t)
  BY <1>3, <1>4, <1>5, <1>6, RequestOperationInv, SafepointThreadsInv, ResumeThreadsInv,
     CheckFinalizeMarkingInv, WaitForSweeperTasksInv, WaitForMarkerTasksInv,
     WaitWithSafepointCheckReturnsInv, Zenon DEF ThreadStep
<1> QED BY <1>1, <1>2, <1>6

\* A step that changes nothing.
LEMMA StutterInv ==
  ASSUME IInv, UNCHANGED vars
  PROVE  IInv'
<1>0. Types /\ Threads /\ Counting /\ Phases /\ Holding /\ NoLostWakeup
  BY DEF IInv
<1>a. /\ UNCHANGED <<todo, owner, irq, phase, tasks, markers, active, paused, marker>>
      /\ UNCHANGED <<slices, mt, sw, sleep, shut>>
  BY DEF vars, spaceVars, counters, taskVars, waitVars
<1>1. Types'
  BY <1>0, <1>a DEF Types, SpaceTypes
<1>2. Threads'
  BY <1>0, <1>a, ZenonT(20) DEF Threads, ThreadInv, Pausing, Live, Yielded
<1>3. Counting' /\ Phases'
  BY <1>0, <1>a DEF Counting, Phases, Driving, Now, Live, Yielded
<1>4. Holding'
  BY <1>0, <1>a, ZenonT(20) DEF Holding, HoldsRoots, Rooting, Pausing, AtSafepoint, Now, Live
<1>5. NoLostWakeup'
  BY <1>0, <1>a DEF NoLostWakeup, Now, Sweeping
<1> QED BY <1>1, <1>2, <1>3, <1>4, <1>5 DEF IInv

\* The invariant holds of every state of a heap, whatever its threads ask for.
THEOREM Invariance == Spec => []IInv
<1>1. Init => IInv
  BY InitInv
<1>2. IInv /\ [Next]_vars => IInv'
  <2> SUFFICES ASSUME IInv, [Next]_vars PROVE IInv'
    OBVIOUS
  <2>1. CASE \E t \in Thread : Call(t) \/ HandleInterrupts(t) \/ ThreadStep(t)
    BY <2>1, ThreadStepsKeep
  <2>2. CASE \E i \in MarkerTask : MarkerStep(i)
    BY <2>2, TakeRootSliceInv, RootSliceDoneInv, YieldConcurrentMarkingInv,
       YieldWaitReturnsInv, MarkerTaskDoneInv, Zenon DEF MarkerStep
  <2>3. CASE SweeperStep \/ BeginShutdown \/ Shutdown \/ SpuriousWakeup
    BY <2>3, SweeperDoneInv, LeaveSweepingInv, BeginShutdownInv, ShutdownInv,
       SpuriousWakeupInv, Zenon DEF SweeperStep
  <2>4. CASE UNCHANGED vars
    BY <2>4, StutterInv
  <2> QED BY <2>1, <2>2, <2>3, <2>4 DEF Next
<1> QED BY <1>1, <1>2, PTL DEF Spec

\* Every variable keeps its type, and every thread has something to do.
THEOREM TypeCorrect == Spec => []TypeOK
<1>1. IInv => TypeOK
  BY DEF IInv, Types, SpaceTypes, Threads, ThreadInv, Stack, TypeOK
<1> QED BY <1>1, Invariance, PTL

\* At most one thread counts as a task, the owner of the operation.
LEMMA OneDriver ==
  ASSUME IInv
  PROVE  Cardinality(Drivers) = IF Driving THEN 1 ELSE 0
<1>1. Drivers = {t \in Thread : Now(t) \in DriverPCs}
  BY DEF Drivers, DriverPCs
<1>2. \A t \in Thread : Now(t) \in DriverPCs => owner = t
  BY AnyThread, ZenonT(20) DEF DriverPCs, Outside
<1>3. CASE Driving
  <2>1. Drivers = {owner}
    BY <1>1, <1>2, <1>3 DEF Driving, IInv, Types
  <2> QED BY <1>3, <2>1, FS_Singleton
<1>4. CASE ~Driving
  <2>1. Drivers = {}
    BY <1>1, <1>2, <1>4, OldSpaceConstants DEF Driving
  <2> QED BY <1>4, <2>1, FS_EmptySet
<1> QED BY <1>3, <1>4

\* The counters that tasks_lock_ guards say which tasks there are, and so does
\* phase_: the assertions of PageSpace::CollectGarbage and of the tasks hold.
THEOREM CountersAreExact == Spec => []TasksAreExact
<1>1. ASSUME IInv PROVE TasksAreExact
  <2>1. Counting /\ Phases
    BY <1>1 DEF IInv
  <2>2. \A t \in Thread : Now(t) = "starting" => phase = "done"
    <3> SUFFICES ASSUME NEW t \in Thread PROVE Now(t) = "starting" => phase = "done"
      OBVIOUS
    <3>1. ThreadInv(t, todo[t]) /\ Now(t) = todo[t][1]
      BY <1>1, AnyThread, ZenonT(20) DEF IInv, Threads
    <3> QED BY <3>1 DEF ThreadInv
  <2>3. tasks = markers + (IF sw = "none" THEN 0 ELSE 1) + Cardinality(Drivers)
    BY ZenonT(20), <1>1, <2>1, OneDriver DEF Counting
  <2> QED BY <2>1, <2>2, <2>3 DEF Counting, Phases, TasksAreExact
<1> QED BY <1>1, Invariance, PTL

\* Whoever collects, iterates, scavenges or marks roots holds the tasks that
\* would disturb it, and so does the shutdown of the group.
THEOREM TasksStayHeld == Spec => []TasksAreHeld
<1>1. ASSUME IInv PROVE TasksAreHeld
  <2>1. ASSUME NEW t \in Thread
        PROVE  /\ Now(t) \in {"collecting", "iterating"} => Live = {} /\ sw = "none"
               /\ paused /\ Now(t) \in {"cards", "sweepWait", "resume"} => Live = Yielded
    <3>1. ThreadInv(t, todo[t]) /\ Now(t) = todo[t][1]
      BY <1>1, AnyThread, Zenon DEF IInv, Threads
    <3>2. Now(t) \in {"cards", "sweepWait", "resume"} /\ paused => Pausing(todo[t])
      <4>1. Now(t) \in {"cards", "sweepWait", "resume"} => Now(t) \notin Outside
        BY DEF Outside
      <4> QED BY <1>1, <4>1, Inside
    <3> QED BY ZenonT(20), <3>1, <3>2 DEF ThreadInv
  <2>2. ASSUME NEW i \in MarkerTask, mt[i] \in {"counted", "roots"}
        PROVE  owner # NoThread /\ \A t \in Thread \ {owner} : AtSafepoint(t)
    <3>1. Rooting(i) /\ Holding /\ owner \in Thread \cup {NoThread}
      BY <1>1, <2>2 DEF Rooting, IInv, Types
    <3>2. owner # NoThread /\ owner \in Thread
      BY <3>1 DEF Holding
    <3>3. todo[owner][1] \in RootPCs /\ Now(owner) = todo[owner][1]
      BY <1>1, <3>1, <3>2, AnyThread, ZenonT(20) DEF Holding, HoldsRoots
    <3>4. Now(owner) # "stopping"
      BY <3>3 DEF RootPCs
    <3> QED BY <3>1, <3>2, <3>4 DEF Holding
  <2>3. shut = "gone" => Live = {} /\ sw = "none"
    BY <1>1 DEF IInv, Holding
  <2> QED BY ZenonT(20), <2>1, <2>2, <2>3 DEF TasksAreHeld
<1> QED BY <1>1, Invariance, PTL

\* Whoever sleeps on tasks_lock_ still has something to wait for.
THEOREM NoWakeupIsLost == Spec => []NoLostWakeup
<1>1. IInv => NoLostWakeup
  BY DEF IInv
<1> QED BY <1>1, Invariance, PTL

=============================================================================
