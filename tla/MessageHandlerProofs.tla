------------------------ MODULE MessageHandlerProofs ------------------------
(***************************************************************************)
(* The one task of a message handler, its queues, its interrupts and its   *)
(* deletion are in order, for any number of messages posted and any depth  *)
(* of calls of HandleMessages inside each other.                           *)
(***************************************************************************)
EXTENDS MessageHandler, WellFoundedInduction, TLAPS

(* A leaf that names no prover is tried with the SMT solver, then Zenon.   *)
USE SMTT(30), Z3T(30), ZenonT(20)

-----------------------------------------------------------------------------
(* The inductive invariant. *)

\* The types, in groups of variables.
QueueTypes ==
  /\ queue \in Seq(Message) /\ oob \in 0 .. MaxOOB
  /\ posted \in 0 .. MaxPosts /\ postedOOB \in 0 .. MaxOOB

PausingTypes ==
  /\ paused \in 0 .. MaxPaused
  /\ shouldPause \in [start : BOOLEAN, exit : BOOLEAN]
  /\ isPaused \in [start : BOOLEAN, exit : BOOLEAN]
  /\ remembered \in Status

TaskTypes ==
  /\ taskRunning \in BOOLEAN /\ pool \in BOOLEAN
  /\ endCallback \in {"none", "RunLoopDone", "ShutdownIsolate"}
  /\ scheduled \in Nat
  /\ tpc \in {"none", "notifyStart", "onStart", "onExit", "main",
              "notifyExit", "afterExit", "endCallback", "delete"}

FrameTypes ==
  /\ frames \in Seq(Frame) /\ Len(frames) <= MaxDepth
  /\ interrupt \in {"noThread", "clear", "pending"}
  /\ notifying \in {"none", "normal", "oob"}

LifeTypes ==
  /\ kind \in {"isolate", "native"}
  /\ deleted \in BOOLEAN /\ deleteMe \in BOOLEAN
  /\ open \in BOOLEAN /\ live \in BOOLEAN
  /\ owner \in {"owns", "outside", "creating", "runLoop", "gone"}
  /\ closer \in {"none", "request", "delete", "done"}
  /\ shutdown \in {"none", "finalizers", "closePorts", "closeAllPorts",
                   "delete", "done"}

Types == QueueTypes /\ PausingTypes /\ TaskTypes /\ FrameTypes /\ LifeTypes

\* Where TaskCallback calls HandleMessages, and where its task is running.
CallPCs == {"onStart", "onExit", "main", "afterExit"}
ActivePCs == CallPCs \cup {"notifyStart", "notifyExit"}

\* The queues hold what was posted, in order.
Queueing ==
  /\ oob <= postedOOB
  /\ \A i \in 1 .. Len(queue) :
       queue[i].id <= posted /\ (queue[i].before => queue[i].lib)
  /\ EventsInOrder

\* A task runs while the handler is on a pool, and the owner has let go of
\* the handler then; the end callback is the one that gives it back.
Tasking ==
  /\ taskRunning => pool
  /\ pool => owner \in {"runLoop", "gone"}
  /\ tpc \in {"endCallback", "delete"} => ~pool
  /\ owner \in {"owns", "outside", "creating"} => tpc = "none"
  /\ tpc = "endCallback" => endCallback # "none"
  /\ pool \/ tpc = "endCallback" =>
       /\ endCallback = "RunLoopDone" => owner = "runLoop"
       /\ endCallback = "ShutdownIsolate" => owner = "gone"
       /\ endCallback = "none" => kind = "native"

\* HandleMessages is called by TaskCallback or by the owner of an isolate.
\* A task that handles messages goes on until there are none, and one that
\* is paused says so.
Calling ==
  /\ tpc \in CallPCs => frames # <<>>
  /\ frames # <<>> => tpc \in CallPCs \/ owner = "owns"
  /\ tpc = "main" => frames[1].normal /\ frames[1].multi
  /\ tpc = "onStart" => isPaused.start
  /\ tpc \in {"onExit", "afterExit"} => isPaused.exit

\* A native port's handler has no out-of-band messages, is not paused, has
\* no end callback, and does not fail.
Native ==
  IF kind = "isolate"
  THEN owner # "creating"
  ELSE /\ oob = 0 /\ notifying # "oob"
       /\ endCallback = "none" /\ shutdown = "none"
       /\ owner \in {"creating", "gone"}
       /\ tpc \in {"none", "main", "delete"}
       /\ ~isPaused.exit
       /\ Len(frames) <= 1
       /\ frames # <<>> =>
            Top.message # "oob" /\ Top.status = kOK /\ Top.result = kOK

\* A handler is deleted in steps that leave less and less of it in use.
Deleting ==
  /\ owner = "creating" => notifying = "none"
  /\ shutdown # "none" =>
       owner = "gone" /\ tpc = "none" /\ ~pool /\ closer = "none"
  /\ shutdown \in {"closeAllPorts", "delete", "done"} =>
       ~open /\ notifying = "none"
  /\ closer # "none" =>
       kind = "native" /\ ~open /\ notifying = "none" /\ owner = "gone"
  /\ closer = "delete" => ~taskRunning
  /\ deleteMe => closer = "done" /\ (taskRunning \/ tpc = "delete" \/ deleted)
  /\ tpc = "delete" => deleteMe
  /\ deleted =>
       \/ kind = "isolate" /\ shutdown = "done"
       \/ kind = "native" /\ closer = "done" /\ ~taskRunning /\ tpc = "none"

\* An isolate without a Thread has not been entered: not by its owner, and by
\* no task but one that waits in StartIsolateScope.
Entered ==
  kind = "isolate" /\ interrupt = "noThread" =>
    /\ owner # "owns"
    /\ frames # <<>> => Len(frames) = 1 /\ Top.pc = "start" /\ Top.message = "none"

\* An out-of-band message that is queued while a normal one is handled found
\* a Thread, and its interrupt is not dropped.
Interrupting ==
  /\ Entered
  /\ frames # <<>> /\ Top.message = "normal" /\ oob > 0 =>
       interrupt = "pending" \/ notifying = "oob"

IInv ==
  /\ Types
  /\ Queueing
  /\ OneTask
  /\ Tasking
  /\ Calling
  /\ NoStrandedMessage
  /\ Native
  /\ Deleting
  /\ Interrupting

-----------------------------------------------------------------------------
(* The calls of HandleMessages. *)

\* The beginning of a sequence.
LEMMA Prefix ==
  ASSUME NEW S, NEW s \in Seq(S), NEW n \in 0 .. Len(s)
  PROVE  /\ SubSeq(s, 1, n) \in Seq(S) /\ Len(SubSeq(s, 1, n)) = n
         /\ \A i \in 1 .. n : SubSeq(s, 1, n)[i] = s[i]
<1>1. SubSeq(s, 1, n) \in Seq(S)
  OBVIOUS
<1>2. Len(SubSeq(s, 1, n)) = n
  OBVIOUS
<1>3. \A i \in 1 .. n : SubSeq(s, 1, n)[i] = s[i]
  OBVIOUS
<1> QED  BY <1>1, <1>2, <1>3

\* The stack is empty if no call is open.
LEMMA EmptyStack ==
  ASSUME NEW s \in Seq(Frame)
  PROVE  s = <<>> <=> Len(s) = 0
OBVIOUS

\* Each of them is a frame.
LEMMA CallIsFrame ==
  ASSUME NEW s \in Seq(Frame), NEW i \in 1 .. Len(s)
  PROVE  s[i] \in Frame
OBVIOUS

\* A new call is the innermost one.
LEMMA Push ==
  ASSUME NEW s \in Seq(Frame), NEW f \in Frame, NEW r, r = Append(s, f)
  PROVE  /\ r \in Seq(Frame) /\ Len(r) = Len(s) + 1 /\ r # <<>>
         /\ r[Len(r)] = f
         /\ s # <<>> => r[1] = s[1]
         /\ s = <<>> => r[1] = f
BY SMT

\* The innermost call goes on with other values of its variables.
LEMMA Replace ==
  ASSUME NEW s \in Seq(Frame), s # <<>>, NEW f \in Frame,
         NEW r, r = Append(SubSeq(s, 1, Len(s) - 1), f)
  PROVE  /\ r \in Seq(Frame) /\ Len(r) = Len(s) /\ r # <<>>
         /\ r[Len(r)] = f
         /\ r[1] = IF Len(s) = 1 THEN f ELSE s[1]
<1> DEFINE n == Len(s) - 1
           b == SubSeq(s, 1, n)
<1>1. n \in 0 .. Len(s) /\ n = Len(s) - 1 /\ Len(s) \in Nat \ {0}
  BY EmptyStack
<1>2. r = Append(b, f)
  OBVIOUS
<1> HIDE DEF n
<1>3. b \in Seq(Frame) /\ Len(b) = n /\ \A i \in 1 .. n : b[i] = s[i]
  BY <1>1, Prefix
<1> HIDE DEF b
<1>4. r \in Seq(Frame) /\ Len(r) = Len(s) /\ r # <<>> /\ r[Len(r)] = f
  BY <1>1, <1>2, <1>3
<1>5. r[1] = IF Len(s) = 1 THEN f ELSE s[1]
  BY <1>1, <1>2, <1>3
<1> QED  BY <1>4, <1>5

\* The innermost call returns to the one below it.
LEMMA Pop ==
  ASSUME NEW s \in Seq(Frame), s # <<>>,
         NEW r, r = SubSeq(s, 1, Len(s) - 1)
  PROVE  /\ r \in Seq(Frame) /\ Len(r) = Len(s) - 1
         /\ r = <<>> <=> Len(s) = 1
         /\ Len(s) > 1 => r[1] = s[1]
<1> DEFINE n == Len(s) - 1
<1>1. n \in 0 .. Len(s) /\ n = Len(s) - 1 /\ Len(s) \in Nat \ {0}
  BY EmptyStack
<1> HIDE DEF n
<1>2. r \in Seq(Frame) /\ Len(r) = n /\ \A i \in 1 .. n : r[i] = s[i]
  BY <1>1, Prefix
<1>3. r = <<>> <=> Len(r) = 0
  BY <1>2, EmptyStack, ZenonT(20)
<1> QED  BY <1>1, <1>2, <1>3

\* A new call is a frame.
LEMMA NewFrameType ==
  ASSUME NEW n \in BOOLEAN, NEW m \in BOOLEAN
  PROVE  /\ NewFrame(n, m) \in Frame
         /\ NewFrame(n, m).message = "none" /\ NewFrame(n, m).status = kOK
         /\ NewFrame(n, m).pc = "start"
         /\ NewFrame(n, m).result = kOK
         /\ NewFrame(n, m).normal = n /\ NewFrame(n, m).multi = m
BY DEF NewFrame, Frame, Status, kOK, kShutdown

\* The only call.
LEMMA Single ==
  ASSUME NEW f \in Frame, NEW r, r = <<f>>
  PROVE  /\ r \in Seq(Frame) /\ Len(r) = 1 /\ r # <<>>
         /\ r[Len(r)] = f /\ r[1] = f
BY SMT

-----------------------------------------------------------------------------
(* The queue of normal messages. *)

\* A set of numbers that is not empty has a least member.
LEMMA Least ==
  ASSUME NEW K \in SUBSET Nat, K # {}
  PROVE  \E k \in K : \A j \in K : k <= j
<1> DEFINE R == OpToRel(<, Nat)
<1>1. IsWellFoundedOn(R, Nat)
  BY NatLessThanWellFounded, Zenon
<1>2. \A j, k \in Nat : j < k => <<j, k>> \in R
  BY DEF OpToRel
<1> HIDE DEF R
<1>3. PICK k \in K : \A j \in K : ~ (<<j, k>> \in R)
  BY <1>1, WFMin, Zenon
<1>4. \A j \in K : j \in Nat /\ k \in Nat /\ ~ (j < k)
  BY <1>2, <1>3, Zenon
<1> QED  BY <1>4

\* Where the isolate library's messages at the head of the queue end.
EndsLib(q, i) == (\A j \in 1 .. i : q[j].lib) /\ (i = Len(q) \/ ~q[i + 1].lib)

\* They end somewhere.
LEMMA LibEnds ==
  ASSUME NEW q \in Seq(Message)
  PROVE  \E i \in 0 .. Len(q) : EndsLib(q, i)
<1> DEFINE K == {i \in 0 .. Len(q) : i = Len(q) \/ ~q[i + 1].lib}
<1>1. K \in SUBSET Nat /\ Len(q) \in K
  OBVIOUS
<1>2. PICK k \in K : \A j \in K : k <= j
  <2> HIDE DEF K
  <2> QED  BY <1>1, Least, Zenon
<1>3. ASSUME NEW j \in 1 .. k  PROVE q[j].lib
  <2>1. j - 1 \in 0 .. Len(q) /\ j - 1 # Len(q) /\ j - 1 < k /\ (j - 1) + 1 = j
    BY <1>2, <1>3
  <2>2. j - 1 \notin K
    <3> HIDE DEF K
    <3> QED  BY <2>1, <1>1, <1>2
  <2> QED  BY <2>1, <2>2
<1> QED  BY <1>2, <1>3 DEF EndsLib

\* A queue in the order of posting of messages posted up to n.
InOrder(q, n) ==
  /\ \A i \in 1 .. Len(q) : q[i].id <= n /\ (q[i].before => q[i].lib)
  /\ \A i, j \in 1 .. Len(q) : i < j =>
       /\ q[i].before = q[j].before => q[i].id < q[j].id
       /\ q[j].before => q[i].lib

\* An event goes to the end of the queue.
LEMMA AppendKeepsOrder ==
  ASSUME NEW q \in Seq(Message), NEW n \in Nat, InOrder(q, n),
         NEW m \in Message, m.id = n + 1, ~m.before,
         NEW r, r = Append(q, m)
  PROVE  r \in Seq(Message) /\ InOrder(r, n + 1)
<1>1. /\ r \in Seq(Message) /\ Len(r) = Len(q) + 1 /\ r[Len(q) + 1] = m
      /\ \A i \in 1 .. Len(q) : r[i] = q[i] /\ q[i] \in Message
  OBVIOUS
<1>2. \A i \in 1 .. Len(r) : i \in 1 .. Len(q) \/ i = Len(q) + 1
  BY <1>1
<1>3. ASSUME NEW i \in 1 .. Len(r)
      PROVE  r[i].id <= n + 1 /\ (r[i].before => r[i].lib)
  BY <1>1, <1>2 DEF InOrder, Message
<1>4. ASSUME NEW i \in 1 .. Len(r), NEW j \in 1 .. Len(r), i < j
      PROVE  /\ r[i].before = r[j].before => r[i].id < r[j].id
             /\ r[j].before => r[i].lib
  <2>1. i \in 1 .. Len(q) /\ q[i].id \in Nat
    BY <1>1, <1>2, <1>4 DEF Message
  <2>2. CASE j \in 1 .. Len(q)
    BY ZenonT(20), <2>1, <2>2, <1>1, <1>4 DEF InOrder
  <2>3. CASE j = Len(q) + 1
    BY <2>1, <2>3, <1>1 DEF InOrder
  <2> QED  BY <2>2, <2>3, <1>2
<1> QED  BY <1>1, <1>3, <1>4 DEF InOrder

\* A message between two parts of a queue.
LEMMA Between ==
  ASSUME NEW S, NEW a \in Seq(S), NEW m \in S, NEW b \in Seq(S)
  PROVE  /\ a \o <<m>> \o b \in Seq(S)
         /\ Len(a \o <<m>> \o b) = Len(a) + 1 + Len(b)
         /\ (a \o <<m>> \o b)[Len(a) + 1] = m
         /\ \A i \in 1 .. Len(a) : (a \o <<m>> \o b)[i] = a[i]
         /\ \A i \in 1 .. Len(b) : (a \o <<m>> \o b)[Len(a) + 1 + i] = b[i]
<1> DEFINE c == a \o <<m>>
<1>1. c \in Seq(S) /\ Len(c) = Len(a) + 1 /\ c[Len(a) + 1] = m
  OBVIOUS
<1>2. \A i \in 1 .. Len(a) : c[i] = a[i]
  OBVIOUS
<1> HIDE DEF c
<1>3. c \o b \in Seq(S) /\ Len(c \o b) = Len(c) + Len(b)
  BY <1>1
<1>4. \A i \in 1 .. Len(c) : (c \o b)[i] = c[i]
  BY <1>1
<1>5. \A i \in 1 .. Len(b) : (c \o b)[Len(c) + i] = b[i]
  BY <1>1
<1>6. Len(a) + 1 \in 1 .. Len(c) /\ Len(a) \in Nat /\ \A i \in 1 .. Len(a) : i \in 1 .. Len(c)
  BY <1>1
<1>7. /\ c \o b \in Seq(S)
      /\ Len(c \o b) = Len(a) + 1 + Len(b)
      /\ (c \o b)[Len(a) + 1] = m
      /\ \A i \in 1 .. Len(a) : (c \o b)[i] = a[i]
      /\ \A i \in 1 .. Len(b) : (c \o b)[Len(a) + 1 + i] = b[i]
  BY <1>1, <1>2, <1>3, <1>4, <1>5, <1>6, Zenon
<1> QED  BY <1>7 DEF c

\* A queue with a message after the isolate library's messages at its head.
LEMMA InsertedInOrder ==
  ASSUME NEW q \in Seq(Message), NEW n \in Nat, InOrder(q, n),
         NEW m \in Message, m.id = n + 1, m.lib, m.before,
         NEW k \in 0 .. Len(q), EndsLib(q, k),
         NEW r \in Seq(Message), Len(r) = Len(q) + 1, r[k + 1] = m,
         \A i \in 1 .. k : r[i] = q[i],
         \A i \in k + 2 .. Len(q) + 1 : r[i] = q[i - 1]
  PROVE  InOrder(r, n + 1)
<1>1. \A i \in 1 .. Len(q) : q[i].id \in Nat /\ q[i].id <= n /\ q[i].id < n + 1
                           /\ (q[i].before => q[i].lib)
  <2> SUFFICES ASSUME NEW i \in 1 .. Len(q)
               PROVE  q[i].id \in Nat /\ q[i].id <= n /\ q[i].id < n + 1
                      /\ (q[i].before => q[i].lib)
    OBVIOUS
  <2>1. q[i] \in Message
    OBVIOUS
  <2>2. q[i].id \in Nat
    BY ONLY <2>1, HandlerConstants DEF Message
  <2>3. q[i].id <= n /\ (q[i].before => q[i].lib)
    BY DEF InOrder
  <2> QED  BY <2>2, <2>3
<1>2. ASSUME NEW i \in k + 1 .. Len(q)  PROVE ~q[i].before
  <2>1. k + 1 \in 1 .. Len(q) /\ ~q[k + 1].lib /\ ~q[k + 1].before
    BY DEF EndsLib, InOrder
  <2> QED  BY <2>1, <1>2 DEF InOrder
<1>3. \A i \in 1 .. k : q[i].lib
  BY DEF EndsLib
<1>4. ASSUME NEW i \in 1 .. Len(r)
      PROVE  \/ i \in 1 .. k /\ i \in 1 .. Len(q) /\ r[i] = q[i]
             \/ i = k + 1 /\ r[i] = m
             \/ /\ i \in k + 2 .. Len(q) + 1 /\ i - 1 \in k + 1 .. Len(q)
                /\ i - 1 \in 1 .. Len(q) /\ r[i] = q[i - 1]
  OBVIOUS
<1>5. ASSUME NEW i \in 1 .. Len(r)
      PROVE  r[i].id <= n + 1 /\ (r[i].before => r[i].lib)
  <2>1. CASE i \in 1 .. Len(q) /\ r[i] = q[i]
    BY <2>1, <1>1
  <2>2. CASE r[i] = m
    BY <2>2
  <2>3. CASE i - 1 \in 1 .. Len(q) /\ r[i] = q[i - 1]
    BY <2>3, <1>1
  <2> QED  BY <2>1, <2>2, <2>3, <1>4
<1>6. ASSUME NEW i \in 1 .. Len(r), NEW j \in 1 .. Len(r), i < j
      PROVE  /\ r[i].before = r[j].before => r[i].id < r[j].id
             /\ r[j].before => r[i].lib
  <2>1. CASE i = k + 1
    BY <2>1, <1>2, <1>4, <1>6
  <2>2. CASE i \in k + 2 .. Len(q) + 1
    <3>1. j \in k + 2 .. Len(q) + 1 /\ i - 1 < j - 1
      BY <2>2, <1>6
    <3>2. /\ r[i] = q[i - 1] /\ i - 1 \in k + 1 .. Len(q) /\ i - 1 \in 1 .. Len(q)
          /\ r[j] = q[j - 1] /\ j - 1 \in k + 1 .. Len(q) /\ j - 1 \in 1 .. Len(q)
      BY <2>2, <3>1
    <3>3. ~q[i - 1].before /\ ~q[j - 1].before
      BY <3>2, <1>2
    <3> QED  BY <3>1, <3>2, <3>3, ZenonT(20) DEF InOrder
  <2>3. CASE i \in 1 .. k
    <3>1. CASE j = k + 1
      <4>1. r[i] = q[i] /\ r[j] = m /\ i \in 1 .. Len(q)
        BY <3>1, <2>3
      <4> QED  BY <4>1, <2>3, <1>1, <1>3
    <3>2. CASE j \in 1 .. k
      <4>1. r[i] = q[i] /\ r[j] = q[j] /\ i \in 1 .. Len(q) /\ j \in 1 .. Len(q)
        BY <3>2, <2>3
      <4> QED  BY <4>1, <1>6 DEF InOrder
    <3>3. CASE j \in k + 2 .. Len(q) + 1
      <4>1. i \in 1 .. Len(q) /\ j - 1 \in 1 .. Len(q) /\ i < j - 1
        BY <3>3, <2>3
      <4> QED  BY <4>1, <3>3, <2>3, ZenonT(20) DEF InOrder
    <3> QED  BY <3>1, <3>2, <3>3
  <2> QED  BY <2>1, <2>2, <2>3
<1> QED  BY <1>5, <1>6 DEF InOrder

\* A message before the events goes to the end of the isolate library's
\* messages at the head of the queue.
LEMMA InsertKeepsOrder ==
  ASSUME NEW q \in Seq(Message), NEW n \in Nat, InOrder(q, n),
         NEW m \in Message, m.id = n + 1, m.lib, m.before,
         NEW k \in 0 .. Len(q), EndsLib(q, k),
         NEW r, r = SubSeq(q, 1, k) \o <<m>> \o SubSeq(q, k + 1, Len(q))
  PROVE  r \in Seq(Message) /\ InOrder(r, n + 1)
<1> DEFINE a == SubSeq(q, 1, k)
           b == SubSeq(q, k + 1, Len(q))
<1>a. a \in Seq(Message) /\ Len(a) = k /\ \A i \in 1 .. k : a[i] = q[i]
  BY Prefix
<1>b. b \in Seq(Message)
  OBVIOUS
<1>c. Len(b) = Len(q) - k
  OBVIOUS
<1>d. \A i \in 1 .. Len(q) - k : b[i] = q[k + i]
  OBVIOUS
<1>e. r = a \o <<m>> \o b
  OBVIOUS
<1> HIDE DEF a, b
<1>f. /\ r \in Seq(Message) /\ Len(r) = k + 1 + Len(b) /\ r[k + 1] = m
      /\ \A i \in 1 .. k : r[i] = a[i]
      /\ \A i \in 1 .. Len(b) : r[k + 1 + i] = b[i]
  <2>1. /\ r \in Seq(Message) /\ Len(r) = Len(a) + 1 + Len(b) /\ r[Len(a) + 1] = m
        /\ \A i \in 1 .. Len(a) : r[i] = a[i]
        /\ \A i \in 1 .. Len(b) : r[Len(a) + 1 + i] = b[i]
    <3> DEFINE c == a \o <<m>> \o b
    <3>1. /\ c \in Seq(Message) /\ Len(c) = Len(a) + 1 + Len(b) /\ c[Len(a) + 1] = m
          /\ \A i \in 1 .. Len(a) : c[i] = a[i]
          /\ \A i \in 1 .. Len(b) : c[Len(a) + 1 + i] = b[i]
      <4>1. a \in Seq(Message) /\ b \in Seq(Message) /\ m \in Message
        BY <1>a, <1>b
      <4> QED  BY ONLY <4>1, Between
    <3> HIDE DEF c
    <3>2. r = c
      BY <1>e, Zenon DEF c
    <3> QED  BY ONLY <3>1, <3>2, Zenon
  <2> QED  BY ONLY <2>1, <1>a, Zenon
<1>1. r \in Seq(Message) /\ Len(r) = Len(q) + 1 /\ r[k + 1] = m
  BY ONLY <1>c, <1>f, k \in 0 .. Len(q), q \in Seq(Message)
<1>2. \A i \in 1 .. k : r[i] = q[i]
  BY ONLY <1>a, <1>f, Zenon
<1>3. ASSUME NEW i \in k + 2 .. Len(q) + 1  PROVE r[i] = q[i - 1]
  <2>1. PICK j \in 1 .. Len(q) - k : i = k + 1 + j /\ i - 1 = k + j
    <3>1. i - k - 1 \in 1 .. Len(q) - k /\ i = k + 1 + (i - k - 1) /\ i - 1 = k + (i - k - 1)
      OBVIOUS
    <3> QED  BY <3>1
  <2> QED  BY ONLY <2>1, <1>c, <1>d, <1>f, Zenon
<1> QED
  BY ONLY <1>1, <1>2, <1>3, InsertedInOrder, n \in Nat, InOrder(q, n), EndsLib(q, k),
          q \in Seq(Message), m \in Message, m.id = n + 1, m.lib, m.before,
          k \in 0 .. Len(q), Zenon

\* MessageQueue's Enqueue keeps the order of posting.
LEMMA EnqueueKeepsOrder ==
  ASSUME NEW q \in Seq(Message), NEW n \in Nat, InOrder(q, n),
         NEW m \in Message, m.id = n + 1, m.before => m.lib
  PROVE  Enqueue(q, m) \in Seq(Message) /\ InOrder(Enqueue(q, m), n + 1)
<1> DEFINE k == CHOOSE i \in 0 .. Len(q) : /\ \A j \in 1 .. i : q[j].lib
                                           /\ i = Len(q) \/ ~q[i + 1].lib
<1>1. k \in 0 .. Len(q) /\ EndsLib(q, k)
  BY LibEnds, Zenon DEF EndsLib
<1>2. Enqueue(q, m) = IF m.before
                      THEN SubSeq(q, 1, k) \o <<m>> \o SubSeq(q, k + 1, Len(q))
                      ELSE Append(q, m)
  BY DEF Enqueue
<1> HIDE DEF k
<1>3. CASE m.before
  BY <1>1, <1>2, <1>3, InsertKeepsOrder, Zenon
<1>4. CASE ~m.before
  BY <1>2, <1>4, AppendKeepsOrder, ZenonT(20)
<1> QED  BY <1>3, <1>4

\* The first message is taken from the queue.
LEMMA TailKeepsOrder ==
  ASSUME NEW q \in Seq(Message), q # <<>>, NEW n \in Nat, InOrder(q, n)
  PROVE  Tail(q) \in Seq(Message) /\ InOrder(Tail(q), n)
<1>1. /\ Tail(q) \in Seq(Message) /\ Len(Tail(q)) = Len(q) - 1
      /\ \A i \in 1 .. Len(q) - 1 : Tail(q)[i] = q[i + 1] /\ i + 1 \in 1 .. Len(q)
  OBVIOUS
<1> QED  BY <1>1 DEF InOrder

\* No queue is out of order when it is empty.
LEMMA ClearQueuesInv ==
  ASSUME QueueTypes, ClearQueues
  PROVE  QueueTypes' /\ Queueing'
<1>1. queue' = <<>> /\ oob' = 0 /\ posted' = posted /\ postedOOB' = postedOOB
  BY DEF ClearQueues
<1>2. Len(queue') = 0 /\ queue' \in Seq(Message)
  BY <1>1
<1>3. oob' \in 0 .. MaxOOB /\ oob' <= postedOOB'
  BY <1>1, HandlerConstants DEF QueueTypes
<1>4. 1 .. Len(queue') = {}
  BY <1>2
<1> QED  BY <1>1, <1>2, <1>3, <1>4 DEF QueueTypes, Queueing, EventsInOrder

-----------------------------------------------------------------------------
(* The steps that leave the calls of HandleMessages as they are. *)

\* A poster leaves MessageNotify.
LEMMA MessageNotifyInv ==
  ASSUME IInv, MessageNotify
  PROVE  IInv'
<1>0. Types /\ Queueing /\ OneTask /\ Tasking /\ Calling
      /\ NoStrandedMessage /\ Native /\ Deleting /\ Interrupting
  BY DEF IInv
<1>1. Types'
  <2>1. QueueTypes'
    BY <1>0 DEF Types, QueueTypes, MessageNotify, queues
  <2>2. PausingTypes'
    BY <1>0 DEF Types, PausingTypes, MessageNotify, pausing
  <2>3. TaskTypes'
    BY <1>0 DEF Types, TaskTypes, MessageNotify, task
  <2>4. FrameTypes'
    BY <1>0 DEF Types, FrameTypes, MessageNotify
  <2>5. LifeTypes'
    BY <1>0 DEF Types, LifeTypes, MessageNotify, life
  <2> QED  BY <2>1, <2>2, <2>3, <2>4, <2>5 DEF Types
<1>2. Queueing'
  BY <1>0 DEF Queueing, EventsInOrder, MessageNotify, queues
<1>3. OneTask'
  BY <1>0 DEF OneTask, MessageNotify, task
<1>4. Tasking'
  BY <1>0 DEF Tasking, MessageNotify, task, life
<1>5. Calling'
  BY <1>0 DEF Calling, CallPCs, MessageNotify, pausing, task, life
<1>6. NoStrandedMessage'
  BY <1>0 DEF NoStrandedMessage, MessageNotify, queues, pausing, task
<1>7. Native'
  BY <1>0 DEF Native, Top, MessageNotify, queues, pausing, task, life
<1>8. Deleting'
  BY <1>0 DEF Deleting, MessageNotify, task, life
<1>9. Interrupting'
  <2>1. UNCHANGED <<kind, oob, frames, owner>> /\ Top' = Top
    BY DEF MessageNotify, queues, life, Top
  <2>2. Entered'
    BY <1>0, <2>1 DEF Interrupting, Entered, MessageNotify
  <2>3. ASSUME frames # <<>>, Top.message = "normal", oob > 0
        PROVE  interrupt' = "pending"
    <3>1. kind = "isolate"
      BY <1>0, <2>3 DEF Native
    <3>2. interrupt # "noThread"
      BY <1>0, <2>3, <3>1 DEF Interrupting, Entered
    <3> QED  BY <1>0, <2>3, <3>2 DEF Interrupting, MessageNotify
  <2> QED  BY <2>1, <2>2, <2>3 DEF Interrupting
<1> QED  BY <1>1, <1>2, <1>3, <1>4, <1>5, <1>6, <1>7, <1>8, <1>9 DEF IInv

\* The end callback gives the isolate back or starts its shutdown.
LEMMA EndCallbackInv ==
  ASSUME IInv, EndCallback
  PROVE  IInv'
<1>0. Types /\ Queueing /\ OneTask /\ Tasking /\ Calling
      /\ NoStrandedMessage /\ Native /\ Deleting /\ Interrupting
  BY DEF IInv
<1>1. Types'
  <2>1. QueueTypes'
    BY <1>0 DEF Types, QueueTypes, EndCallback, queues
  <2>2. PausingTypes'
    BY <1>0 DEF Types, PausingTypes, EndCallback, pausing
  <2>3. TaskTypes'
    BY <1>0 DEF Types, TaskTypes, EndCallback
  <2>4. FrameTypes'
    BY <1>0 DEF Types, FrameTypes, EndCallback, Enter
  <2>5. LifeTypes'
    BY <1>0 DEF Types, LifeTypes, EndCallback
  <2> QED  BY <2>1, <2>2, <2>3, <2>4, <2>5 DEF Types
<1>2. Queueing'
  BY <1>0 DEF Queueing, EventsInOrder, EndCallback, queues
<1>3. OneTask'
  BY <1>0 DEF OneTask, EndCallback
<1>4. Tasking'
  BY <1>0 DEF Tasking, EndCallback
<1>5. Calling'
  BY <1>0 DEF Calling, CallPCs, Tasking, EndCallback, pausing
<1>6. NoStrandedMessage'
  BY <1>0 DEF NoStrandedMessage, EndCallback, queues, pausing
<1>7. Native'
  BY <1>0 DEF Native, Top, EndCallback, queues, pausing
<1>8. Deleting'
  BY <1>0 DEF Deleting, Tasking, Native, EndCallback
<1>9. Interrupting'
  <2>1. frames = <<>> /\ frames' = <<>>
    BY <1>0 DEF Calling, CallPCs, Tasking, EndCallback
  <2>2. owner' # "owns"
    BY <1>0 DEF Tasking, EndCallback
  <2> QED  BY <2>1, <2>2 DEF Interrupting, Entered
<1> QED  BY <1>1, <1>2, <1>3, <1>4, <1>5, <1>6, <1>7, <1>8, <1>9 DEF IInv

\* The owner shuts the isolate down.
LEMMA ShutdownIsolateInv ==
  ASSUME IInv, ShutdownIsolate
  PROVE  IInv'
<1>0. Types /\ Queueing /\ OneTask /\ Tasking /\ Calling
      /\ NoStrandedMessage /\ Native /\ Deleting /\ Interrupting
  BY DEF IInv
<1>1. Types'
  <2>1. QueueTypes'
    BY <1>0 DEF Types, QueueTypes, ShutdownIsolate, queues
  <2>2. PausingTypes'
    BY <1>0 DEF Types, PausingTypes, ShutdownIsolate, pausing
  <2>3. TaskTypes'
    BY <1>0 DEF Types, TaskTypes, ShutdownIsolate, task
  <2>4. FrameTypes'
    BY <1>0 DEF Types, FrameTypes, ShutdownIsolate
  <2>5. LifeTypes'
    BY <1>0 DEF Types, LifeTypes, ShutdownIsolate
  <2> QED  BY <2>1, <2>2, <2>3, <2>4, <2>5 DEF Types
<1>2. Queueing'
  BY <1>0 DEF Queueing, EventsInOrder, ShutdownIsolate, queues
<1>3. OneTask'
  BY <1>0 DEF OneTask, ShutdownIsolate, task
<1>4. Tasking'
  BY <1>0 DEF Tasking, ShutdownIsolate, task
<1>5. Calling'
  BY <1>0 DEF Calling, CallPCs, ShutdownIsolate, pausing, task
<1>6. NoStrandedMessage'
  BY <1>0 DEF NoStrandedMessage, ShutdownIsolate, queues, pausing, task
<1>7. Native'
  BY <1>0 DEF Native, Top, Deleting, ShutdownIsolate, queues, pausing, task
<1>8. Deleting'
  BY <1>0 DEF Deleting, Tasking, Native, ShutdownIsolate, task
<1>9. Interrupting'
  BY <1>0 DEF Interrupting, Entered, Top, ShutdownIsolate, queues
<1> QED  BY <1>1, <1>2, <1>3, <1>4, <1>5, <1>6, <1>7, <1>8, <1>9 DEF IInv

\* Finalizers forget the isolate.
LEMMA CleanupFinalizersInv ==
  ASSUME IInv, CleanupFinalizers
  PROVE  IInv'
<1>0. Types /\ Queueing /\ OneTask /\ Tasking /\ Calling
      /\ NoStrandedMessage /\ Native /\ Deleting /\ Interrupting
  BY DEF IInv
<1>1. Types'
  <2>1. QueueTypes'
    BY <1>0 DEF Types, QueueTypes, CleanupFinalizers, ShutdownUnchanged,
         queues
  <2>2. PausingTypes'
    BY <1>0 DEF Types, PausingTypes, CleanupFinalizers, ShutdownUnchanged,
         pausing
  <2>3. TaskTypes'
    BY <1>0 DEF Types, TaskTypes, CleanupFinalizers, ShutdownUnchanged, task
  <2>4. FrameTypes'
    BY <1>0 DEF Types, FrameTypes, CleanupFinalizers, ShutdownUnchanged
  <2>5. LifeTypes'
    BY <1>0 DEF Types, LifeTypes, CleanupFinalizers, ShutdownUnchanged
  <2> QED  BY <2>1, <2>2, <2>3, <2>4, <2>5 DEF Types
<1>2. Queueing'
  BY <1>0 DEF Queueing, EventsInOrder, CleanupFinalizers, ShutdownUnchanged,
       queues
<1>3. OneTask'
  BY <1>0 DEF OneTask, CleanupFinalizers, ShutdownUnchanged, task
<1>4. Tasking'
  BY <1>0 DEF Tasking, CleanupFinalizers, ShutdownUnchanged, task
<1>5. Calling'
  BY <1>0 DEF Calling, CallPCs, CleanupFinalizers, ShutdownUnchanged, pausing,
       task
<1>6. NoStrandedMessage'
  BY <1>0 DEF NoStrandedMessage, CleanupFinalizers, ShutdownUnchanged, queues,
       pausing, task
<1>7. Native'
  BY <1>0 DEF Native, Top, Deleting, CleanupFinalizers, ShutdownUnchanged,
       queues, pausing, task
<1>8. Deleting'
  BY <1>0 DEF Deleting, Native, CleanupFinalizers, ShutdownUnchanged, task
<1>9. Interrupting'
  BY <1>0 DEF Interrupting, Entered, Top, CleanupFinalizers, ShutdownUnchanged, queues
<1> QED  BY <1>1, <1>2, <1>3, <1>4, <1>5, <1>6, <1>7, <1>8, <1>9 DEF IInv

\* The ports are closed when no poster is in MessageNotify.
LEMMA ClosePortsInv ==
  ASSUME IInv, ClosePorts
  PROVE  IInv'
<1>0. Types /\ Queueing /\ OneTask /\ Tasking /\ Calling
      /\ NoStrandedMessage /\ Native /\ Deleting /\ Interrupting
  BY DEF IInv
<1>1. Types'
  <2>1. QueueTypes'
    BY <1>0 DEF Types, QueueTypes, ClosePorts, ShutdownUnchanged, queues
  <2>2. PausingTypes'
    BY <1>0 DEF Types, PausingTypes, ClosePorts, ShutdownUnchanged, pausing
  <2>3. TaskTypes'
    BY <1>0 DEF Types, TaskTypes, ClosePorts, ShutdownUnchanged, task
  <2>4. FrameTypes'
    BY <1>0 DEF Types, FrameTypes, ClosePorts, ShutdownUnchanged
  <2>5. LifeTypes'
    BY <1>0, ZenonT(20) DEF Types, LifeTypes, ClosePorts, ShutdownUnchanged
  <2> QED  BY <2>1, <2>2, <2>3, <2>4, <2>5 DEF Types
<1>2. Queueing'
  BY <1>0 DEF Queueing, EventsInOrder, ClosePorts, ShutdownUnchanged, queues
<1>3. OneTask'
  BY <1>0 DEF OneTask, ClosePorts, ShutdownUnchanged, task
<1>4. Tasking'
  BY <1>0 DEF Tasking, ClosePorts, ShutdownUnchanged, task
<1>5. Calling'
  BY <1>0 DEF Calling, CallPCs, ClosePorts, ShutdownUnchanged, pausing, task
<1>6. NoStrandedMessage'
  BY <1>0 DEF NoStrandedMessage, ClosePorts, ShutdownUnchanged, queues,
       pausing, task
<1>7. Native'
  BY <1>0 DEF Native, Top, Deleting, ClosePorts, ShutdownUnchanged, queues,
       pausing, task
<1>8. Deleting'
  BY <1>0 DEF Deleting, Native, ClosePorts, ShutdownUnchanged, MutexFree, task
<1>9. Interrupting'
  BY <1>0 DEF Interrupting, Entered, Top, ClosePorts, ShutdownUnchanged, queues
<1> QED  BY <1>1, <1>2, <1>3, <1>4, <1>5, <1>6, <1>7, <1>8, <1>9 DEF IInv

\* The queues are cleared.
LEMMA CloseAllPortsInv ==
  ASSUME IInv, CloseAllPorts
  PROVE  IInv'
<1>0. Types /\ Queueing /\ OneTask /\ Tasking /\ Calling
      /\ NoStrandedMessage /\ Native /\ Deleting /\ Interrupting
  BY DEF IInv
<1>1. Types'
  <2>1. QueueTypes'
    BY <1>0, ClearQueuesInv DEF Types, QueueTypes, CloseAllPorts,
         ShutdownUnchanged, ClearQueues, queues
  <2>2. PausingTypes'
    BY <1>0 DEF Types, PausingTypes, CloseAllPorts, ShutdownUnchanged, pausing
  <2>3. TaskTypes'
    BY <1>0 DEF Types, TaskTypes, CloseAllPorts, ShutdownUnchanged, task
  <2>4. FrameTypes'
    BY <1>0 DEF Types, FrameTypes, CloseAllPorts, ShutdownUnchanged
  <2>5. LifeTypes'
    BY <1>0 DEF Types, LifeTypes, CloseAllPorts, ShutdownUnchanged
  <2> QED  BY <2>1, <2>2, <2>3, <2>4, <2>5 DEF Types
<1>2. Queueing'
  BY <1>0, ClearQueuesInv DEF Queueing, EventsInOrder, Types, CloseAllPorts,
       ShutdownUnchanged, ClearQueues, queues
<1>3. OneTask'
  BY <1>0 DEF OneTask, CloseAllPorts, ShutdownUnchanged, task
<1>4. Tasking'
  BY <1>0 DEF Tasking, CloseAllPorts, ShutdownUnchanged, task
<1>5. Calling'
  BY <1>0 DEF Calling, CallPCs, CloseAllPorts, ShutdownUnchanged, pausing,
       task
<1>6. NoStrandedMessage'
  BY <1>0 DEF NoStrandedMessage, CloseAllPorts, ShutdownUnchanged,
       ClearQueues, queues, pausing, task
<1>7. Native'
  BY <1>0 DEF Native, Top, Deleting, CloseAllPorts, ShutdownUnchanged,
       ClearQueues, queues, pausing, task
<1>8. Deleting'
  BY <1>0 DEF Deleting, Native, CloseAllPorts, ShutdownUnchanged, task
<1>9. Interrupting'
  BY <1>0 DEF Interrupting, Entered, Top, CloseAllPorts, ShutdownUnchanged,
       ClearQueues
<1> QED  BY <1>1, <1>2, <1>3, <1>4, <1>5, <1>6, <1>7, <1>8, <1>9 DEF IInv

\* The isolate deletes its handler.
LEMMA DeleteIsolateHandlerInv ==
  ASSUME IInv, DeleteIsolateHandler
  PROVE  IInv'
<1>0. Types /\ Queueing /\ OneTask /\ Tasking /\ Calling
      /\ NoStrandedMessage /\ Native /\ Deleting /\ Interrupting
  BY DEF IInv
<1>1. Types'
  <2>1. QueueTypes'
    BY <1>0, ClearQueuesInv DEF Types, QueueTypes, DeleteIsolateHandler,
         ShutdownUnchanged, ClearQueues, queues
  <2>2. PausingTypes'
    BY <1>0 DEF Types, PausingTypes, DeleteIsolateHandler, ShutdownUnchanged,
         pausing
  <2>3. TaskTypes'
    BY <1>0 DEF Types, TaskTypes, DeleteIsolateHandler, ShutdownUnchanged,
         task
  <2>4. FrameTypes'
    BY <1>0 DEF Types, FrameTypes, DeleteIsolateHandler, ShutdownUnchanged
  <2>5. LifeTypes'
    BY <1>0 DEF Types, LifeTypes, DeleteIsolateHandler, ShutdownUnchanged
  <2> QED  BY <2>1, <2>2, <2>3, <2>4, <2>5 DEF Types
<1>2. Queueing'
  BY <1>0, ClearQueuesInv DEF Queueing, EventsInOrder, Types,
       DeleteIsolateHandler, ShutdownUnchanged, ClearQueues, queues
<1>3. OneTask'
  BY <1>0 DEF OneTask, DeleteIsolateHandler, ShutdownUnchanged, task
<1>4. Tasking'
  BY <1>0 DEF Tasking, DeleteIsolateHandler, ShutdownUnchanged, task
<1>5. Calling'
  BY <1>0 DEF Calling, CallPCs, DeleteIsolateHandler, ShutdownUnchanged,
       pausing, task
<1>6. NoStrandedMessage'
  BY <1>0 DEF NoStrandedMessage, DeleteIsolateHandler, ShutdownUnchanged,
       ClearQueues, queues, pausing, task
<1>7. Native'
  BY <1>0 DEF Native, Top, Deleting, DeleteIsolateHandler, ShutdownUnchanged,
       ClearQueues, queues, pausing, task
<1>8. Deleting'
  BY <1>0 DEF Deleting, Native, DeleteIsolateHandler, ShutdownUnchanged, task
<1>9. Interrupting'
  <2>1. frames' = <<>> /\ owner' = "gone"
    BY <1>0 DEF Deleting, Calling, CallPCs, DeleteIsolateHandler, ShutdownUnchanged
  <2> QED  BY <2>1 DEF Interrupting, Entered
<1> QED  BY <1>1, <1>2, <1>3, <1>4, <1>5, <1>6, <1>7, <1>8, <1>9 DEF IInv

\* Dart_CloseNativePort closes the port.
LEMMA CloseNativePortInv ==
  ASSUME IInv, CloseNativePort
  PROVE  IInv'
<1>0. Types /\ Queueing /\ OneTask /\ Tasking /\ Calling
      /\ NoStrandedMessage /\ Native /\ Deleting /\ Interrupting
  BY DEF IInv
<1>1. Types'
  <2>1. QueueTypes'
    BY <1>0 DEF Types, QueueTypes, CloseNativePort, queues
  <2>2. PausingTypes'
    BY <1>0 DEF Types, PausingTypes, CloseNativePort, pausing
  <2>3. TaskTypes'
    BY <1>0 DEF Types, TaskTypes, CloseNativePort, task
  <2>4. FrameTypes'
    BY <1>0 DEF Types, FrameTypes, CloseNativePort
  <2>5. LifeTypes'
    BY <1>0, Zenon DEF Types, LifeTypes, CloseNativePort
  <2> QED  BY <2>1, <2>2, <2>3, <2>4, <2>5 DEF Types
<1>2. Queueing'
  BY <1>0 DEF Queueing, EventsInOrder, CloseNativePort, queues
<1>3. OneTask'
  BY <1>0 DEF OneTask, CloseNativePort, task
<1>4. Tasking'
  BY <1>0 DEF Tasking, CloseNativePort, task
<1>5. Calling'
  BY <1>0 DEF Calling, CallPCs, CloseNativePort, pausing, task
<1>6. NoStrandedMessage'
  BY <1>0 DEF NoStrandedMessage, CloseNativePort, queues, pausing, task
<1>7. Native'
  BY <1>0 DEF Native, Top, CloseNativePort, queues, pausing, task
<1>8. Deleting'
  BY <1>0 DEF Deleting, Native, CloseNativePort, MutexFree, task
<1>9. Interrupting'
  BY ZenonT(20), <1>0 DEF Interrupting, Entered, Top, CloseNativePort, queues
<1> QED  BY <1>1, <1>2, <1>3, <1>4, <1>5, <1>6, <1>7, <1>8, <1>9 DEF IInv

\* ... and has the handler deleted by its task or deletes it.
LEMMA RequestDeletionInv ==
  ASSUME IInv, RequestDeletion
  PROVE  IInv'
<1>0. Types /\ Queueing /\ OneTask /\ Tasking /\ Calling
      /\ NoStrandedMessage /\ Native /\ Deleting /\ Interrupting
  BY DEF IInv
<1>1. Types'
  <2>1. QueueTypes'
    BY <1>0 DEF Types, QueueTypes, RequestDeletion, queues
  <2>2. PausingTypes'
    BY <1>0 DEF Types, PausingTypes, RequestDeletion, pausing
  <2>3. TaskTypes'
    BY <1>0 DEF Types, TaskTypes, RequestDeletion, task
  <2>4. FrameTypes'
    BY <1>0 DEF Types, FrameTypes, RequestDeletion
  <2>5. LifeTypes'
    BY <1>0, Zenon DEF Types, LifeTypes, RequestDeletion
  <2> QED  BY <2>1, <2>2, <2>3, <2>4, <2>5 DEF Types
<1>2. Queueing'
  BY <1>0 DEF Queueing, EventsInOrder, RequestDeletion, queues
<1>3. OneTask'
  BY <1>0 DEF OneTask, RequestDeletion, task
<1>4. Tasking'
  BY <1>0 DEF Tasking, RequestDeletion, task
<1>5. Calling'
  BY <1>0 DEF Calling, CallPCs, RequestDeletion, pausing, task
<1>6. NoStrandedMessage'
  BY <1>0 DEF NoStrandedMessage, RequestDeletion, queues, pausing, task
<1>7. Native'
  BY <1>0 DEF Native, Top, RequestDeletion, queues, pausing, task
<1>8. Deleting'
  BY <1>0 DEF Deleting, RequestDeletion, task
<1>9. Interrupting'
  BY <1>0 DEF Interrupting, Entered, Top, RequestDeletion, queues
<1> QED  BY <1>1, <1>2, <1>3, <1>4, <1>5, <1>6, <1>7, <1>8, <1>9 DEF IInv

\* The native handler is deleted.
LEMMA DeleteNativeHandlerInv ==
  ASSUME IInv, DeleteNativeHandler
  PROVE  IInv'
<1>0. Types /\ Queueing /\ OneTask /\ Tasking /\ Calling
      /\ NoStrandedMessage /\ Native /\ Deleting /\ Interrupting
  BY DEF IInv
<1>1. Types'
  <2>1. QueueTypes'
    BY <1>0, ClearQueuesInv DEF Types, QueueTypes, DeleteNativeHandler,
         ClearQueues
  <2>2. PausingTypes'
    BY <1>0 DEF Types, PausingTypes, DeleteNativeHandler, pausing
  <2>3. TaskTypes'
    BY <1>0 DEF Types, TaskTypes, DeleteNativeHandler
  <2>4. FrameTypes'
    BY <1>0 DEF Types, FrameTypes, DeleteNativeHandler
  <2>5. LifeTypes'
    BY <1>0 DEF Types, LifeTypes, DeleteNativeHandler
  <2> QED  BY <2>1, <2>2, <2>3, <2>4, <2>5 DEF Types
<1>2. Queueing'
  BY <1>0, ClearQueuesInv DEF Queueing, EventsInOrder, Types,
       DeleteNativeHandler, ClearQueues
<1>3. OneTask'
  BY <1>0 DEF OneTask, DeleteNativeHandler
<1>4. Tasking'
  BY <1>0 DEF Tasking, Deleting, Native, DeleteNativeHandler
<1>5. Calling'
  BY <1>0 DEF Calling, CallPCs, Deleting, Native, DeleteNativeHandler, pausing
<1>6. NoStrandedMessage'
  BY <1>0 DEF NoStrandedMessage, DeleteNativeHandler, ClearQueues, pausing
<1>7. Native'
  BY ZenonT(20), <1>0 DEF Native, Top, DeleteNativeHandler, ClearQueues, pausing
<1>8. Deleting'
  BY <1>0 DEF Deleting, Native, Tasking, OneTask, Types, TaskTypes,
       DeleteNativeHandler
<1>9. Interrupting'
  BY <1>0 DEF Interrupting, Entered, Top, DeleteNativeHandler, ClearQueues
<1> QED  BY <1>1, <1>2, <1>3, <1>4, <1>5, <1>6, <1>7, <1>8, <1>9 DEF IInv

-----------------------------------------------------------------------------
(* Posting. *)

\* A normal message is posted to a handler that an open port or the isolate
\* leads to.
LEMMA PostNormalInv ==
  ASSUME IInv, NEW lib \in BOOLEAN, NEW before \in BOOLEAN, before => lib,
         PostNormal(lib, before), open \/ kind = "isolate",
         \/ notifying' = notifying
         \/ notifying = "none" /\ notifying' = "normal" /\ open /\ owner # "creating"
  PROVE  IInv'
<1>0. Types /\ Queueing /\ OneTask /\ Tasking /\ Calling
      /\ NoStrandedMessage /\ Native /\ Deleting /\ Interrupting
  BY DEF IInv
<1>a. /\ posted' = posted + 1 /\ posted < MaxPosts
      /\ queue' = Enqueue(queue, [id |-> posted + 1, lib |-> lib, before |-> before])
      /\ oob' = oob /\ postedOOB' = postedOOB
  BY DEF PostNormal
<1>b. queue' \in Seq(Message) /\ InOrder(queue', posted')
  <2> DEFINE m == [id |-> posted + 1, lib |-> lib, before |-> before]
  <2>1. posted \in Nat /\ queue \in Seq(Message) /\ m \in Message
    BY <1>0, <1>a, HandlerConstants DEF Types, QueueTypes, Message
  <2>2. m.id = posted + 1 /\ (m.before => m.lib)
    OBVIOUS
  <2>3. InOrder(queue, posted)
    BY <1>0 DEF Queueing, EventsInOrder, InOrder
  <2> HIDE DEF m
  <2>4. Enqueue(queue, m) \in Seq(Message) /\ InOrder(Enqueue(queue, m), posted + 1)
    BY <2>1, <2>2, <2>3, EnqueueKeepsOrder
  <2> QED  BY <2>4, <1>a DEF m
<1>1. Types'
  <2>1. QueueTypes'
    BY <1>0, <1>a, <1>b, HandlerConstants DEF Types, QueueTypes
  <2>2. PausingTypes'
    BY <1>0 DEF Types, PausingTypes, PostNormal, pausing
  <2>3. TaskTypes'
    <3>1. scheduled' \in Nat
      BY <1>0 DEF Types, TaskTypes, PostNormal, StartTask
    <3>2. taskRunning' \in BOOLEAN /\ pool' \in BOOLEAN
      BY <1>0, Zenon DEF Types, TaskTypes, PostNormal, StartTask
    <3>3. tpc' = tpc /\ endCallback' \in {"none", "RunLoopDone", "ShutdownIsolate"}
      BY <1>0 DEF Types, TaskTypes, PostNormal, StartTask
    <3> QED  BY <1>0, <3>1, <3>2, <3>3 DEF Types, TaskTypes
  <2>4. FrameTypes'
    BY <1>0 DEF Types, FrameTypes, PostNormal
  <2>5. LifeTypes'
    BY <1>0 DEF Types, LifeTypes, PostNormal, life
  <2> QED  BY <2>1, <2>2, <2>3, <2>4, <2>5 DEF Types
<1>2. Queueing'
  BY <1>0, <1>a, <1>b DEF Queueing, EventsInOrder, InOrder
<1>3. OneTask'
  BY <1>0 DEF OneTask, Types, TaskTypes, Tasking, PostNormal, StartTask
<1>4. Tasking'
  BY <1>0 DEF Tasking, PostNormal, StartTask, life
<1>5. Calling'
  BY <1>0 DEF Calling, CallPCs, PostNormal, pausing, life
<1>6. NoStrandedMessage'
  BY <1>0 DEF NoStrandedMessage, PostNormal, StartTask, pausing
<1>7. Native'
  BY ZenonT(20), <1>0 DEF Native, Top, PostNormal, pausing, life
<1>8. Deleting'
  BY ZenonT(20), <1>0 DEF Deleting, Native, PostNormal, StartTask, life
<1>9. Interrupting'
  BY <1>0 DEF Interrupting, Entered, Top, PostNormal, life
<1> QED  BY <1>1, <1>2, <1>3, <1>4, <1>5, <1>6, <1>7, <1>8, <1>9 DEF IInv

\* An out-of-band message is posted through an open port of an isolate.
LEMMA PostOOBInv ==
  ASSUME IInv, PostOOB, kind = "isolate", open, notifying = "none", notifying' = "oob"
  PROVE  IInv'
<1>0. Types /\ Queueing /\ OneTask /\ Tasking /\ Calling
      /\ NoStrandedMessage /\ Native /\ Deleting /\ Interrupting
  BY DEF IInv
<1>1. Types'
  <2>1. QueueTypes'
    BY <1>0, HandlerConstants DEF Types, QueueTypes, Queueing, PostOOB
  <2>2. PausingTypes'
    BY <1>0 DEF Types, PausingTypes, PostOOB, pausing
  <2>3. TaskTypes'
    <3>1. scheduled' \in Nat
      BY <1>0 DEF Types, TaskTypes, PostOOB, StartTask
    <3>2. taskRunning' \in BOOLEAN /\ pool' \in BOOLEAN
      BY <1>0, ZenonT(20) DEF Types, TaskTypes, PostOOB, StartTask
    <3>3. tpc' = tpc /\ endCallback' \in {"none", "RunLoopDone", "ShutdownIsolate"}
      BY <1>0 DEF Types, TaskTypes, PostOOB, StartTask
    <3> QED  BY <1>0, <3>1, <3>2, <3>3 DEF Types, TaskTypes
  <2>4. FrameTypes'
    BY <1>0 DEF Types, FrameTypes, PostOOB
  <2>5. LifeTypes'
    BY <1>0 DEF Types, LifeTypes, PostOOB, life
  <2> QED  BY <2>1, <2>2, <2>3, <2>4, <2>5 DEF Types
<1>2. Queueing'
  BY <1>0 DEF Queueing, EventsInOrder, Types, QueueTypes, PostOOB
<1>3. OneTask'
  BY <1>0 DEF OneTask, Types, TaskTypes, Tasking, PostOOB, StartTask
<1>4. Tasking'
  BY <1>0 DEF Tasking, PostOOB, StartTask, life
<1>5. Calling'
  BY <1>0 DEF Calling, CallPCs, PostOOB, pausing, life
<1>6. NoStrandedMessage'
  BY <1>0 DEF NoStrandedMessage, PostOOB, StartTask, pausing
<1>7. Native'
  BY <1>0 DEF Native, Top, PostOOB, pausing, life
<1>8. Deleting'
  BY <1>0 DEF Deleting, Native, PostOOB, StartTask, life
<1>9. Interrupting'
  BY <1>0 DEF Interrupting, Entered, Top, PostOOB, life
<1> QED  BY <1>1, <1>2, <1>3, <1>4, <1>5, <1>6, <1>7, <1>8, <1>9 DEF IInv

\* The steps that post keep the invariant.
LEMMA PostStepInv == ASSUME IInv, PostStep PROVE IInv'
<1>1. CASE PortMapPostMessage
  <2>1. CASE PostNormal(FALSE, FALSE) /\ notifying' = "normal"
    BY <1>1, <2>1, PostNormalInv, Zenon DEF PortMapPostMessage, MutexFree
  <2>2. CASE kind = "isolate" /\ PostOOB /\ notifying' = "oob"
    BY <1>1, <2>2, PostOOBInv DEF PortMapPostMessage, MutexFree
  <2> QED  BY <1>1, <2>1, <2>2, Zenon DEF PortMapPostMessage
<1>2. CASE MournFinalizerEntry
  BY <1>2, PostNormalInv, Zenon DEF MournFinalizerEntry
<1>3. CASE PostDelayedAction
  <2>1. kind = "isolate"
    BY <1>3 DEF PostDelayedAction, IInv, Types, LifeTypes, Native
  <2>2. PICK before \in BOOLEAN : PostNormal(TRUE, before)
    BY <1>3, ZenonT(20) DEF PostDelayedAction
  <2> QED  BY <1>3, <2>1, <2>2, PostNormalInv, ZenonT(30) DEF PostDelayedAction
<1> QED  BY <1>1, <1>2, <1>3 DEF PostStep

-----------------------------------------------------------------------------
(* The beginning of a handler. *)

\* The owner runs the isolate on a pool.
LEMMA RunLoopInv ==
  ASSUME IInv, RunLoop
  PROVE  IInv'
<1>0. Types /\ Queueing /\ OneTask /\ Tasking /\ Calling
      /\ NoStrandedMessage /\ Native /\ Deleting /\ Interrupting
  BY DEF IInv
<1>1. Types'
  <2>1. QueueTypes'
    BY <1>0 DEF Types, QueueTypes, RunLoop, Run, queues
  <2>2. PausingTypes'
    BY <1>0 DEF Types, PausingTypes, RunLoop, Run, pausing
  <2>3. TaskTypes'
    <3>1. scheduled' \in Nat
      BY <1>0 DEF Types, TaskTypes, RunLoop, Run
    <3>2. taskRunning' \in BOOLEAN /\ pool' \in BOOLEAN
      BY <1>0, ZenonT(30) DEF Types, TaskTypes, RunLoop, Run
    <3>3. tpc' = tpc /\ endCallback' \in {"none", "RunLoopDone", "ShutdownIsolate"}
      BY <1>0 DEF Types, TaskTypes, RunLoop, Run
    <3> QED  BY <1>0, <3>1, <3>2, <3>3 DEF Types, TaskTypes
  <2>4. FrameTypes'
    BY <1>0, Zenon DEF Types, FrameTypes, RunLoop, Run, Exit
  <2>5. LifeTypes'
    BY ZenonT(20), <1>0 DEF Types, LifeTypes, RunLoop, Run
  <2> QED  BY <2>1, <2>2, <2>3, <2>4, <2>5 DEF Types
<1>2. Queueing'
  BY <1>0 DEF Queueing, EventsInOrder, RunLoop, Run, queues
<1>3. OneTask'
  BY <1>0 DEF OneTask, Types, TaskTypes, Tasking, RunLoop, Run
<1>4. Tasking'
  BY <1>0 DEF Tasking, RunLoop, Run
<1>5. Calling'
  BY <1>0 DEF Calling, CallPCs, RunLoop, Run, pausing
<1>6. NoStrandedMessage'
  BY <1>0, ZenonT(20) DEF NoStrandedMessage, RunLoop, Run, queues, pausing
<1>7. Native'
  BY ZenonT(20), <1>0 DEF Native, Top, Deleting, RunLoop, Run, queues, pausing
<1>8. Deleting'
  BY <1>0 DEF Deleting, Native, Tasking, RunLoop, Run
<1>9. Interrupting'
  <2>1. frames' = <<>>
    BY DEF RunLoop, Run
  <2>2. owner' # "owns"
    BY DEF RunLoop
  <2> QED  BY <2>1, <2>2 DEF Interrupting, Entered
<1> QED  BY <1>1, <1>2, <1>3, <1>4, <1>5, <1>6, <1>7, <1>8, <1>9 DEF IInv

\* Dart_NewNativePort runs the handler on a pool or closes its port.
LEMMA NewNativePortInv ==
  ASSUME IInv, NewNativePort
  PROVE  IInv'
<1>0. Types /\ Queueing /\ OneTask /\ Tasking /\ Calling
      /\ NoStrandedMessage /\ Native /\ Deleting /\ Interrupting
  BY DEF IInv
<1>1. Types'
  <2>1. QueueTypes'
    BY <1>0 DEF Types, QueueTypes, NewNativePort, Run, queues
  <2>2. PausingTypes'
    BY <1>0 DEF Types, PausingTypes, NewNativePort, Run, pausing
  <2>3. TaskTypes'
    <3>1. scheduled' \in Nat
      BY <1>0 DEF Types, TaskTypes, NewNativePort, Run
    <3>2. taskRunning' \in BOOLEAN /\ pool' \in BOOLEAN
      BY <1>0, Zenon DEF Types, TaskTypes, NewNativePort, Run
    <3>3. tpc' = tpc /\ endCallback' \in {"none", "RunLoopDone", "ShutdownIsolate"}
      BY <1>0 DEF Types, TaskTypes, NewNativePort, Run
    <3> QED  BY <1>0, <3>1, <3>2, <3>3 DEF Types, TaskTypes
  <2>4. FrameTypes'
    BY <1>0 DEF Types, FrameTypes, NewNativePort, Run
  <2>5. LifeTypes'
    BY <1>0, ZenonT(20) DEF Types, LifeTypes, NewNativePort, Run
  <2> QED  BY <2>1, <2>2, <2>3, <2>4, <2>5 DEF Types
<1>2. Queueing'
  BY <1>0 DEF Queueing, EventsInOrder, NewNativePort, Run, queues
<1>3. OneTask'
  BY <1>0 DEF OneTask, Types, TaskTypes, Tasking, NewNativePort, Run
<1>4. Tasking'
  BY <1>0 DEF Tasking, Native, Types, LifeTypes, NewNativePort, Run
<1>5. Calling'
  BY <1>0 DEF Calling, CallPCs, NewNativePort, Run, pausing
<1>6. NoStrandedMessage'
  BY <1>0, ZenonT(20) DEF NoStrandedMessage, NewNativePort, Run, queues, pausing
<1>7. Native'
  BY ZenonT(20), <1>0 DEF Native, Top, Deleting, Types, LifeTypes, NewNativePort, Run,
       queues, pausing
<1>8. Deleting'
  BY <1>0 DEF Deleting, Native, Tasking, Types, LifeTypes, NewNativePort, Run
<1>9. Interrupting'
  <2>1. UNCHANGED <<kind, oob, frames, interrupt, notifying>> /\ owner' = "gone"
    BY DEF NewNativePort, Run, queues
  <2> QED  BY <1>0, <2>1 DEF Interrupting, Entered, Top
<1> QED  BY <1>1, <1>2, <1>3, <1>4, <1>5, <1>6, <1>7, <1>8, <1>9 DEF IInv

\* The owner enters the isolate again.
LEMMA EnterIsolateInv ==
  ASSUME IInv, EnterIsolate
  PROVE  IInv'
<1>0. Types /\ Queueing /\ OneTask /\ Tasking /\ Calling
      /\ NoStrandedMessage /\ Native /\ Deleting /\ Interrupting
  BY DEF IInv
<1>a. /\ UNCHANGED <<kind, queues, pausing, task, frames, notifying, deleted>>
      /\ UNCHANGED <<deleteMe, open, live, closer, shutdown>>
      /\ owner \in {"owns", "outside"} /\ owner' \in {"owns", "outside"}
  BY DEF EnterIsolate
<1>b. frames = <<>> /\ tpc = "none" /\ ~pool /\ kind = "isolate" /\ shutdown = "none"
      /\ closer = "none"
  BY <1>0, <1>a DEF Calling, CallPCs, Tasking, Native, Deleting, EnterIsolate
<1>1. Types'
  <2>1. QueueTypes' /\ PausingTypes' /\ TaskTypes'
    BY <1>0, <1>a DEF Types, QueueTypes, PausingTypes, TaskTypes, queues, pausing, task
  <2>2. FrameTypes'
    BY <1>0, <1>a DEF Types, FrameTypes, EnterIsolate, Enter
  <2>3. LifeTypes'
    BY <1>0, <1>a DEF Types, LifeTypes
  <2> QED  BY <2>1, <2>2, <2>3 DEF Types
<1>2. Queueing'
  BY <1>0, <1>a DEF Queueing, EventsInOrder, queues
<1>3. OneTask'
  BY <1>0, <1>a DEF OneTask, task
<1>4. Tasking'
  BY <1>0, <1>a, <1>b DEF Tasking, task
<1>5. Calling'
  BY <1>0, <1>a, <1>b DEF Calling, CallPCs, pausing, task
<1>6. NoStrandedMessage'
  BY <1>0, <1>a DEF NoStrandedMessage, queues, pausing, task
<1>7. Native'
  BY <1>a, <1>b DEF Native
<1>8. Deleting'
  BY <1>0, <1>a, <1>b DEF Deleting, task
<1>9. Interrupting'
  <2>1. frames' = <<>>
    BY <1>a, <1>b
  <2>2. interrupt' # "noThread"
    BY DEF EnterIsolate, Enter
  <2> QED  BY <2>1, <2>2 DEF Interrupting, Entered
<1> QED  BY <1>1, <1>2, <1>3, <1>4, <1>5, <1>6, <1>7, <1>8, <1>9 DEF IInv

\* The owner leaves the isolate.
LEMMA ExitIsolateInv ==
  ASSUME IInv, ExitIsolate
  PROVE  IInv'
<1>0. Types /\ Queueing /\ OneTask /\ Tasking /\ Calling
      /\ NoStrandedMessage /\ Native /\ Deleting /\ Interrupting
  BY DEF IInv
<1>a. /\ UNCHANGED <<kind, queues, pausing, task, frames, notifying, deleted>>
      /\ UNCHANGED <<deleteMe, open, live, closer, shutdown>>
      /\ owner \in {"owns", "outside"} /\ owner' \in {"owns", "outside"}
  BY DEF ExitIsolate
<1>b. frames = <<>> /\ tpc = "none" /\ ~pool /\ kind = "isolate" /\ shutdown = "none"
      /\ closer = "none"
  BY <1>0, <1>a DEF Calling, CallPCs, Tasking, Native, Deleting, ExitIsolate
<1>1. Types'
  <2>1. QueueTypes' /\ PausingTypes' /\ TaskTypes'
    BY <1>0, <1>a DEF Types, QueueTypes, PausingTypes, TaskTypes, queues, pausing, task
  <2>2. FrameTypes'
    BY <1>0, <1>a DEF Types, FrameTypes, ExitIsolate, Exit
  <2>3. LifeTypes'
    BY <1>0, <1>a DEF Types, LifeTypes
  <2> QED  BY <2>1, <2>2, <2>3 DEF Types
<1>2. Queueing'
  BY <1>0, <1>a DEF Queueing, EventsInOrder, queues
<1>3. OneTask'
  BY <1>0, <1>a DEF OneTask, task
<1>4. Tasking'
  BY <1>0, <1>a, <1>b DEF Tasking, task
<1>5. Calling'
  BY <1>0, <1>a, <1>b DEF Calling, CallPCs, pausing, task
<1>6. NoStrandedMessage'
  BY <1>0, <1>a DEF NoStrandedMessage, queues, pausing, task
<1>7. Native'
  BY <1>a, <1>b DEF Native
<1>8. Deleting'
  BY <1>0, <1>a, <1>b DEF Deleting, task
<1>9. Interrupting'
  <2>1. frames' = <<>>
    BY <1>a, <1>b
  <2>2. owner' # "owns"
    BY DEF ExitIsolate, Exit
  <2> QED  BY <2>1, <2>2 DEF Interrupting, Entered
<1> QED  BY <1>1, <1>2, <1>3, <1>4, <1>5, <1>6, <1>7, <1>8, <1>9 DEF IInv

\* A task enters an isolate that has no Thread.
LEMMA StartIsolateScopeInv ==
  ASSUME IInv, StartIsolateScope
  PROVE  IInv'
<1>0. Types /\ Queueing /\ OneTask /\ Tasking /\ Calling
      /\ NoStrandedMessage /\ Native /\ Deleting /\ Interrupting
  BY DEF IInv
<1>1. Types'
  <2>1. QueueTypes' /\ PausingTypes' /\ TaskTypes'
    BY <1>0 DEF Types, QueueTypes, PausingTypes, TaskTypes, StartIsolateScope,
         queues, pausing, task
  <2>2. FrameTypes'
    BY <1>0 DEF Types, FrameTypes, StartIsolateScope, Enter
  <2>3. LifeTypes'
    BY <1>0 DEF Types, LifeTypes, StartIsolateScope, life
  <2> QED  BY <2>1, <2>2, <2>3 DEF Types
<1>2. Queueing'
  BY <1>0 DEF Queueing, EventsInOrder, StartIsolateScope, queues
<1>3. OneTask'
  BY <1>0 DEF OneTask, StartIsolateScope, task
<1>4. Tasking'
  BY <1>0 DEF Tasking, StartIsolateScope, task, life
<1>5. Calling'
  BY <1>0 DEF Calling, CallPCs, StartIsolateScope, pausing, task, life
<1>6. NoStrandedMessage'
  BY <1>0 DEF NoStrandedMessage, StartIsolateScope, queues, pausing, task
<1>7. Native'
  BY <1>0 DEF Native, Top, StartIsolateScope, queues, pausing, task, life
<1>8. Deleting'
  BY <1>0 DEF Deleting, StartIsolateScope, task, life
<1>9. Interrupting'
  <2>1. Top.message = "none" /\ Top' = Top
    BY <1>0 DEF Interrupting, Entered, StartIsolateScope, Top
  <2>2. interrupt' # "noThread"
    BY DEF StartIsolateScope, Enter
  <2> QED  BY <2>1, <2>2 DEF Interrupting, Entered
<1> QED  BY <1>1, <1>2, <1>3, <1>4, <1>5, <1>6, <1>7, <1>8, <1>9 DEF IInv

-----------------------------------------------------------------------------
(* The calls that the mutator makes, and what HandleMessage does. *)

\* An interrupt is dropped while a service handler holds the queues.
LEMMA AcquiredQueuesInv ==
  ASSUME IInv, AcquiredQueues
  PROVE  IInv'
<1>0. Types /\ Queueing /\ OneTask /\ Tasking /\ Calling
      /\ NoStrandedMessage /\ Native /\ Deleting /\ Interrupting
  BY DEF IInv
<1>1. Types'
  <2>1. QueueTypes'
    BY <1>0 DEF Types, QueueTypes, AcquiredQueues, queues
  <2>2. PausingTypes'
    BY <1>0 DEF Types, PausingTypes, AcquiredQueues, pausing
  <2>3. TaskTypes'
    BY <1>0 DEF Types, TaskTypes, AcquiredQueues, task
  <2>4. FrameTypes'
    BY <1>0, ZenonT(20) DEF Types, FrameTypes, AcquiredQueues
  <2>5. LifeTypes'
    BY <1>0 DEF Types, LifeTypes, AcquiredQueues, life
  <2> QED  BY <2>1, <2>2, <2>3, <2>4, <2>5 DEF Types
<1>2. Queueing'
  BY <1>0, ZenonT(20) DEF Queueing, EventsInOrder, AcquiredQueues, queues
<1>3. OneTask'
  BY <1>0 DEF OneTask, AcquiredQueues, task
<1>4. Tasking'
  BY <1>0 DEF Tasking, AcquiredQueues, task, life
<1>5. Calling'
  BY <1>0 DEF Calling, CallPCs, AcquiredQueues, pausing, task, life
<1>6. NoStrandedMessage'
  BY ZenonT(20), <1>0 DEF NoStrandedMessage, AcquiredQueues, queues, pausing, task
<1>7. Native'
  BY <1>0 DEF Native, Top, AcquiredQueues, queues, pausing, task, life
<1>8. Deleting'
  BY <1>0 DEF Deleting, AcquiredQueues, task, life
<1>9. Interrupting'
  BY ZenonT(20), <1>0 DEF Interrupting, Entered, Top, AcquiredQueues, queues
<1> QED  BY <1>1, <1>2, <1>3, <1>4, <1>5, <1>6, <1>7, <1>8, <1>9 DEF IInv

\* The owner handles the next message.
LEMMA HandleNextMessageInv ==
  ASSUME IInv, HandleNextMessage
  PROVE  IInv'
<1>0. Types /\ Queueing /\ OneTask /\ Tasking /\ Calling
      /\ NoStrandedMessage /\ Native /\ Deleting /\ Interrupting
  BY DEF IInv
<1> DEFINE f == NewFrame(TRUE, FALSE)
<1>a. f \in Frame /\ f.message = "none" /\ f.pc = "start"
  BY NewFrameType, ZenonT(20)
<1>b. frames' = <<f>>
  BY DEF HandleNextMessage
<1> HIDE DEF f
<1>c. /\ frames' \in Seq(Frame) /\ Len(frames') = 1 /\ frames' # <<>>
      /\ Top'.message = "none" /\ Top'.pc = "start"
  BY <1>a, <1>b, Single DEF Top
<1>1. Types'
  <2>1. QueueTypes'
    BY <1>0 DEF Types, QueueTypes, HandleNextMessage, queues
  <2>2. PausingTypes'
    BY <1>0 DEF Types, PausingTypes, HandleNextMessage, pausing
  <2>3. TaskTypes'
    BY <1>0 DEF Types, TaskTypes, HandleNextMessage, task
  <2>4. FrameTypes'
    <3>1. Len(frames') <= MaxDepth
      BY <1>0, <1>c, HandlerConstants DEF Types, FrameTypes
    <3>2. interrupt' \in {"noThread", "clear", "pending"} /\ notifying' = notifying
      BY <1>0 DEF Types, FrameTypes, HandleNextMessage
    <3> QED  BY <1>0, <1>c, <3>1, <3>2 DEF Types, FrameTypes
  <2>5. LifeTypes'
    BY <1>0 DEF Types, LifeTypes, HandleNextMessage, life
  <2> QED  BY <2>1, <2>2, <2>3, <2>4, <2>5 DEF Types
<1>2. Queueing'
  BY <1>0 DEF Queueing, EventsInOrder, HandleNextMessage, queues
<1>3. OneTask'
  BY <1>0 DEF OneTask, HandleNextMessage, task
<1>4. Tasking'
  BY <1>0 DEF Tasking, HandleNextMessage, task, life
<1>5. Calling'
  BY <1>0, <1>c DEF Calling, CallPCs, Tasking, HandleNextMessage, pausing,
       task, life
<1>6. NoStrandedMessage'
  BY <1>0 DEF NoStrandedMessage, HandleNextMessage, queues, pausing, task
<1>7. Native'
  BY <1>0 DEF Native, Top, HandleNextMessage, queues, pausing, task, life
<1>8. Deleting'
  BY <1>0 DEF Deleting, Tasking, HandleNextMessage, task, life
<1>9. Interrupting'
  <2>1. interrupt # "noThread" /\ interrupt' = interrupt
    BY <1>0 DEF Interrupting, Entered, HandleNextMessage
  <2> QED  BY <1>c, <2>1 DEF Interrupting, Entered
<1> QED  BY <1>1, <1>2, <1>3, <1>4, <1>5, <1>6, <1>7, <1>8, <1>9 DEF IInv

\* The mutator handles out-of-band messages.
LEMMA HandleOOBMessagesInv ==
  ASSUME IInv, HandleOOBMessages
  PROVE  IInv'
<1>0. Types /\ Queueing /\ OneTask /\ Tasking /\ Calling
      /\ NoStrandedMessage /\ Native /\ Deleting /\ Interrupting
  BY DEF IInv
<1> DEFINE f == NewFrame(FALSE, FALSE)
<1>a. f \in Frame /\ f.message = "none" /\ f.pc = "start"
  BY NewFrameType, ZenonT(20)
<1>b. frames' = Append(frames, f) /\ frames \in Seq(Frame)
  BY <1>0 DEF HandleOOBMessages, Types, FrameTypes
<1> HIDE DEF f
<1>c. /\ frames' \in Seq(Frame) /\ Len(frames') = Len(frames) + 1 /\ frames' # <<>>
      /\ Top'.message = "none" /\ Top'.pc = "start"
      /\ frames # <<>> => frames'[1] = frames[1]
  BY <1>a, <1>b, Push DEF Top
<1>d. kind = "isolate" /\ (frames = <<>> => owner = "owns") /\ Len(frames) < MaxDepth
  BY DEF HandleOOBMessages, RunsCode
<1>e. UNCHANGED <<kind, queues, pausing, task, notifying, life>>
  BY DEF HandleOOBMessages
<1>1. Types'
  <2>1. QueueTypes'
    BY <1>0, <1>d, <1>e DEF Types, QueueTypes, queues
  <2>2. PausingTypes'
    BY <1>0, <1>d, <1>e DEF Types, PausingTypes, pausing
  <2>3. TaskTypes'
    BY <1>0, <1>d, <1>e DEF Types, TaskTypes, task
  <2>4. FrameTypes'
    <3>1. Len(frames') <= MaxDepth
      BY <1>0, <1>d, <1>e, <1>c, HandlerConstants DEF Types, FrameTypes
    <3>2. interrupt' \in {"noThread", "clear", "pending"} /\ notifying' = notifying
      BY <1>0, ZenonT(20) DEF Types, FrameTypes, HandleOOBMessages
    <3> QED  BY <1>0, <1>c, <3>1, <3>2 DEF Types, FrameTypes
  <2>5. LifeTypes'
    BY ZenonT(20), <1>0, <1>d, <1>e DEF Types, LifeTypes, life
  <2> QED  BY <2>1, <2>2, <2>3, <2>4, <2>5 DEF Types
<1>2. Queueing'
  BY <1>0, <1>d, <1>e DEF Queueing, EventsInOrder, queues
<1>3. OneTask'
  BY <1>0, <1>d, <1>e DEF OneTask, task
<1>4. Tasking'
  BY <1>0, <1>d, <1>e DEF Tasking, task, life
<1>5. Calling'
  BY <1>0, <1>d, <1>e, <1>c DEF Calling, CallPCs, Tasking, pausing, task, life
<1>6. NoStrandedMessage'
  BY ZenonT(20), <1>0, <1>d, <1>e DEF NoStrandedMessage, queues, pausing, task
<1>7. Native'
  BY <1>0, <1>d, <1>e DEF Native, Top, queues, pausing, task, life
<1>8. Deleting'
  BY <1>0, <1>d, <1>e DEF Deleting, task, life
<1>9. Interrupting'
  <2>1. interrupt # "noThread"
    BY <1>0 DEF Interrupting, Entered, HandleOOBMessages, RunsCode
  <2>2. interrupt' # "noThread"
    BY <2>1 DEF HandleOOBMessages
  <2> QED  BY <1>c, <2>2 DEF Interrupting, Entered
<1> QED  BY <1>1, <1>2, <1>3, <1>4, <1>5, <1>6, <1>7, <1>8, <1>9 DEF IInv

\* The innermost call is a frame.
LEMMA TopType ==
  ASSUME frames \in Seq(Frame), frames # <<>>
  PROVE  Top \in Frame
<1>1. Len(frames) \in 1 .. Len(frames)
  BY EmptyStack
<1> QED  BY <1>1, CallIsFrame DEF Top

\* The innermost call goes on.
LEMMA ReplaceTop ==
  ASSUME frames \in Seq(Frame), frames # <<>>, NEW f \in Frame, frames' = Append(Below, f)
  PROVE  /\ frames' \in Seq(Frame) /\ Len(frames') = Len(frames) /\ frames' # <<>>
         /\ Top' = f /\ frames'[1] = IF Len(frames) = 1 THEN f ELSE frames[1]
<1>1. frames' = Append(SubSeq(frames, 1, Len(frames) - 1), f)
  BY DEF Below
<1>2. /\ frames' \in Seq(Frame) /\ Len(frames') = Len(frames) /\ frames' # <<>>
      /\ frames'[Len(frames')] = f
      /\ frames'[1] = IF Len(frames) = 1 THEN f ELSE frames[1]
  BY <1>1, Replace, ZenonT(30)
<1> QED  BY <1>2, Zenon DEF Top

\* HandleMessage has handled a normal message.
LEMMA HandleNormalMessageInv ==
  ASSUME IInv, HandleNormalMessage
  PROVE  IInv'
<1>0. Types /\ Queueing /\ OneTask /\ Tasking /\ Calling
      /\ NoStrandedMessage /\ Native /\ Deleting /\ Interrupting
  BY DEF IInv
<1>a. frames \in Seq(Frame) /\ frames # <<>> /\ Top \in Frame
  <2>1. frames \in Seq(Frame) /\ frames # <<>>
    BY <1>0 DEF HandleNormalMessage, Types, FrameTypes
  <2> QED  BY <2>1, TopType
<1>b. PICK s \in Status : Returns(s) /\ (kind = "native" => s = kOK)
  BY <1>0 DEF HandleNormalMessage, Types, LifeTypes, Status, kOK, kShutdown
<1> DEFINE f == [Top EXCEPT !.pc = "handled", !.result = s]
<1>c. /\ f \in Frame /\ f.message = Top.message /\ f.status = Top.status
      /\ f.result = s /\ f.normal = Top.normal /\ f.multi = Top.multi
  BY <1>a, ZenonT(20) DEF Frame
<1>d. frames' = Append(Below, f)
  BY <1>b DEF Returns
<1> HIDE DEF f
<1>e. /\ frames' \in Seq(Frame) /\ Len(frames') = Len(frames) /\ frames' # <<>>
      /\ Top' = f /\ frames'[1] = IF Len(frames) = 1 THEN f ELSE frames[1]
  BY <1>a, <1>c, <1>d, ReplaceTop
<1>f. /\ Top'.message = Top.message /\ Top'.status = Top.status /\ Top'.result = s
      /\ frames'[1].normal = frames[1].normal /\ frames'[1].multi = frames[1].multi
  BY <1>c, <1>e DEF Top
<1>1. Types'
  <2>1. QueueTypes'
    BY <1>0 DEF Types, QueueTypes, HandleNormalMessage, queues
  <2>2. PausingTypes'
    BY <1>0 DEF Types, PausingTypes, HandleNormalMessage, pausing
  <2>3. TaskTypes'
    BY <1>0 DEF Types, TaskTypes, HandleNormalMessage, task
  <2>4. FrameTypes'
    BY <1>0, <1>a, <1>e DEF Types, FrameTypes, HandleNormalMessage
  <2>5. LifeTypes'
    BY <1>0 DEF Types, LifeTypes, HandleNormalMessage
  <2> QED  BY <2>1, <2>2, <2>3, <2>4, <2>5 DEF Types
<1>2. Queueing'
  BY <1>0 DEF Queueing, EventsInOrder, HandleNormalMessage, queues
<1>3. OneTask'
  BY <1>0 DEF OneTask, HandleNormalMessage, task
<1>4. Tasking'
  BY ZenonT(20), <1>0 DEF Tasking, HandleNormalMessage, task
<1>5. Calling'
  BY <1>0, <1>a, <1>e, <1>f DEF Calling, CallPCs, HandleNormalMessage,
       pausing, task
<1>6. NoStrandedMessage'
  BY ZenonT(20), <1>0 DEF NoStrandedMessage, HandleNormalMessage, queues, pausing, task
<1>7. Native'
  BY ZenonT(20), <1>0, <1>a, <1>b, <1>e, <1>f DEF Native, Top, HandleNormalMessage,
       queues, pausing, task
<1>8. Deleting'
  BY ZenonT(20), <1>0 DEF Deleting, HandleNormalMessage, task
<1>9. Interrupting'
  <2>1. UNCHANGED <<kind, oob, interrupt, notifying>> /\ Top.pc = "handling"
    BY DEF HandleNormalMessage, queues
  <2>2. kind = "isolate" => interrupt # "noThread"
    BY <1>0, <1>a, <2>1 DEF Interrupting, Entered
  <2> QED  BY <1>0, <1>a, <1>f, <2>1, <2>2 DEF Interrupting, Entered
<1> QED  BY <1>1, <1>2, <1>3, <1>4, <1>5, <1>6, <1>7, <1>8, <1>9 DEF IInv

\* HandleMessage has handled an out-of-band message.
LEMMA HandleOOBMessageInv ==
  ASSUME IInv, HandleOOBMessage
  PROVE  IInv'
<1>0. Types /\ Queueing /\ OneTask /\ Tasking /\ Calling
      /\ NoStrandedMessage /\ Native /\ Deleting /\ Interrupting
  BY DEF IInv
<1>a. frames \in Seq(Frame) /\ frames # <<>> /\ Top \in Frame
  <2>1. frames \in Seq(Frame) /\ frames # <<>>
    BY <1>0 DEF HandleOOBMessage, Types, FrameTypes
  <2> QED  BY <2>1, TopType
<1>b. PICK s \in Status : Returns(s) /\ (kind = "native" => s = kOK)
  BY <1>0 DEF HandleOOBMessage, Types, LifeTypes, Native, Status, kOK, kShutdown
<1> DEFINE f == [Top EXCEPT !.pc = "handled", !.result = s]
<1>c. /\ f \in Frame /\ f.message = Top.message /\ f.status = Top.status
      /\ f.result = s /\ f.normal = Top.normal /\ f.multi = Top.multi
  BY <1>a, Zenon DEF Frame
<1>d. frames' = Append(Below, f)
  BY <1>b DEF Returns
<1> HIDE DEF f
<1>e. /\ frames' \in Seq(Frame) /\ Len(frames') = Len(frames) /\ frames' # <<>>
      /\ Top' = f /\ frames'[1] = IF Len(frames) = 1 THEN f ELSE frames[1]
  BY <1>a, <1>c, <1>d, ReplaceTop
<1>f. /\ Top'.message = Top.message /\ Top'.status = Top.status /\ Top'.result = s
      /\ frames'[1].normal = frames[1].normal /\ frames'[1].multi = frames[1].multi
  BY <1>c, <1>e DEF Top
<1>1. Types'
  <2>1. QueueTypes'
    BY <1>0 DEF Types, QueueTypes, HandleOOBMessage, queues
  <2>2. PausingTypes'
    <3>1. paused' \in 0 .. MaxPaused
      BY <1>0, HandlerConstants
      DEF Types, PausingTypes, HandleOOBMessage, PauseMsg, ResumeMsg, ServiceMsg
    <3>2. shouldPause' \in [start : BOOLEAN, exit : BOOLEAN]
      <4>1. shouldPause \in [start : BOOLEAN, exit : BOOLEAN]
        BY <1>0 DEF Types, PausingTypes
      <4>2. \/ shouldPause' = shouldPause
            \/ \E b \in BOOLEAN : \/ shouldPause' = [shouldPause EXCEPT !.start = b]
                                 \/ shouldPause' = [shouldPause EXCEPT !.exit = b]
        BY ZenonT(20) DEF HandleOOBMessage, PauseMsg, ResumeMsg, ServiceMsg
      <4> QED  BY <4>1, <4>2
    <3> QED  BY <1>0, <3>1, <3>2 DEF Types, PausingTypes, HandleOOBMessage
  <2>3. TaskTypes'
    BY <1>0 DEF Types, TaskTypes, HandleOOBMessage, task
  <2>4. FrameTypes'
    BY <1>0, <1>a, <1>e DEF Types, FrameTypes, HandleOOBMessage
  <2>5. LifeTypes'
    BY ZenonT(20), <1>0 DEF Types, LifeTypes, HandleOOBMessage, life
  <2> QED  BY <2>1, <2>2, <2>3, <2>4, <2>5 DEF Types
<1>2. Queueing'
  BY ZenonT(20), <1>0 DEF Queueing, EventsInOrder, HandleOOBMessage, queues
<1>3. OneTask'
  BY ZenonT(20), <1>0 DEF OneTask, HandleOOBMessage, task
<1>4. Tasking'
  BY <1>0 DEF Tasking, HandleOOBMessage, task, life
<1>5. Calling'
  BY ZenonT(20), <1>0, <1>a, <1>e, <1>f DEF Calling, CallPCs, HandleOOBMessage, task, life
<1>6. NoStrandedMessage'
  BY <1>0 DEF NoStrandedMessage, Calling, CallPCs, Tasking, OneTask, Types,
       TaskTypes, HandleOOBMessage, queues, task
<1>7. Native'
  BY ZenonT(20), <1>0, <1>a, <1>b, <1>e, <1>f DEF Native, Top, HandleOOBMessage, queues,
       task, life
<1>8. Deleting'
  BY <1>0 DEF Deleting, HandleOOBMessage, task, life
<1>9. Interrupting'
  <2>1. UNCHANGED <<kind, oob, interrupt, notifying>> /\ Top.pc = "handling"
    BY DEF HandleOOBMessage, queues
  <2>2. kind = "isolate" => interrupt # "noThread"
    BY <1>0, <1>a, <2>1 DEF Interrupting, Entered
  <2> QED  BY <1>0, <1>a, <1>f, <2>1, <2>2 DEF Interrupting, Entered
<1> QED  BY <1>1, <1>2, <1>3, <1>4, <1>5, <1>6, <1>7, <1>8, <1>9 DEF IInv

-----------------------------------------------------------------------------
(* The locked parts of TaskCallback. *)

\* What they have in common: the task runs, no other is scheduled, and
\* out-of-band messages are left only if no call has looked for them.
TaskMoves ==
  /\ taskRunning
  /\ scheduled' = 0
  /\ queue' = queue /\ oob' \in {0, oob}
  /\ oob' = 0 \/ frames = <<>>
  /\ isPaused' \in [start : BOOLEAN, exit : BOOLEAN]
  /\ remembered' \in Status
  /\ kind = "native" => ~isPaused'.exit
  /\ interrupt' \in {interrupt, "noThread"}
  /\ UNCHANGED <<kind, posted, postedOOB, paused, shouldPause, endCallback,
                 notifying, life>>

\* After a move of the task no other one is scheduled: there is one task as
\* long as task_running_ is left as the place of the task tells.
LEMMA TaskMovesOneTask ==
  ASSUME TaskMoves,
         \/ taskRunning' /\ tpc' \notin {"none", "endCallback", "delete"}
         \/ ~taskRunning' /\ tpc' \in {"none", "endCallback", "delete"}
  PROVE  OneTask'
<1>1. scheduled' = 0
  BY DEF TaskMoves
<1>2. CASE taskRunning' /\ tpc' \notin {"none", "endCallback", "delete"}
  BY <1>1, <1>2 DEF OneTask
<1>3. CASE ~taskRunning' /\ tpc' \in {"none", "endCallback", "delete"}
  BY <1>1, <1>3 DEF OneTask
<1> QED  BY <1>2, <1>3, Zenon

\* What none of them can disturb.
LEMMA TaskMovesKeep ==
  ASSUME IInv, TaskMoves
  PROVE  /\ QueueTypes' /\ PausingTypes' /\ LifeTypes' /\ Queueing'
         /\ pool /\ owner \in {"runLoop", "gone"} /\ ~deleted
         /\ shutdown = "none" /\ closer # "delete"
         /\ deleteMe => kind = "native" /\ endCallback = "none"
<1>0. Types /\ Queueing /\ Tasking /\ Native /\ Deleting
  BY DEF IInv
<1>1. QueueTypes'
  BY <1>0, HandlerConstants DEF Types, QueueTypes, TaskMoves
<1>2. PausingTypes'
  BY <1>0 DEF Types, PausingTypes, TaskMoves
<1>3. LifeTypes'
  BY <1>0 DEF Types, LifeTypes, TaskMoves, life
<1>4. Queueing'
  <2>1. oob' \in {0, oob} /\ queue' = queue /\ posted' = posted /\ postedOOB' = postedOOB
    BY DEF TaskMoves
  <2>2. oob <= postedOOB /\ postedOOB \in 0 .. MaxOOB
    BY <1>0, Zenon DEF Types, QueueTypes, Queueing
  <2>3. oob' <= postedOOB'
    BY ONLY <2>1, <2>2
  <2> QED  BY <1>0, <2>1, <2>3, ZenonT(20) DEF Queueing, EventsInOrder
<1>5. pool /\ owner \in {"runLoop", "gone"}
  BY <1>0 DEF Tasking, TaskMoves
<1>6. ~deleted /\ shutdown = "none" /\ closer # "delete"
  BY <1>0, <1>5 DEF Deleting, TaskMoves
<1>7. deleteMe => kind = "native" /\ endCallback = "none"
  BY <1>0 DEF Deleting, Native
<1> QED  BY <1>1, <1>2, <1>3, <1>4, <1>5, <1>6, <1>7

\* TaskCallback calls HandleMessages.
LEMMA TaskCalls ==
  ASSUME IInv, TaskMoves, NEW pc \in CallPCs,
         NEW normal \in BOOLEAN, NEW multi \in BOOLEAN,
         CallHandleMessages(pc, normal, multi),
         pc = "main" => normal /\ multi,
         pc = "onStart" => isPaused'.start,
         pc \in {"onExit", "afterExit"} => isPaused'.exit,
         kind = "native" => pc = "main"
  PROVE  IInv'
<1> DEFINE f == NewFrame(normal, multi)
<1>0. Types /\ OneTask /\ Tasking /\ Native /\ Deleting
  BY DEF IInv
<1>a. /\ f \in Frame /\ f.message = "none" /\ f.status = kOK /\ f.result = kOK
      /\ f.pc = "start" /\ f.normal = normal /\ f.multi = multi
  BY NewFrameType
<1>b. frames' = <<f>> /\ tpc' = pc /\ UNCHANGED <<taskRunning, pool>>
  BY DEF CallHandleMessages
<1> HIDE DEF f
<1>c. /\ frames' \in Seq(Frame) /\ Len(frames') = 1 /\ frames' # <<>>
      /\ Top' = f /\ frames'[1] = f
  BY <1>a, <1>b, Single DEF Top
<1>1. Types'
  <2>1. TaskTypes'
    BY <1>0, <1>b DEF Types, TaskTypes, CallPCs, TaskMoves
  <2>2. FrameTypes'
    <3>1. Len(frames') <= MaxDepth
      BY <1>c, HandlerConstants
    <3> QED  BY <1>0, <1>c, <3>1 DEF Types, FrameTypes, TaskMoves
  <2> QED  BY <2>1, <2>2, TaskMovesKeep DEF Types
<1>2. OneTask'
  BY <1>b, TaskMovesOneTask, ZenonT(20) DEF CallPCs, TaskMoves
<1>3. Tasking'
  BY <1>0, <1>b, TaskMovesKeep DEF Tasking, CallPCs, TaskMoves, life
<1>4. Calling'
  BY <1>a, <1>b, <1>c, ZenonT(20) DEF Calling, CallPCs
<1>5. NoStrandedMessage'
  BY ZenonT(20), <1>b DEF NoStrandedMessage, TaskMoves
<1>6. Native'
  <2>1. UNCHANGED <<kind, notifying, endCallback, shutdown, owner>> /\ oob' \in {0, oob}
    BY Zenon DEF TaskMoves, life
  <2>2. kind # "isolate" => kind = "native" /\ ~isPaused'.exit /\ pc = "main"
    BY <1>0, Zenon DEF Types, LifeTypes, TaskMoves
  <2>3. Top'.message # "oob" /\ Top'.status = kOK /\ Top'.result = kOK
    BY <1>a, <1>c, Zenon
  <2>4. Len(frames') <= 1
    BY <1>c
  <2>5. kind # "isolate" => /\ oob = 0 /\ notifying # "oob" /\ endCallback = "none"
                            /\ shutdown = "none" /\ owner \in {"creating", "gone"}
    BY <1>0, Zenon DEF Native
  <2>6. kind = "isolate" => owner # "creating"
    BY <1>0, Zenon DEF Native
  <2>7. kind # "isolate" => oob' = 0 /\ tpc' = "main"
    BY <1>b, <2>1, <2>2, <2>5, Zenon
  <2> QED  BY ONLY <2>1, <2>2, <2>3, <2>4, <2>5, <2>6, <2>7 DEF Native
<1>7. Deleting'
  BY <1>0, <1>b, TaskMovesKeep, ZenonT(20) DEF Deleting, CallPCs, TaskMoves, life
<1>8. Interrupting'
  <2>1. owner' # "owns"
    BY TaskMovesKeep DEF TaskMoves, life
  <2> QED  BY <1>a, <1>c, <2>1 DEF Interrupting, Entered
<1> QED  BY <1>1, <1>2, <1>3, <1>4, <1>5, <1>6, <1>7, <1>8, TaskMovesKeep DEF IInv

\* TaskCallback tells the isolate that it is about to pause.
LEMMA TaskNotifies ==
  ASSUME IInv, TaskMoves, tpc' \in {"notifyStart", "notifyExit"}, frames' = <<>>,
         kind = "isolate", UNCHANGED <<taskRunning, pool>>
  PROVE  IInv'
<1>0. Types /\ OneTask /\ Tasking /\ Native /\ Deleting
  BY DEF IInv
<1>1. Types'
  <2>1. TaskTypes'
    BY <1>0 DEF Types, TaskTypes, TaskMoves
  <2>2. frames' \in Seq(Frame) /\ Len(frames') <= MaxDepth
    BY HandlerConstants
  <2>3. FrameTypes'
    BY <1>0, <2>2 DEF Types, FrameTypes, TaskMoves
  <2> QED  BY <2>1, <2>3, TaskMovesKeep DEF Types
<1>2. OneTask'
  BY TaskMovesOneTask, ZenonT(20) DEF TaskMoves
<1>3. Tasking'
  BY ZenonT(20), <1>0, TaskMovesKeep DEF Tasking, TaskMoves, life
<1>4. Calling'
  BY DEF Calling, CallPCs
<1>5. NoStrandedMessage'
  BY ZenonT(20) DEF NoStrandedMessage, TaskMoves
<1>6. Native'
  BY ZenonT(20), <1>0 DEF Native, Types, LifeTypes, TaskMoves, life
<1>7. Deleting'
  BY <1>0, TaskMovesKeep DEF Deleting, TaskMoves, life
<1>8. Interrupting'
  BY TaskMovesKeep DEF Interrupting, Entered, TaskMoves, life
<1> QED  BY <1>1, <1>2, <1>3, <1>4, <1>5, <1>6, <1>7, <1>8, TaskMovesKeep DEF IInv

\* The task ends when there is nothing to do, or the handler is paused.
LEMMA TaskEndsInv ==
  ASSUME IInv, TaskMoves, TaskEnds, oob' = 0, ~deleteMe,
         queue # <<>> => paused > 0 \/ isPaused'.start \/ isPaused'.exit
  PROVE  IInv'
<1>0. Types /\ OneTask /\ Tasking /\ Native /\ Deleting
  BY DEF IInv
<1>1. Types'
  <2>1. TaskTypes'
    BY <1>0, ZenonT(20) DEF Types, TaskTypes, TaskMoves, TaskEnds
  <2>2. frames' \in Seq(Frame) /\ Len(frames') <= MaxDepth
    BY HandlerConstants DEF TaskEnds
  <2>3. FrameTypes'
    BY <1>0, <2>2 DEF Types, FrameTypes, TaskMoves
  <2> QED  BY <2>1, <2>3, TaskMovesKeep DEF Types
<1>2. OneTask'
  BY TaskMovesOneTask, ZenonT(20) DEF TaskEnds
<1>3. Tasking'
  BY <1>0, TaskMovesKeep DEF Tasking, TaskMoves, TaskEnds, life
<1>4. Calling'
  BY DEF Calling, CallPCs, TaskEnds
<1>5. NoStrandedMessage'
  BY ZenonT(20) DEF NoStrandedMessage, TaskMoves
<1>6. Native'
  <2>1. UNCHANGED <<kind, notifying, endCallback, shutdown, owner>> /\ oob' \in {0, oob}
    BY Zenon DEF TaskMoves, life
  <2>2. kind # "isolate" => kind = "native" /\ ~isPaused'.exit
    BY <1>0, Zenon DEF Types, LifeTypes, TaskMoves
  <2>3. CASE kind = "isolate"
    BY <1>0, <2>1, <2>3, ZenonT(30) DEF Native
  <2>4. CASE kind # "isolate"
    <3>1. /\ oob = 0 /\ notifying # "oob" /\ endCallback = "none" /\ shutdown = "none"
          /\ owner \in {"creating", "gone"}
      BY <1>0, <2>4, Zenon DEF Native
    <3>2. frames' = <<>> /\ tpc' = "none"
      BY Zenon DEF TaskEnds
    <3>3. Len(frames') <= 1
      BY <3>2
    <3> QED  BY <2>1, <2>2, <2>4, <3>1, <3>2, <3>3 DEF Native
  <2> QED  BY <2>3, <2>4
<1>7. Deleting'
  BY <1>0, TaskMovesKeep, ZenonT(20) DEF Deleting, TaskMoves, TaskEnds, life
<1>8. Interrupting'
  BY TaskMovesKeep DEF Interrupting, Entered, TaskMoves, TaskEnds, life
<1> QED  BY ZenonT(20), <1>1, <1>2, <1>3, <1>4, <1>5, <1>6, <1>7, <1>8, TaskMovesKeep DEF IInv

\* The handler stops.
LEMMA StopInv ==
  ASSUME IInv, TaskMoves, Stop, oob' = 0
  PROVE  IInv'
<1>0. Types /\ OneTask /\ Tasking /\ Native /\ Deleting
  BY DEF IInv
<1>1. Types'
  <2>1. TaskTypes'
    BY <1>0, ZenonT(20) DEF Types, TaskTypes, TaskMoves, Stop
  <2>2. frames' \in Seq(Frame) /\ Len(frames') <= MaxDepth
    BY HandlerConstants DEF Stop
  <2>3. FrameTypes'
    BY <1>0, <2>2 DEF Types, FrameTypes, TaskMoves
  <2> QED  BY <2>1, <2>3, TaskMovesKeep DEF Types
<1>2. OneTask'
  BY TaskMovesOneTask, ZenonT(20) DEF Stop
<1>3. Tasking'
  BY <1>0, TaskMovesKeep DEF Tasking, TaskMoves, Stop, life
<1>4. Calling'
  BY DEF Calling, CallPCs, Stop
<1>5. NoStrandedMessage'
  BY ZenonT(20) DEF NoStrandedMessage, Stop
<1>6. Native'
  <2>1. UNCHANGED <<kind, notifying, endCallback, shutdown, owner>> /\ oob' \in {0, oob}
    BY Zenon DEF TaskMoves, life
  <2>2. kind # "isolate" => kind = "native" /\ ~isPaused'.exit
    BY <1>0, Zenon DEF Types, LifeTypes, TaskMoves
  <2>3. CASE kind = "isolate"
    BY <1>0, <2>1, <2>3, ZenonT(30) DEF Native
  <2>4. CASE kind # "isolate"
    <3>1. /\ oob = 0 /\ notifying # "oob" /\ endCallback = "none" /\ shutdown = "none"
          /\ owner \in {"creating", "gone"}
      BY <1>0, <2>4, Zenon DEF Native
    <3>2. frames' = <<>> /\ tpc' \in {"none", "delete"}
      BY <3>1, Zenon DEF Stop
    <3>3. Len(frames') <= 1
      BY <3>2
    <3> QED  BY <2>1, <2>2, <2>4, <3>1, <3>2, <3>3 DEF Native
  <2> QED  BY <2>3, <2>4
<1>7. Deleting'
  BY <1>0, TaskMovesKeep, ZenonT(20) DEF Deleting, TaskMoves, Stop, life
<1>8. Interrupting'
  BY TaskMovesKeep DEF Interrupting, Entered, TaskMoves, Stop, life
<1> QED  BY <1>1, <1>2, <1>3, <1>4, <1>5, <1>6, <1>7, <1>8, TaskMovesKeep DEF IInv

\* The end of a task's work: it ends, pauses or stops.
LEMMA StopOrPauseInv ==
  ASSUME IInv, TaskMoves, NEW status \in Status, StopOrPause(status), oob' = 0,
         status = kOK /\ queue # <<>> => paused > 0 \/ isPaused'.start \/ isPaused'.exit
  PROVE  IInv'
<1>1. CASE status = kOK /\ KeepAliveLocked /\ TaskEnds
  BY <1>1, TaskEndsInv DEF KeepAliveLocked
<1>2. CASE /\ ShouldPauseOnExit(status) /\ tpc' = "notifyExit" /\ frames' = <<>>
           /\ UNCHANGED <<taskRunning, pool>>
  BY <1>2, TaskNotifies DEF ShouldPauseOnExit
<1>3. CASE Stop
  BY <1>3, StopInv
<1> QED  BY <1>1, <1>2, <1>3 DEF StopOrPause

\* The task handles messages, or its work ends.
LEMMA HandlePendingInv ==
  ASSUME IInv, TaskMoves, NEW status \in Status, HandlePending(status),
         status # kOK => oob' = 0
  PROVE  IInv'
<1>1. CASE status = kOK /\ CallHandleMessages("main", TRUE, TRUE)
  BY <1>1, TaskCalls, ZenonT(20) DEF CallPCs
<1>2. CASE status # kOK /\ StopOrPause(status)
  BY <1>2, StopOrPauseInv
<1> QED  BY <1>1, <1>2, Zenon DEF HandlePending

LEMMA CheckPausedOnExitInv ==
  ASSUME IInv, TaskMoves, NEW status \in Status, CheckPausedOnExit(status),
         isPaused'.exit = isPaused.exit, status # kOK => oob' = 0
  PROVE  IInv'
<1>1. CASE isPaused.exit /\ CallHandleMessages("onExit", FALSE, FALSE)
  <2>1. kind # "native"
    BY ZenonT(20), <1>1 DEF IInv, Native
  <2> QED  BY <1>1, <2>1, TaskCalls, ZenonT(20) DEF CallPCs
<1>2. CASE HandlePending(status)
  BY <1>2, HandlePendingInv
<1> QED  BY <1>1, <1>2, Zenon DEF CheckPausedOnExit

\* A task that is about to run or runs is the only one.
LEMMA OnlyTask ==
  ASSUME IInv, scheduled > 0 \/ tpc \in ActivePCs
  PROVE  /\ taskRunning /\ pool
         /\ scheduled > 0 => scheduled = 1 /\ tpc = "none"
         /\ tpc \in ActivePCs => scheduled = 0
         /\ tpc \notin CallPCs => frames = <<>>
<1>0. Types /\ OneTask /\ Tasking /\ Calling
  BY DEF IInv
<1>1. scheduled \in Nat /\ tpc \notin {"none", "endCallback", "delete"} <=> tpc \in ActivePCs
  BY <1>0 DEF Types, TaskTypes, ActivePCs, CallPCs
<1>2. taskRunning /\ (scheduled > 0 => scheduled = 1 /\ tpc \notin ActivePCs)
      /\ (tpc \in ActivePCs => scheduled = 0)
  BY <1>0 DEF OneTask, Types, TaskTypes, ActivePCs, CallPCs
<1>3. pool /\ tpc \notin {"endCallback", "delete"} /\ owner \notin {"owns", "outside", "creating"}
  BY <1>0, <1>2 DEF Tasking
<1>4. tpc \notin CallPCs => frames = <<>>
  BY <1>0, <1>3 DEF Calling
<1>5. scheduled > 0 => tpc = "none"
  BY <1>0, <1>2, <1>3 DEF Types, TaskTypes, ActivePCs, CallPCs
<1> QED  BY <1>2, <1>3, <1>4, <1>5

\* A worker starts the task.
LEMMA TaskCallbackInv == ASSUME IInv, TaskCallback PROVE IInv'
<1>0. Types /\ Native
  BY DEF IInv
<1>1. scheduled > 0 /\ scheduled' = scheduled - 1 /\ UNCHANGED <<queue, oob, isPaused>>
  BY DEF TaskCallback, queues
<1>2. taskRunning /\ scheduled = 1 /\ tpc = "none" /\ frames = <<>>
  BY <1>1, OnlyTask DEF CallPCs
<1>a. remembered' = remembered
  BY ZenonT(20) DEF TaskCallback, CallHandleMessages, CheckPausedOnExit, HandlePending,
         ShouldPauseOnStart, StopOrPause
<1>3. TaskMoves
  <2>1. scheduled' = 0
    BY <1>1, <1>2
  <2>2. isPaused' \in [start : BOOLEAN, exit : BOOLEAN] /\ remembered' \in Status
    BY ZenonT(20), <1>0, <1>1, <1>a DEF Types, PausingTypes
  <2>3. kind = "native" => ~isPaused'.exit
    BY <1>0, <1>1 DEF Native
  <2>4. UNCHANGED <<kind, posted, postedOOB, paused, shouldPause, endCallback,
                    interrupt, notifying, life>>
    BY DEF TaskCallback, queues
  <2> QED  BY <1>1, <1>2, <2>1, <2>2, <2>3, <2>4 DEF TaskMoves
<1>4. kOK \in Status
  BY DEF Status, kOK, kShutdown
<1>5. CASE /\ ShouldPauseOnStart(kOK) /\ tpc' = "notifyStart"
           /\ UNCHANGED <<frames, taskRunning, pool, remembered>>
  BY <1>2, <1>3, <1>5, TaskNotifies DEF ShouldPauseOnStart
<1>6. CASE /\ ShouldPauseOnStart(kOK) /\ isPaused.start
           /\ CallHandleMessages("onStart", FALSE, FALSE)
  <2>1. kind # "native" /\ isPaused'.start
    BY <1>1, <1>6 DEF ShouldPauseOnStart
  <2> QED  BY <1>3, <1>6, <2>1, TaskCalls, Zenon DEF CallPCs
<1>7. CASE CheckPausedOnExit(kOK)
  BY <1>1, <1>3, <1>4, <1>7, CheckPausedOnExitInv
<1> QED  BY <1>5, <1>6, <1>7, Zenon DEF TaskCallback

\* The isolate has been told that it is paused.
LEMMA PausedLockedInv ==
  ASSUME IInv,
         NEW where \in {"start", "exit"}, NEW at \in {"notifyStart", "notifyExit"},
         NEW next \in CallPCs, PausedLocked(where, at, next), next # "main",
         next = "onStart" => where = "start",
         next \in {"onExit", "afterExit"} => where = "exit"
  PROVE  IInv'
<1>0. Types /\ Native
  BY DEF IInv
<1>1. tpc = at /\ CallHandleMessages(next, FALSE, FALSE) /\ remembered' = remembered
      /\ isPaused' = [isPaused EXCEPT ![where] = TRUE]
      /\ UNCHANGED <<queue, oob, scheduled>>
  BY DEF PausedLocked, queues, CallHandleMessages
<1>2. taskRunning /\ scheduled = 0 /\ frames = <<>>
  BY <1>1, OnlyTask DEF ActivePCs, CallPCs
<1>3. kind = "isolate"
  BY <1>0, <1>1 DEF Types, LifeTypes, Native
<1>4. isPaused' \in [start : BOOLEAN, exit : BOOLEAN] /\ isPaused'[where] = TRUE
  BY <1>0, <1>1, ZenonT(20) DEF Types, PausingTypes
<1>5. TaskMoves
  <2>1. UNCHANGED <<kind, posted, postedOOB, paused, shouldPause, endCallback,
                    interrupt, notifying, life>>
    BY ZenonT(20) DEF PausedLocked, queues
  <2>2. remembered' \in Status
    BY <1>0, <1>1 DEF Types, PausingTypes
  <2> QED  BY ZenonT(20), <1>1, <1>2, <1>3, <1>4, <2>1, <2>2 DEF TaskMoves
<1>6. /\ next = "onStart" => isPaused'.start
      /\ next \in {"onExit", "afterExit"} => isPaused'.exit
  BY <1>4
<1> QED  BY <1>1, <1>3, <1>5, <1>6, TaskCalls, ZenonT(20)

LEMMA TaskStepInv == ASSUME IInv, TaskStep PROVE IInv'
<1>1. CASE PausedOnStartLocked
  BY <1>1, PausedLockedInv DEF PausedOnStartLocked, CallPCs
<1>2. CASE PausedOnExitLocked
  BY <1>2, PausedLockedInv DEF PausedOnExitLocked, CallPCs
<1> QED  BY <1>1, <1>2, TaskCallbackInv, EndCallbackInv DEF TaskStep

-----------------------------------------------------------------------------
(* HandleMessages. *)

\* What its steps leave alone.
CallKeeps ==
  UNCHANGED <<kind, posted, postedOOB, paused, shouldPause, endCallback,
              scheduled, notifying, life>>

\* TaskCallback goes on when HandleMessages returns to it.
LEMMA TaskContinuesInv ==
  ASSUME IInv, NEW status \in Status, TaskContinues(status), Exit, CallKeeps,
         queue' = queue, oob' = 0,
         tpc = "main" /\ status = kOK /\ queue # <<>> => paused > 0
  PROVE  IInv'
<1>0. Types /\ Calling /\ Native /\ Deleting
  BY DEF IInv
<1>1. tpc \in CallPCs
  BY DEF TaskContinues, CallPCs
<1>2. taskRunning /\ scheduled = 0
  BY <1>1, OnlyTask DEF ActivePCs
<1>3. isPaused \in [start : BOOLEAN, exit : BOOLEAN] /\ remembered \in Status
  BY <1>0 DEF Types, PausingTypes
<1>4. kind = "native" => tpc = "main" /\ ~isPaused.exit
  BY <1>0, <1>1 DEF Types, LifeTypes, Native, CallPCs
<1>5. kind = "isolate" => ~deleteMe
  BY <1>0 DEF Deleting
<1>a. ASSUME isPaused' \in [start : BOOLEAN, exit : BOOLEAN], remembered' \in Status,
             kind = "native" => ~isPaused'.exit
      PROVE  TaskMoves
  BY <1>2, <1>a DEF TaskMoves, CallKeeps, Exit
<1>6. CASE tpc = "onStart"
  <2>1. CASE ShouldPauseOnStart(status) /\ TaskEnds /\ UNCHANGED isPaused
    <3>1. kind = "isolate" /\ isPaused'.start /\ remembered' = remembered
      BY <1>0, <1>6, <2>1 DEF ShouldPauseOnStart, Calling, TaskEnds
    <3>2. TaskMoves
      BY <1>3, <1>4, <1>a, <2>1, <3>1
    <3> QED  BY ZenonT(20), <1>5, <2>1, <3>1, <3>2, TaskEndsInv
  <2>2. CASE Resumed("start") /\ CheckPausedOnExit(status)
    <3>1. isPaused' \in [start : BOOLEAN, exit : BOOLEAN] /\ isPaused'.exit = isPaused.exit
      BY <1>3, <2>2, Zenon DEF Resumed
    <3>2. remembered' \in {remembered, status}
      BY ZenonT(20), <2>2 DEF CheckPausedOnExit, CallHandleMessages, HandlePending, StopOrPause,
                  TaskEnds, Stop
    <3>3. TaskMoves
      BY ZenonT(20), <1>3, <1>4, <1>a, <3>1, <3>2
    <3> QED  BY <2>2, <3>1, <3>3, CheckPausedOnExitInv
  <2> QED  BY ZenonT(20), <1>6, <2>1, <2>2 DEF TaskContinues
<1>7. CASE tpc = "onExit"
  <2>1. CASE ShouldPauseOnExit(status) /\ TaskEnds /\ UNCHANGED isPaused
    <3>1. kind = "isolate" /\ isPaused'.exit /\ remembered' = remembered
      BY <1>0, <1>7, <2>1 DEF ShouldPauseOnExit, Calling, TaskEnds
    <3>2. TaskMoves
      BY <1>3, <1>4, <1>a, <2>1, <3>1
    <3> QED  BY ZenonT(20), <1>5, <2>1, <3>1, <3>2, TaskEndsInv
  <2>2. CASE /\ Resumed("exit")
             /\ HandlePending(IF status = kShutdown THEN status ELSE remembered)
    <3> DEFINE s == IF status = kShutdown THEN status ELSE remembered
    <3>0. HandlePending(s) /\ s \in Status
      BY <1>3, <2>2
    <3> HIDE DEF s
    <3>1. isPaused' \in [start : BOOLEAN, exit : BOOLEAN] /\ ~isPaused'.exit
      BY <1>3, <2>2, Zenon DEF Resumed
    <3>2. remembered' \in {remembered, s}
      BY <3>0, ZenonT(20) DEF CallHandleMessages, HandlePending, StopOrPause, TaskEnds, Stop
    <3>3. TaskMoves
      BY <1>3, <1>a, <3>0, <3>1, <3>2
    <3> QED  BY <3>0, <3>3, HandlePendingInv
  <2> QED  BY <1>7, <2>1, <2>2 DEF TaskContinues
<1>8. CASE tpc = "main"
  <2>1. StopOrPause(status) /\ UNCHANGED isPaused
    BY <1>8 DEF TaskContinues
  <2>2. remembered' \in {remembered, status}
    BY <2>1 DEF StopOrPause, TaskEnds, Stop
  <2>3. TaskMoves
    BY ZenonT(20), <1>3, <1>4, <1>a, <2>1, <2>2
  <2> QED  BY <1>8, <2>1, <2>3, StopOrPauseInv
<1>9. CASE tpc = "afterExit"
  <2>1. CASE ShouldPauseOnExit(status) /\ TaskEnds /\ UNCHANGED isPaused
    <3>1. kind = "isolate" /\ isPaused'.exit /\ remembered' = remembered
      BY ZenonT(20), <1>0, <1>9, <2>1 DEF ShouldPauseOnExit, Calling, TaskEnds
    <3>2. TaskMoves
      BY <1>3, <1>4, <1>a, <2>1, <3>1
    <3> QED  BY <1>5, <2>1, <3>1, <3>2, TaskEndsInv
  <2>2. CASE Resumed("exit") /\ Stop
    <3>1. isPaused' \in [start : BOOLEAN, exit : BOOLEAN] /\ ~isPaused'.exit
      BY <1>3, <2>2, ZenonT(20) DEF Resumed
    <3>2. TaskMoves
      BY <1>3, <1>a, <2>2, <3>1 DEF Stop
    <3> QED  BY <2>2, <3>2, StopInv
  <2> QED  BY ZenonT(20), <1>9, <2>1, <2>2 DEF TaskContinues
<1> QED  BY <1>6, <1>7, <1>8, <1>9 DEF TaskContinues

\* A handler on a pool handles messages in its task.
LEMMA CallsAreTasks ==
  ASSUME IInv, frames # <<>>
  PROVE  /\ pool => taskRunning
         /\ kind = "native" => tpc \in CallPCs
<1>0. Tasking /\ Calling /\ Native
  BY DEF IInv
<1>1. CASE tpc \in CallPCs
  BY <1>1, OnlyTask DEF ActivePCs
<1>2. CASE owner = "owns"
  BY <1>0, <1>2 DEF Tasking, Native
<1> QED  BY <1>0, <1>1, <1>2 DEF Calling

\* HandleMessages returns to the mutator.
LEMMA PopInv ==
  ASSUME IInv, frames # <<>>, Len(frames) > 1 \/ tpc = "none", frames' = Below,
         UNCHANGED <<taskRunning, pool, tpc, isPaused, remembered, interrupt>>,
         queue' = queue, oob' = 0, CallKeeps
  PROVE  IInv'
<1>0. Types /\ Queueing /\ OneTask /\ Tasking /\ Calling
      /\ NoStrandedMessage /\ Native /\ Deleting /\ Interrupting
  BY DEF IInv
<1>a. frames \in Seq(Frame) /\ Len(frames) <= MaxDepth /\ MaxDepth \in Nat
  BY <1>0, HandlerConstants DEF Types, FrameTypes
<1>b. /\ frames' \in Seq(Frame) /\ Len(frames') = Len(frames) - 1
      /\ frames' = <<>> <=> Len(frames) = 1
      /\ Len(frames) > 1 => frames'[1] = frames[1]
  <2>1. frames' = SubSeq(frames, 1, Len(frames) - 1)
    BY DEF Below
  <2> QED  BY <1>a, <2>1, Pop, Zenon
<1>c. Len(frames) \in Nat \ {0}
  BY <1>a, EmptyStack
<1>d. kind # "native"
  BY <1>0, <1>c, CallsAreTasks DEF Native, CallPCs
<1>1. Types'
  <2>1. QueueTypes'
    BY <1>0, HandlerConstants DEF Types, QueueTypes, CallKeeps
  <2>2. PausingTypes'
    BY <1>0 DEF Types, PausingTypes, CallKeeps
  <2>3. TaskTypes'
    BY <1>0 DEF Types, TaskTypes, CallKeeps
  <2>4. FrameTypes'
    <3>1. Len(frames') <= MaxDepth
      BY <1>a, <1>b, <1>c
    <3> QED  BY <1>0, <1>b, <3>1 DEF Types, FrameTypes, CallKeeps
  <2>5. LifeTypes'
    BY ZenonT(20), <1>0 DEF Types, LifeTypes, CallKeeps, life
  <2> QED  BY ZenonT(20), <2>1, <2>2, <2>3, <2>4, <2>5 DEF Types
<1>2. Queueing'
  <2>1. UNCHANGED <<queue, posted, postedOOB>> /\ oob' = 0
    BY DEF CallKeeps
  <2>2. 0 <= postedOOB
    BY <1>0 DEF Types, QueueTypes
  <2>3. EventsInOrder'
    BY <1>0, <2>1, Zenon DEF Queueing, EventsInOrder
  <2> QED  BY <1>0, <2>1, <2>2, <2>3, Zenon DEF Queueing
<1>3. OneTask'
  BY ZenonT(20), <1>0 DEF OneTask, CallKeeps
<1>4. Tasking'
  BY ZenonT(20), <1>0 DEF Tasking, CallKeeps, life
<1>5. Calling'
  BY <1>0, <1>b, <1>c DEF Calling, CallPCs, CallKeeps, life
<1>6. NoStrandedMessage'
  BY ZenonT(20), <1>0 DEF NoStrandedMessage, CallKeeps
<1>7. Native'
  BY ZenonT(20), <1>0, <1>d DEF Native, Types, LifeTypes, CallKeeps, life
<1>8. Deleting'
  BY <1>0 DEF Deleting, CallKeeps, life
<1>9. Interrupting'
  <2>1. UNCHANGED <<kind, owner, interrupt>> /\ oob' = 0
    BY DEF CallKeeps, life
  <2> QED  BY <1>0, <1>b, <2>1 DEF Interrupting, Entered
<1> QED  BY <1>1, <1>2, <1>3, <1>4, <1>5, <1>6, <1>7, <1>8, <1>9 DEF IInv

\* A call of HandleMessages returns its status.
LEMMA ReturnInv ==
  ASSUME IInv, frames # <<>>, NEW status \in Status, Return(status),
         queue' = queue, oob' = 0, CallKeeps,
         tpc = "main" /\ Len(frames) = 1 /\ status = kOK /\ queue # <<>> => paused > 0
  PROVE  IInv'
<1>1. CASE Len(frames) = 1 /\ Exit /\ TaskContinues(status)
  BY <1>1, TaskContinuesInv
<1>2. CASE /\ Len(frames) > 1 \/ tpc = "none"
           /\ frames' = Below
           /\ UNCHANGED <<taskRunning, pool, tpc, isPaused, remembered, interrupt>>
  BY <1>2, PopInv
<1> QED  BY <1>1, <1>2 DEF Return

\* A call of HandleMessages handles the message it has dequeued.
LEMMA HandleInv ==
  ASSUME IInv, frames # <<>>, NEW f \in Frame, NEW message, Handle(f, message),
         tpc = "main" /\ Len(frames) = 1 => f.normal /\ f.multi,
         kind = "native" => f.status = kOK, CallKeeps,
         kind = "isolate" => interrupt # "noThread",
         \/ message = "oob" /\ oob > 0 /\ oob' = oob - 1 /\ queue' = queue
         \/ /\ message = "normal" /\ oob = 0 /\ oob' = 0
            /\ queue # <<>> /\ queue' = Tail(queue)
  PROVE  IInv'
<1>0. Types /\ Queueing /\ OneTask /\ Tasking /\ Calling
      /\ NoStrandedMessage /\ Native /\ Deleting /\ Interrupting
  BY DEF IInv
<1> DEFINE g == [f EXCEPT !.pc = "handling", !.message = message, !.result = kOK]
<1>a. frames \in Seq(Frame) /\ Len(frames) <= MaxDepth
  BY <1>0 DEF Types, FrameTypes
<1>b. /\ g \in Frame /\ g.message = message /\ g.status = f.status /\ g.result = kOK
      /\ g.normal = f.normal /\ g.multi = f.multi
  <2>1. message \in {"none", "normal", "oob"} /\ kOK \in Status
    BY DEF Status, kOK, kShutdown
  <2> QED  BY <2>1, ZenonT(20) DEF Frame
<1>c. /\ frames' = Append(Below, g)
      /\ UNCHANGED <<taskRunning, pool, tpc, isPaused, remembered, interrupt>>
  BY ZenonT(20) DEF Handle
<1> HIDE DEF g
<1>d. /\ frames' \in Seq(Frame) /\ Len(frames') = Len(frames) /\ frames' # <<>>
      /\ Top' = g /\ frames'[1] = IF Len(frames) = 1 THEN g ELSE frames[1]
  BY ZenonT(20), <1>a, <1>b, <1>c, ReplaceTop
<1>e. QueueTypes' /\ Queueing'
  <2>0. oob \in Nat /\ posted \in Nat /\ queue \in Seq(Message)
    BY <1>0, HandlerConstants DEF Types, QueueTypes
  <2>1. oob' \in 0 .. MaxOOB /\ oob' <= postedOOB'
    <3>1. oob \in 0 .. MaxOOB /\ postedOOB \in 0 .. MaxOOB /\ oob <= postedOOB
      BY <1>0, Zenon DEF Types, QueueTypes, Queueing
    <3>2. postedOOB' = postedOOB
      BY Zenon DEF CallKeeps
    <3>3. oob' = 0 \/ (oob > 0 /\ oob' = oob - 1)
      BY ZenonT(30)
    <3> QED  BY ONLY <2>0, <3>1, <3>2, <3>3, HandlerConstants
  <2>2. InOrder(queue, posted)
    BY <1>0 DEF Queueing, EventsInOrder, InOrder
  <2>3. queue' \in Seq(Message) /\ InOrder(queue', posted)
    BY <2>0, <2>2, TailKeepsOrder, ZenonT(20)
  <2>4. posted' = posted /\ postedOOB' = postedOOB
    BY DEF CallKeeps
  <2> QED  BY ZenonT(20), <1>0, <2>1, <2>3, <2>4 DEF Types, QueueTypes, Queueing, EventsInOrder, InOrder
<1>1. Types'
  <2>2. PausingTypes'
    BY ZenonT(20), <1>0, <1>c DEF Types, PausingTypes, CallKeeps
  <2>3. TaskTypes'
    BY ZenonT(20), <1>0, <1>c DEF Types, TaskTypes, CallKeeps
  <2>4. FrameTypes'
    BY ZenonT(20), <1>0, <1>a, <1>c, <1>d DEF Types, FrameTypes, CallKeeps
  <2>5. LifeTypes'
    BY <1>0 DEF Types, LifeTypes, CallKeeps, life
  <2> QED  BY ZenonT(20), <1>e, <2>2, <2>3, <2>4, <2>5 DEF Types
<1>3. OneTask'
  BY ZenonT(20), <1>0, <1>c DEF OneTask, CallKeeps
<1>4. Tasking'
  BY <1>0, <1>c DEF Tasking, CallKeeps, life
<1>5. Calling'
  BY <1>0, <1>b, <1>c, <1>d, ZenonT(20) DEF Calling, CallPCs, CallKeeps, life
<1>6. NoStrandedMessage'
  BY <1>c, CallsAreTasks DEF NoStrandedMessage
<1>7. Native'
  <2>1. kind # "isolate" => kind = "native" /\ message = "normal" /\ oob' = 0
    <3>1. kind # "isolate" => kind = "native" /\ oob = 0
      BY <1>0, Zenon DEF Native, Types, LifeTypes
    <3>2. oob = 0 => message = "normal" /\ oob' = 0
      OBVIOUS
    <3> QED  BY <3>1, <3>2, Zenon
  <2> QED  BY <1>0, <1>b, <1>c, <1>d, <2>1, ZenonT(20) DEF Native, CallKeeps, life
<1>8. Deleting'
  BY <1>0, <1>c DEF Deleting, CallKeeps, life
<1>9. Interrupting'
  <2>1. oob' > 0 => message = "oob"
    OBVIOUS
  <2>2. kind' = "isolate" => interrupt' # "noThread"
    BY <1>c DEF CallKeeps
  <2>3. Entered'
    BY ONLY <2>2 DEF Entered
  <2> QED  BY <1>b, <1>d, <2>1, <2>3, Zenon DEF Interrupting
<1> QED  BY ZenonT(20), <1>1, <1>e, <1>3, <1>4, <1>5, <1>6, <1>7, <1>8, <1>9 DEF IInv

\* A call of HandleMessages looks for the next message.
LEMMA DequeueMessageInv ==
  ASSUME IInv, frames # <<>>, NEW f \in Frame, DequeueMessage(f), CallKeeps,
         tpc = "main" /\ Len(frames) = 1 => f.normal /\ f.multi,
         kind = "native" => f.status = kOK,
         kind = "isolate" => interrupt # "noThread"
  PROVE  IInv'
<1>1. f.status \in Status /\ paused \in Nat
  BY HandlerConstants DEF Frame, IInv, Types, PausingTypes
<1>2. CASE oob > 0 /\ oob' = oob - 1 /\ Handle(f, "oob") /\ UNCHANGED queue
  BY <1>2, HandleInv
<1>3. CASE /\ oob = 0 /\ queue # <<>> /\ queue' = Tail(queue)
           /\ Handle(f, "normal") /\ UNCHANGED oob
  BY <1>3, HandleInv
<1>4. CASE /\ oob = 0 /\ (f.status = kOK /\ f.normal /\ paused = 0 => queue = <<>>)
           /\ Return(f.status) /\ UNCHANGED <<queue, oob>>
  <2>1. tpc = "main" /\ Len(frames) = 1 /\ f.status = kOK /\ queue # <<>> => paused > 0
    BY <1>1, <1>4
  <2> QED  BY <1>1, <1>4, <2>1, ReturnInv
<1> QED  BY <1>2, <1>3, <1>4 DEF DequeueMessage

\* The innermost call and what is known of it.
LEMMA TopFrame ==
  ASSUME IInv, frames # <<>>
  PROVE  /\ Top \in Frame
         /\ tpc = "main" /\ Len(frames) = 1 => Top.normal /\ Top.multi
         /\ kind = "native" => Top.status = kOK /\ Top.result = kOK
<1>1. frames \in Seq(Frame) /\ Calling /\ Native
  BY DEF IInv, Types, FrameTypes
<1>2. Top \in Frame
  BY <1>1, TopType
<1>3. tpc = "main" /\ Len(frames) = 1 => Top.normal /\ Top.multi
  BY <1>1 DEF Calling, Top
<1>4. kind = "native" => Top.status = kOK /\ Top.result = kOK
  BY ZenonT(20), <1>1 DEF Native
<1> QED  BY <1>2, <1>3, <1>4

\* HandleMessages has entered the isolate.
LEMMA HandleMessagesInv == ASSUME IInv, HandleMessages PROVE IInv'
<1>1. /\ frames # <<>> /\ DequeueMessage(Top) /\ CallKeeps
      /\ kind = "isolate" => interrupt # "noThread"
  BY DEF HandleMessages, CallKeeps
<1> QED  BY <1>1, TopFrame, DequeueMessageInv

\* HandleMessages goes on after a message.
LEMMA MessageHandledInv == ASSUME IInv, MessageHandled PROVE IInv'
<1> DEFINE status == IF Top.result > Top.status THEN Top.result ELSE Top.status
           normal == Top.normal /\ (Top.message = "normal" => Top.multi)
           f == [Top EXCEPT !.status = status, !.normal = normal]
<1>1. frames # <<>> /\ Top.pc = "handled" /\ CallKeeps
  BY DEF MessageHandled, CallKeeps
<1>a. kind = "isolate" => interrupt # "noThread"
  BY <1>1 DEF IInv, Interrupting, Entered
<1>2. /\ Top \in Frame
      /\ tpc = "main" /\ Len(frames) = 1 => Top.normal /\ Top.multi
      /\ kind = "native" => Top.status = kOK /\ Top.result = kOK
  BY <1>1, TopFrame
<1>3. status \in Status /\ normal \in BOOLEAN
  BY <1>2 DEF Frame
<1>4. CASE Top.result = kShutdown /\ oob' = 0 /\ Return(status) /\ UNCHANGED queue
  <2>1. status # kOK
    BY <1>2, <1>4 DEF Frame, Status, kOK, kShutdown
  <2> HIDE DEF status
  <2> QED  BY ZenonT(20), <1>1, <1>3, <1>4, <2>1, ReturnInv
<1>5. CASE DequeueMessage(f)
  <2>1. f \in Frame /\ f.status = status /\ f.normal = normal /\ f.multi = Top.multi
    BY <1>2, <1>3, ZenonT(20) DEF Frame
  <2>2. kind = "native" => status = kOK
    BY <1>2 DEF kOK
  <2>3. tpc = "main" /\ Len(frames) = 1 => normal
    BY <1>2
  <2> HIDE DEF f, status, normal
  <2> QED  BY <1>1, <1>a, <1>2, <1>5, <2>1, <2>2, <2>3, DequeueMessageInv
<1> QED  BY <1>4, <1>5 DEF MessageHandled

-----------------------------------------------------------------------------
(* The invariant, and what follows from it. *)

\* A new handler satisfies the invariant.
LEMMA InitInv == Init => IInv
<1> SUFFICES ASSUME Init PROVE IInv
  OBVIOUS
<1>1. Types
  <2>1. QueueTypes
    BY HandlerConstants DEF Init, QueueTypes
  <2>2. PausingTypes
    <3>1. paused \in 0 .. MaxPaused
      BY HandlerConstants DEF Init
    <3> QED  BY <3>1 DEF Init, PausingTypes, Status, kOK, kShutdown
  <2>3. TaskTypes
    BY Zenon DEF Init, TaskTypes
  <2>4. FrameTypes
    <3>1. frames \in Seq(Frame) /\ Len(frames) <= MaxDepth
      BY HandlerConstants DEF Init
    <3> QED  BY <3>1, ZenonT(20) DEF Init, FrameTypes
  <2>5. LifeTypes
    BY ZenonT(20) DEF Init, LifeTypes
  <2> QED  BY ZenonT(20), <2>1, <2>2, <2>3, <2>4, <2>5 DEF Types
<1>2. Queueing
  <2>1. 1 .. Len(queue) = {}
    BY DEF Init
  <2> QED  BY <2>1 DEF Init, Queueing, EventsInOrder
<1>3. OneTask /\ Tasking /\ Calling
  BY DEF Init, OneTask, Tasking, Calling, CallPCs
<1>4. NoStrandedMessage /\ Deleting /\ Interrupting
  BY DEF Init, NoStrandedMessage, Deleting, Interrupting, Entered
<1>5. Native
  BY DEF Init, Native
<1> QED  BY <1>1, <1>2, <1>3, <1>4, <1>5 DEF IInv

\* Every step keeps it.
LEMMA NextInv == IInv /\ [Next]_vars => IInv'
<1> SUFFICES ASSUME IInv, [Next]_vars PROVE IInv'
  OBVIOUS
<1>1. CASE HandleStep
  BY <1>1, StartIsolateScopeInv, HandleMessagesInv, MessageHandledInv,
     HandleNormalMessageInv, HandleOOBMessageInv
  DEF HandleStep
<1>2. CASE DeleteStep
  BY ZenonT(20), <1>2, CleanupFinalizersInv, ClosePortsInv, CloseAllPortsInv, DeleteIsolateHandlerInv,
     RequestDeletionInv, DeleteNativeHandlerInv
  DEF DeleteStep
<1>3. CASE UNCHANGED vars
  <2>1. UNCHANGED <<queues, pausing, task, life>>
        /\ UNCHANGED <<kind, frames, interrupt, notifying>>
    BY <1>3 DEF vars
  <2>2. Types'
    <3>1. QueueTypes' /\ PausingTypes'
      BY <2>1 DEF IInv, Types, QueueTypes, PausingTypes, queues, pausing
    <3>2. TaskTypes' /\ FrameTypes'
      BY <2>1 DEF IInv, Types, TaskTypes, FrameTypes, task
    <3>3. LifeTypes'
      BY ZenonT(20), <2>1 DEF IInv, Types, LifeTypes, life
    <3> QED  BY <3>1, <3>2, <3>3 DEF Types
  <2>3. Queueing'
    BY <2>1, ZenonT(20) DEF IInv, Queueing, EventsInOrder, queues
  <2>4. OneTask' /\ Tasking'
    BY ZenonT(20), <2>1 DEF IInv, OneTask, Tasking, task, life
  <2>5. Calling'
    BY <2>1 DEF IInv, Calling, CallPCs, task, life, pausing
  <2>6. NoStrandedMessage'
    BY ZenonT(20), <2>1 DEF IInv, NoStrandedMessage, queues, task, pausing
  <2>7. Native'
    BY <2>1, ZenonT(20) DEF IInv, Native, Top, queues, task, life, pausing
  <2>8. Deleting'
    BY ZenonT(20), <2>1 DEF IInv, Deleting, task, life
  <2>9. Interrupting'
    BY ZenonT(20), <2>1 DEF IInv, Interrupting, Entered, Top, queues, life
  <2> QED  BY ZenonT(20), <2>2, <2>3, <2>4, <2>5, <2>6, <2>7, <2>8, <2>9 DEF IInv
<1> QED
  BY ZenonT(20), <1>1, <1>2, <1>3, PostStepInv, MessageNotifyInv, TaskStepInv, HandleOOBMessagesInv,
     AcquiredQueuesInv, HandleNextMessageInv, EnterIsolateInv, ExitIsolateInv, RunLoopInv, NewNativePortInv,
     ShutdownIsolateInv, CloseNativePortInv
  DEF Next

(***************************************************************************)
(* The invariant holds in every state of a message handler.                *)
(***************************************************************************)
THEOREM Invariance == Spec => []IInv
BY InitInv, NextInv, PTL DEF Spec

(***************************************************************************)
(* Every variable keeps its type: paused_ and the number of tasks do not   *)
(* go below zero, whatever resume messages and workers do.                 *)
(***************************************************************************)
THEOREM TypeCorrect == Spec => []TypeOK
<1>1. IInv => TypeOK
  BY Zenon DEF IInv, Types, TypeOK, QueueTypes, PausingTypes, TaskTypes, FrameTypes, LifeTypes
<1> QED  BY <1>1, Invariance, PTL

(***************************************************************************)
(* task_running_ says that there is a task, and there is never more than   *)
(* one, for any number of posters, stops and runs of the handler.          *)
(***************************************************************************)
THEOREM ThereIsOneTask == Spec => []OneTask
<1>1. IInv => OneTask
  BY DEF IInv
<1> QED  BY <1>1, Invariance, PTL

(***************************************************************************)
(* TaskCallback clears task_running_ only when it leaves no message that   *)
(* the handler may handle.                                                 *)
(***************************************************************************)
THEOREM NoMessageIsStranded == Spec => []NoStrandedMessage
<1>1. IInv => NoStrandedMessage
  BY DEF IInv
<1> QED  BY <1>1, Invariance, PTL

(***************************************************************************)
(* Nobody uses a handler that RequestDeletion, TaskCallback or the         *)
(* shutdown of its isolate has deleted.                                    *)
(***************************************************************************)
THEOREM DeletedIsUnused == Spec => []NoUseAfterDelete
<1>1. IInv => NoUseAfterDelete
  <2> SUFFICES ASSUME IInv, deleted PROVE NoUseAfterDelete
    BY DEF NoUseAfterDelete
  <2>0. Types /\ OneTask /\ Tasking /\ Calling /\ Native /\ Deleting
    BY DEF IInv
  <2>1. CASE kind = "isolate" /\ shutdown = "done"
    <3>1. /\ owner = "gone" /\ tpc = "none" /\ ~pool /\ closer = "none"
          /\ ~open /\ notifying = "none"
      BY <2>0, <2>1 DEF Deleting
    <3>2. frames = <<>>
      BY <2>0, <3>1 DEF Calling, CallPCs
    <3>3. scheduled = 0
      BY <2>0, <3>1 DEF Tasking, OneTask, Types, TaskTypes
    <3> QED  BY <2>1, <3>1, <3>2, <3>3 DEF NoUseAfterDelete
  <2>2. CASE kind = "native" /\ closer = "done" /\ ~taskRunning /\ tpc = "none"
    <3>1. owner = "gone" /\ ~open /\ notifying = "none" /\ shutdown = "none"
      BY <2>0, <2>2 DEF Deleting, Native
    <3>2. frames = <<>>
      BY <2>0, <2>2, <3>1 DEF Calling, CallPCs
    <3>3. scheduled = 0
      BY <2>0, <2>2 DEF OneTask, Types, TaskTypes
    <3> QED  BY ZenonT(20), <2>2, <3>1, <3>2, <3>3 DEF NoUseAfterDelete
  <2> QED  BY <2>0, <2>1, <2>2 DEF Deleting
<1> QED  BY <1>1, Invariance, PTL

(***************************************************************************)
(* Out-of-band messages reach a mutator that handles a normal message,     *)
(* however deep calls of HandleMessages nest, whichever interrupts are     *)
(* dropped and however often the Thread was destroyed before.              *)
(***************************************************************************)
THEOREM OOBMessagesInterrupt == Spec => []OOBInterruptsCode
<1>1. IInv => OOBInterruptsCode
  BY DEF IInv, Interrupting, OOBInterruptsCode
<1> QED  BY <1>1, Invariance, PTL

(***************************************************************************)
(* MessageQueue's Enqueue and Dequeue keep messages in the order of        *)
(* posting, those before the events in front, for a queue of any length.   *)
(***************************************************************************)
THEOREM EventsStayInOrder == Spec => []EventsInOrder
<1>1. IInv => EventsInOrder
  BY DEF IInv, Queueing
<1> QED  BY <1>1, Invariance, PTL

=============================================================================
