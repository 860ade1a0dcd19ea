--------------------------- MODULE UpDaemonProofs ---------------------------
(* Theorems about UpDaemon, for every path, plan, set of chunks and access *)
(* points, and their proofs.                                               *)
EXTENDS UpDaemon, TLAPS

Tasks == [Stop -> [Task -> Status]]
Bits  == [Chunk -> SUBSET {"work", "finish"}]

(***************************************************************************)
(* Lemmas about the operators the handlers are built from.                 *)
(***************************************************************************)

\* The path as the reader of the path file leaves it.
LEMMA PathFacts ==
  /\ NumStops \in Nat
  /\ StopTasks \in [Stop -> SUBSET Task]
BY PathAssumption DEF PathAssumption

\* Chunks, access points and the two sentinels are told apart.
LEMMA Names ==
  /\ Chunk \cap AP = {}
  /\ None \notin Chunk /\ None \notin AP /\ None # Probe
  /\ Probe \notin Chunk /\ Probe \notin AP
BY NameAssumption DEF NameAssumption, Task

\* One more pending message: a bag over the same set stays one.
LEMMA PostType ==
  ASSUME NEW bag, IsABag(bag), NEW S, DOMAIN bag \subseteq S, NEW m \in S
  PROVE  /\ IsABag(Post(bag, m))
         /\ DOMAIN Post(bag, m) \subseteq S
         /\ DOMAIN Post(bag, m) = DOMAIN bag \cup {m}
BY DEF IsABag, Post, SetToBag, (+)

\* One pending message less.
LEMMA ConsumeType ==
  ASSUME NEW bag, IsABag(bag), NEW m
  PROVE  /\ IsABag(Consume(bag, m))
         /\ DOMAIN Consume(bag, m) \subseteq DOMAIN bag
BY DEF IsABag, Consume, SetToBag, (-)

\* Marking a task yields statuses of tasks again.
LEMMA MarkType ==
  ASSUME NEW x, NEW status \in Status, NEW tk \in Tasks
  PROVE  Mark(x, status, tk) \in Tasks
BY DEF Mark, Tasks

LEMMA BitsType ==
  ASSUME NEW dy \in Bits, NEW c
  PROVE  /\ SetBit(dy, c, "work") \in Bits
         /\ SetBit(dy, c, "finish") \in Bits
         /\ ClearBit(dy, c, "work") \in Bits
         /\ ClearWork(dy) \in Bits
BY DEF Bits, SetBit, ClearBit, ClearWork

\* The part of the type invariant that the helpers touch.
PathType ==
  /\ path \in 1..(NumStops + 1)
  /\ task \in Tasks
  /\ timeoutId \in Nat
  /\ joinedAId \in AP \cup {None}
  /\ due \in Nat

SendType ==
  /\ sending \in Int
  /\ sess \in [Session -> Nat]

TimeoutType ==
  /\ IsABag(timeouts)
  /\ DOMAIN timeouts \subseteq Nat \X Stop

Runs == {"on", "over", "JoinCompleted", "CompAtA", "CheckStop"}

\* Leaving or not leaving the head stop keeps the path in order.
LEMMA CheckStopType ==
  ASSUME PathType, path <= NumStops,
         NEW timedOut, NEW j \in AP \cup {None}, NEW tk \in Tasks,
         NEW tid \in Nat, NEW du \in Nat,
         CheckStop(timedOut, j, tk, tid, du)
  PROVE  PathType'
BY PathFacts DEF PathType, CheckStop, Forget, Bump

\* Finishing with an access point.
LEMMA CompAtAType ==
  ASSUME PathType, TimeoutType, run = "on",
         NEW j \in AP \cup {None}, NEW tk \in Tasks, NEW dy \in Bits, NEW du \in Nat,
         CompAtA(j, tk, dy, du)
  PROVE  PathType' /\ TimeoutType' /\ dirty' \in Bits /\ run' \in Runs
<1>1. CASE path > NumStops
  <2>0. ~(path <= NumStops)
    BY <1>1, PathFacts DEF PathType
  <2>1. /\ run' = "CompAtA" /\ joinedAId' = j /\ task' = tk /\ dirty' = dy /\ due' = du
        /\ UNCHANGED <<path, timeoutId, timeouts>>
    BY <2>0, Zenon DEF CompAtA
  <2> QED
    BY <2>1 DEF PathType, TimeoutType, Runs
<1>2. CASE path <= NumStops
  <2>0. ~(path > NumStops)
    BY <1>2, PathFacts DEF PathType
  <2> DEFINE status == IF j \in StopTasks[path] THEN "COMP" ELSE "WAIT"
  <2>1. Mark(j, status, tk) \in Tasks
    BY MarkType DEF Status
  <2>2. /\ dirty' = ClearWork(dy)
        /\ timeouts' = Post(timeouts, <<Bump(timeoutId), path>>)
        /\ CheckStop(FALSE, j, Mark(j, status, tk), Bump(timeoutId), du)
        /\ run' = run
    BY <2>0, Zenon DEF CompAtA
  <2>3. Bump(timeoutId) \in Nat
    BY DEF PathType, Bump
  <2>4. PathType'
    BY <1>2, <2>1, <2>2, <2>3, CheckStopType
  <2>5. <<Bump(timeoutId), path>> \in Nat \X Stop
    BY <1>2, <2>3, PathFacts DEF PathType, Stop
  <2>6. TimeoutType'
    BY <2>2, <2>5, PostType DEF TimeoutType
  <2> QED
    BY <2>2, <2>4, <2>6, BitsType DEF Runs
<1> QED
  BY <1>1, <1>2, PathFacts DEF PathType

\* A new client session.
LEMMA StartClientType ==
  ASSUME sess \in [Session -> Nat], NEW i \in Item, NEW snd \in Int, StartClient(i, snd)
  PROVE  SendType'
BY DEF SendType, StartClient, Session

\* What is chosen to be sent is a chunk of the list, or nothing.
LEMMA GetNextRange ==
  ASSUME NEW j, NEW dy, dataChunks \in SUBSET Chunk
  PROVE  GetNext(j, dy) \subseteq {c \in dataChunks : dy[c] = {}} \cup {None}
BY DEF GetNext, Clean, OrNone

\* Sending the next chunk, or finishing with the access point.
LEMMA SendNextType ==
  ASSUME PathType, TimeoutType, run = "on", SendType, dataChunks \in SUBSET Chunk,
         NEW j \in AP \cup {None}, NEW tk \in Tasks, NEW dy \in Bits,
         NEW snd \in Int, NEW du \in Nat,
         SendNext(j, tk, dy, snd, du)
  PROVE  PathType' /\ TimeoutType' /\ SendType' /\ dirty' \in Bits /\ run' \in Runs
<1>1. PICK c \in GetNext(j, dy) :
        \/ /\ c # None
           /\ dirty' = SetBit(dy, c, "work")
           /\ StartClient(c, snd)
           /\ joinedAId' = j /\ task' = tk /\ due' = du
           /\ UNCHANGED <<path, timeoutId, timeouts, run>>
        \/ /\ c = None
           /\ sending' = snd
           /\ UNCHANGED sess
           /\ CompAtA(j, tk, dy, du)
  BY DEF SendNext
<1>2. CASE c # None
  <2>1. c \in Item
    BY <1>2, GetNextRange DEF Item
  <2>2. SendType'
    BY <1>1, <1>2, <2>1, StartClientType DEF SendType
  <2>3. dirty' \in Bits
    BY <1>1, <1>2, BitsType
  <2> QED
    BY <1>1, <1>2, <2>2, <2>3 DEF PathType, TimeoutType, Runs
<1>3. CASE c = None
  BY <1>1, <1>3, CompAtAType DEF SendType
<1> QED
  BY <1>2, <1>3

(***************************************************************************)
(* Type correctness.                                                       *)
(***************************************************************************)

MobileType ==
  /\ IsABag(legs)
  /\ DOMAIN legs \subseteq Loc \X BOOLEAN
  /\ initDue \in BOOLEAN
  /\ pos \in Loc
  /\ moving \in BOOLEAN
  /\ term \in Nat

RestType ==
  /\ policy \in Policies
  /\ connAttempted \in Nat
  /\ dataChunks \in SUBSET Chunk
  /\ report \in [Report -> Nat]
  /\ rx \in [Chunk -> RxPhase]
  /\ joins \in Nat

Typed == /\ PathType
         /\ SendType
         /\ TimeoutType
         /\ dirty \in Bits
         /\ run \in Runs
         /\ MobileType
         /\ RestType

LEMMA TypedIsTypeOK == TypeOK <=> Typed
BY DEF Typed, TypeOK, PathType, SendType, TimeoutType, MobileType, RestType,
       Bits, Tasks, Runs

LEMMA InitType == Init => Typed
<1> SUFFICES ASSUME Init PROVE Typed
  OBVIOUS
<1>1. PathType /\ SendType
  BY PathFacts DEF Init, PathType, SendType, Tasks, Status
<1>2. TimeoutType /\ MobileType
  BY DEF Init, TimeoutType, MobileType, EmptyBag, SetToBag, IsABag, Loc
<1>3. dirty \in Bits /\ run \in Runs /\ RestType
  BY DEF Init, Bits, Runs, RestType, RxPhase
<1> QED
  BY <1>1, <1>2, <1>3 DEF Typed

\* The handlers of messages from the MAC and from client sessions.
LEMMA JoinCompletedType ==
  ASSUME Typed, run = "on", UNCHANGED policy, NEW a \in AP, JoinCompleted(a)
  PROVE  Typed'
<1> DEFINE tk == Mark(a, "WAIT", task)
<1>1. tk \in Tasks
  BY MarkType DEF Typed, PathType, Status
<1>2. RestType' /\ MobileType'
  BY DEF JoinCompleted, Typed, RestType, MobileType, mobileVars
<1>3. CASE path > NumStops /\ run' = "JoinCompleted"
           /\ UNCHANGED <<path, task, timeoutId, due, sendVars, dirty, timeouts>>
           /\ joinedAId' = a
  BY <1>2, <1>3 DEF Typed, PathType, SendType, TimeoutType, Runs, sendVars
<1>4. CASE joinedAId' = a /\ task' = tk
           /\ UNCHANGED <<path, timeoutId, due, sendVars, dirty, timeouts, run>>
  BY <1>1, <1>2, <1>4 DEF Typed, PathType, SendType, TimeoutType, Runs, sendVars
<1>5. CASE joinedAId' = a /\ task' = tk /\ StartClient(Probe, sending)
           /\ UNCHANGED <<path, timeoutId, due, dirty, timeouts, run>>
  <2>1. SendType'
    BY <1>5, StartClientType DEF Typed, SendType, Item
  <2> QED
    BY <1>1, <1>2, <1>5, <2>1 DEF Typed, PathType, TimeoutType, Runs
<1>6. CASE SendNext(a, tk, dirty, sending, due)
  BY <1>1, <1>2, <1>6, SendNextType DEF Typed, SendType, PathType, RestType
<1> QED
  BY <1>3, <1>4, <1>5, <1>6, Zenon DEF JoinCompleted

LEMMA DeliveredType ==
  ASSUME Typed, run = "on", UNCHANGED policy, NEW i \in Item, Delivered(i)
  PROVE  Typed'
<1> DEFINE dy == IF i \in dataChunks THEN SetBit(dirty, i, "finish") ELSE dirty
<1>1. dy \in Bits /\ sending - 1 \in Int
  BY BitsType DEF Typed, SendType
<1>2. RestType' /\ MobileType'
  BY DEF Delivered, Typed, RestType, MobileType, mobileVars, Report
<1>3. CASE sending' = sending - 1 /\ UNCHANGED sess /\ CompAtA(joinedAId, task, dy, due)
  <2>1. PathType' /\ TimeoutType' /\ dirty' \in Bits /\ run' \in Runs
    BY <1>1, <1>3, CompAtAType DEF Typed, PathType
  <2> QED
    BY <1>1, <1>2, <1>3, <2>1 DEF Typed, SendType
<1>4. CASE SendNext(joinedAId, task, dy, sending - 1, due)
  BY <1>1, <1>2, <1>4, SendNextType DEF Typed, PathType, RestType
<1> QED
  BY <1>3, <1>4, Zenon DEF Delivered

LEMMA ConnectionFailedType ==
  ASSUME Typed, run = "on", UNCHANGED policy, NEW i \in Item, ConnectionFailed(i)
  PROVE  Typed'
<1>1. ClearBit(dirty, i, "work") \in Bits /\ sending - 1 \in Int
  BY BitsType DEF Typed, SendType
<1>2. RestType' /\ MobileType'
  BY DEF ConnectionFailed, Typed, RestType, MobileType, mobileVars, Report, NextAttempt
<1>3. CASE sending' = sending - 1
           /\ UNCHANGED <<connAttempted, pathVars, dirty, sess, timeouts, run>>
  BY <1>1, <1>2, <1>3 DEF Typed, PathType, SendType, TimeoutType, pathVars
<1>4. CASE SendNext(joinedAId, task, ClearBit(dirty, i, "work"), sending - 1, due)
  BY <1>1, <1>2, <1>4, SendNextType DEF Typed, PathType, RestType
<1>5. CASE StartClient(Probe, sending - 1)
           /\ UNCHANGED <<pathVars, dirty, timeouts, run>>
  <2>1. SendType'
    BY <1>1, <1>5, StartClientType DEF Typed, SendType, Item
  <2> QED
    BY <1>2, <1>5, <2>1 DEF Typed, PathType, TimeoutType, pathVars
<1>6. CASE sending' = sending - 1 /\ UNCHANGED sess
           /\ CompAtA(joinedAId, task, dirty, due)
  <2>1. PathType' /\ TimeoutType' /\ dirty' \in Bits /\ run' \in Runs
    BY <1>6, CompAtAType DEF Typed, PathType
  <2> QED
    BY <1>1, <1>2, <1>6, <2>1 DEF Typed, SendType
<1> QED
  BY <1>3, <1>4, <1>5, <1>6, Zenon DEF ConnectionFailed

\* The handlers of messages from server sessions.
LEMMA HeaderReceivedType ==
  ASSUME Typed, UNCHANGED policy, NEW c \in Chunk, HeaderReceived(c)
  PROVE  Typed'
<1>1. task' \in Tasks
  BY MarkType DEF HeaderReceived, Typed, PathType, Status
<1>2. rx' \in [Chunk -> RxPhase]
  BY DEF HeaderReceived, Typed, RestType, RxPhase
<1> QED
  BY <1>1, <1>2 DEF HeaderReceived, Typed, PathType, SendType, TimeoutType, MobileType,
       RestType, sendVars, chunkVars, mobileVars

LEMMA ChunkReceivedType ==
  ASSUME Typed, UNCHANGED policy, NEW c \in Chunk, ChunkReceived(c)
  PROVE  Typed'
<1> DEFINE tk == Mark(c, "COMP", task)
           later == <<Bump(timeoutId), path>>
<1>1. tk \in Tasks /\ Bump(timeoutId) \in Nat
  BY MarkType DEF Typed, PathType, Status, Bump
<1>2. RestType' /\ SendType' /\ MobileType' /\ dirty' \in Bits /\ run' \in Runs
  BY DEF ChunkReceived, Typed, RestType, SendType, MobileType, RxPhase, Bits,
         sendVars, mobileVars
<1>3. CASE UNCHANGED <<pathVars, timeouts>>
  BY <1>2, <1>3 DEF Typed, PathType, TimeoutType, pathVars
<1>4. CASE Serving(c) # {} /\ timeouts' = Post(timeouts, later)
           /\ \/ CheckStop(FALSE, joinedAId, tk, Bump(timeoutId), due)
              \/ /\ task' = tk
                 /\ timeoutId' = Bump(timeoutId)
                 /\ UNCHANGED <<path, joinedAId, due>>
  <2>1. path <= NumStops /\ path \in Stop
    BY <1>4, PathFacts DEF Serving, Typed, PathType, Stop
  <2>2. later \in Nat \X Stop
    BY <1>1, <2>1
  <2>3. TimeoutType'
    BY <1>4, <2>2, PostType DEF Typed, TimeoutType
  <2>4. PathType'
    BY <1>1, <1>4, <2>1, CheckStopType DEF Typed, PathType
  <2> QED
    BY <1>2, <2>3, <2>4 DEF Typed
<1> QED
  BY <1>3, <1>4, Zenon DEF ChunkReceived

\* The timers.
LEMMA PathStopTimeoutType ==
  ASSUME Typed, UNCHANGED policy, NEW m, PathStopTimeout(m)
  PROVE  Typed'
<1>1. TimeoutType' /\ RestType' /\ SendType' /\ MobileType' /\ dirty' \in Bits
  BY ConsumeType DEF PathStopTimeout, Typed, TimeoutType, RestType, SendType, MobileType,
     Bits, sendVars, chunkVars, mobileVars
<1>2. CASE UNCHANGED <<pathVars, run>>
  BY <1>1, <1>2 DEF Typed, PathType, pathVars
<1>3. CASE run' = "CheckStop" /\ UNCHANGED pathVars
  BY <1>1, <1>3 DEF Typed, PathType, pathVars, Runs
<1>4. CASE path <= NumStops /\ UNCHANGED run
           /\ CheckStop(TRUE, joinedAId, task, timeoutId, due)
  BY <1>1, <1>4, CheckStopType DEF Typed, PathType
<1> QED
  BY <1>2, <1>3, <1>4, Zenon DEF PathStopTimeout

\* What every path timer leaves alone or merely uses up.
LEMMA TakePathTimerType ==
  ASSUME Typed, UNCHANGED policy, NEW init \in BOOLEAN, TakePathTimer(init)
  PROVE  /\ RestType'
         /\ initDue' \in BOOLEAN /\ pos' \in Loc /\ moving' \in BOOLEAN
         /\ DueLeft(init) \in Nat
BY DEF TakePathTimer, Typed, RestType, MobileType, PathType, DueLeft

LEMMA PathEndType ==
  ASSUME Typed, UNCHANGED policy, NEW init \in BOOLEAN, PathEnd(init)
  PROVE  Typed'
BY TakePathTimerType DEF PathEnd, Typed, PathType, SendType, TimeoutType, MobileType, sendVars

LEMMA MoveType ==
  ASSUME Typed, UNCHANGED policy, NEW init \in BOOLEAN,
         NEW leg \in Loc \X BOOLEAN, Move(init, leg)
  PROVE  Typed'
<1>1. IsABag(legs') /\ DOMAIN legs' \subseteq Loc \X BOOLEAN
  BY PostType DEF Move, Typed, MobileType
<1>2. RestType' /\ MobileType'
  BY <1>1, TakePathTimerType DEF Move, Typed, MobileType
<1> QED
  BY <1>2, TakePathTimerType DEF Move, Typed, PathType, SendType, TimeoutType, sendVars

LEMMA StayType ==
  ASSUME Typed, UNCHANGED policy, Stay
  PROVE  Typed'
<1>1. <<pos, FALSE>> \in Loc \X BOOLEAN
  BY DEF Typed, MobileType
<1>2. TakePathTimer(TRUE) /\ legs' = Post(legs, <<pos, FALSE>>)
      /\ UNCHANGED <<pathVars, sendVars, dirty, timeouts, term, run>>
  BY Zenon DEF Stay
<1>3. PICK leg \in Loc \X BOOLEAN : legs' = Post(legs, leg)
  BY <1>1, <1>2, Zenon
<1>4. IsABag(legs') /\ DOMAIN legs' \subseteq Loc \X BOOLEAN
  BY <1>3, PostType DEF Typed, MobileType
<1>5. RestType' /\ initDue' \in BOOLEAN /\ pos' \in Loc /\ moving' \in BOOLEAN
  BY <1>2 DEF TakePathTimer, Typed, RestType, MobileType
<1> QED
  BY <1>2, <1>4, <1>5
  DEF Typed, MobileType, PathType, SendType, TimeoutType, sendVars, pathVars

LEMMA PassThroughType ==
  ASSUME Typed, UNCHANGED policy, PassThrough
  PROVE  Typed'
<1>1. /\ TakePathTimer(FALSE) /\ path <= NumStops
      /\ path' = path + 1
      /\ due' = DueLeft(FALSE) + 1
      /\ UNCHANGED <<task, timeoutId, joinedAId, sendVars, dirty, timeouts, legs, term, run>>
  BY Zenon DEF PassThrough, AtStop
<1>2. path' \in 1..(NumStops + 1)
  BY <1>1, PathFacts DEF Typed, PathType
<1>3. /\ RestType' /\ initDue' \in BOOLEAN /\ pos' \in Loc /\ moving' \in BOOLEAN
      /\ DueLeft(FALSE) \in Nat
  BY <1>1 DEF TakePathTimer, DueLeft, Typed, PathType, RestType, MobileType
<1> QED
  BY <1>1, <1>2, <1>3
  DEF Typed, DueLeft, MobileType, PathType, SendType, TimeoutType, sendVars

LEMMA ArriveType ==
  ASSUME Typed, run = "on", UNCHANGED policy, Arrive
  PROVE  Typed'
<1> DEFINE du == DueLeft(FALSE)
<1>1. RestType' /\ du \in Nat /\ MobileType'
  BY TakePathTimerType DEF Arrive, Typed, MobileType
<1>2. path <= NumStops /\ path \in Stop
  BY PathFacts DEF Arrive, AtStop, Typed, PathType, Stop
<1>3. CASE CheckStop(FALSE, joinedAId, task, timeoutId, du)
           /\ UNCHANGED <<sendVars, dirty, timeouts, run>>
  <2>1. PathType'
    BY <1>1, <1>2, <1>3, CheckStopType DEF Typed, PathType
  <2> QED
    BY <1>1, <1>3, <2>1 DEF Typed, SendType, TimeoutType, sendVars
<1>4. CASE SendNext(joinedAId, task, dirty, sending, du)
  BY <1>1, <1>4, SendNextType DEF Typed, PathType, SendType, RestType
<1>5. CASE AwaitTasks /\ due' = du
           /\ UNCHANGED <<path, task, timeoutId, joinedAId, sendVars, dirty, run>>
  <2>1. <<timeoutId, path>> \in Nat \X Stop
    BY <1>2 DEF Typed, PathType
  <2>2. TimeoutType'
    BY <1>5, <2>1, PostType DEF AwaitTasks, Typed, TimeoutType
  <2> QED
    BY <1>1, <1>5, <2>2 DEF Typed, PathType, SendType, sendVars
<1> QED
  BY <1>3, <1>4, <1>5, Zenon DEF Arrive

LEMMA TerminationTimerType ==
  ASSUME Typed, UNCHANGED policy, TerminationTimer
  PROVE  Typed'
BY DEF TerminationTimer, Typed, PathType, SendType, TimeoutType, MobileType, RestType, Runs,
   pathVars, sendVars, chunkVars, mobileVars

\* The environment.
LEMMA MobilityType ==
  ASSUME Typed, UNCHANGED policy, NEW e, Mobility(e)
  PROVE  Typed'
<1>1. e \in Loc \X BOOLEAN
  BY DEF Mobility, Typed, MobileType
<1>2. IsABag(legs') /\ DOMAIN legs' \subseteq Loc \X BOOLEAN
  BY ConsumeType DEF Mobility, Typed, MobileType
<1> QED
  BY <1>1, <1>2 DEF Mobility, Typed, PathType, SendType, TimeoutType, MobileType, RestType,
       sendVars, chunkVars

LEMMA EnvironmentType ==
  ASSUME Typed, UNCHANGED policy,
         sess' \in [Session -> Nat], report' \in [Report -> Nat], rx' \in [Chunk -> RxPhase],
         DaemonIdle
  PROVE  Typed'
BY DEF DaemonIdle, Typed, PathType, SendType, TimeoutType, MobileType, RestType,
   pathVars, chunkVars, mobileVars

LEMMA SessionStepType ==
  ASSUME Typed, UNCHANGED policy, NEW i \in Item,
         NEW from \in {"opening", "open", "lost"}, NEW to \in {"opening", "open", "lost"},
         from # to, SessionStep(i, from, to)
  PROVE  Typed'
<1>1. /\ sess' \in [Session -> Nat]
      /\ report' \in [Report -> Nat]
      /\ rx' \in [Chunk -> RxPhase]
  BY DEF SessionStep, Typed, SendType, RestType, Session
<1> QED
  BY <1>1, EnvironmentType DEF SessionStep

LEMMA SessionReportType ==
  ASSUME Typed, UNCHANGED policy, NEW i \in Item,
         NEW from \in {"opening", "open", "lost"}, NEW as \in {"delivered", "failed"},
         SessionReport(i, from, as)
  PROVE  Typed'
<1>1. sess' \in [Session -> Nat]
  BY DEF SessionReport, Typed, SendType, Session
<1>2. report' \in [Report -> Nat]
  <2> DEFINE r == <<i, as>>
  <2>1. r \in Report
    BY Zenon DEF Report
  <2>2. report' = [report EXCEPT ![r] = @ + 1]
    BY Zenon DEF SessionReport
  <2> HIDE DEF r
  <2> QED
    BY <2>1, <2>2 DEF Typed, RestType
<1>3. rx' \in [Chunk -> RxPhase]
  BY DEF SessionReport, Typed, RestType
<1> QED
  BY <1>1, <1>2, <1>3, EnvironmentType DEF SessionReport

LEMMA RxStepType ==
  ASSUME Typed, UNCHANGED policy, NEW c \in Chunk, NEW from, NEW to \in RxPhase,
         RxStep(c, from, to)
  PROVE  Typed'
<1>1. /\ sess' \in [Session -> Nat]
      /\ report' \in [Report -> Nat]
      /\ rx' \in [Chunk -> RxPhase]
  BY DEF RxStep, Typed, SendType, RestType
<1> QED
  BY <1>1, EnvironmentType DEF RxStep

LEMMA NextType ==
  ASSUME Typed, [Next]_vars
  PROVE  Typed'
<1>1. CASE UNCHANGED vars
  BY <1>1 DEF vars, Typed, PathType, SendType, TimeoutType, MobileType, RestType
<1>2. CASE Next
  <2> USE <1>2 DEF Next
  <2>1. ASSUME NEW i \in Item, Delivered(i) PROVE Typed'
    BY <2>1, DeliveredType
  <2>2. ASSUME NEW i \in Item, ConnectionFailed(i) PROVE Typed'
    BY <2>2, ConnectionFailedType
  <2>3. ASSUME NEW c \in Chunk, HeaderReceived(c) \/ ChunkReceived(c) PROVE Typed'
    BY <2>3, HeaderReceivedType, ChunkReceivedType
  <2>4. ASSUME NEW m \in DOMAIN timeouts, PathStopTimeout(m) PROVE Typed'
    BY <2>4, PathStopTimeoutType
  <2>5. ASSUME NEW init \in BOOLEAN, PathEnd(init) \/ MoveOn(init) \/ MoveLast(init)
        PROVE  Typed'
    <3>1. CASE PathEnd(init)
      BY <3>1, PathEndType
    <3>2. CASE MoveOn(init)
      <4>1. Road \in Loc /\ <<Road, TRUE>> \in Loc \X BOOLEAN
        BY Zenon DEF Loc
      <4> QED
        BY <3>2, <4>1, MoveType, Zenon DEF MoveOn
    <3>3. CASE MoveLast(init)
      <4>1. path <= NumStops
        BY <3>3, Zenon DEF MoveLast
      <4>2. path \in Stop
        BY <4>1, PathFacts DEF Typed, PathType, Stop
      <4>3. <<StopLoc[path], FALSE>> \in Loc \X BOOLEAN
        BY <4>2, Zenon DEF Loc
      <4> QED
        BY <3>3, <4>3, MoveType, Zenon DEF MoveLast
    <3> QED
      BY <2>5, <3>1, <3>2, <3>3
  <2>6. CASE Stay \/ PassThrough \/ Arrive \/ TerminationTimer
    BY <2>6, StayType, PassThroughType, ArriveType, TerminationTimerType
  <2>7. ASSUME NEW a \in AP, JoinCompleted(a) PROVE Typed'
    BY <2>7, JoinCompletedType
  <2>8. ASSUME NEW e \in DOMAIN legs, Mobility(e) PROVE Typed'
    BY <2>8, MobilityType
  <2>9. ASSUME NEW i \in Item, OpenOk(i) \/ OpenFail(i) \/ DataSent(i) \/ Drop(i)
        PROVE  Typed'
    BY <2>9, SessionStepType, SessionReportType DEF OpenOk, OpenFail, DataSent, Drop
  <2>10. ASSUME NEW c \in Chunk, RxHeader(c) \/ RxWhole(c) \/ RxBreak(c) PROVE Typed'
    BY <2>10, RxStepType DEF RxHeader, RxWhole, RxBreak, RxPhase
  <2> QED
    BY <2>1, <2>2, <2>3, <2>4, <2>5, <2>6, <2>7, <2>8, <2>9, <2>10, Zenon
    DEF DaemonNext, EnvNext, PathTimer
<1> QED
  BY <1>1, <1>2

\* Every reachable state is well typed.  In particular the head of the path never
\* runs past its end, whatever stops are left early or passed through.
THEOREM TypeCorrect == Spec => []TypeOK
<1>1. Spec => []Typed
  BY InitType, NextType, PTL DEF Spec
<1> QED
  BY <1>1, TypedIsTypeOK, PTL

(***************************************************************************)
(* The safety properties.  Each is about a few of the variables; a first   *)
(* lemma says what a step may do to these, and the property follows from   *)
(* that alone.                                                             *)
(***************************************************************************)

(***************************************************************************)
(* One transfer at a time.                                                 *)
(***************************************************************************)

LEMMA NothingPlusOne ==
  ASSUME NEW S, NEW f, f = Nothing(S), NEW u \in S
  PROVE  [f EXCEPT ![u] = @ + 1] = Only(S, u)
BY DEF Nothing, Only

LEMMA OnlyThere ==
  ASSUME NEW S, NEW u \in S, NEW v \in S, Only(S, u)[v] > 0
  PROVE  v = u
BY DEF Only

LEMMA OnlyMinusOne ==
  ASSUME NEW S, NEW u \in S
  PROVE  [Only(S, u) EXCEPT ![u] = @ - 1] = Nothing(S)
<1>1. \A x \in S : [Only(S, u) EXCEPT ![u] = @ - 1][x] = 0
  BY DEF Only
<1> QED
  BY <1>1 DEF Only, Nothing

LEMMA OnlyMoves ==
  ASSUME NEW S, NEW v \in S, NEW w \in S, w # v
  PROVE  [Only(S, v) EXCEPT ![v] = @ - 1, ![w] = @ + 1] = Only(S, w)
<1> DEFINE f == [Only(S, v) EXCEPT ![v] = @ - 1]
<1>1. f = Nothing(S)
  BY OnlyMinusOne
<1>2. [f EXCEPT ![w] = @ + 1] = Only(S, w)
  BY <1>1, NothingPlusOne
<1>3. [Only(S, v) EXCEPT ![v] = @ - 1, ![w] = @ + 1] = [f EXCEPT ![w] = @ + 1]
  BY Zenon
<1> QED
  BY <1>2, <1>3, Zenon

LEMMA NothingThere ==
  ASSUME NEW S, NEW v \in S
  PROVE  ~(Nothing(S)[v] > 0)
BY DEF Nothing

\* A handler leaves the counter at snd, or starts a client and counts it.
MayStart(snd) ==
  \/ sending' = snd /\ UNCHANGED sess
  \/ /\ sending' = snd + 1
     /\ \E s \in Session : sess' = [sess EXCEPT ![s] = @ + 1]

\* What a step may do to the counter, the sessions and the reports.
TransferStep ==
  \/ UNCHANGED <<sending, sess, report>>
  \/ ~(sending > 0) /\ MayStart(sending) /\ UNCHANGED report
  \/ \E r \in Report : /\ report[r] > 0
                       /\ report' = [report EXCEPT ![r] = @ - 1]
                       /\ MayStart(sending - 1)
  \/ \E s, t \in Session : /\ s # t
                           /\ sess[s] > 0
                           /\ sess' = [sess EXCEPT ![s] = @ - 1, ![t] = @ + 1]
                           /\ UNCHANGED <<sending, report>>
  \/ \E s \in Session, r \in Report : /\ sess[s] > 0
                                      /\ sess' = [sess EXCEPT ![s] = @ - 1]
                                      /\ report' = [report EXCEPT ![r] = @ + 1]
                                      /\ UNCHANGED sending

LEMMA StartClientMayStart ==
  ASSUME NEW i \in Item, NEW snd \in Int, StartClient(i, snd)
  PROVE  MayStart(snd)
<1>1. <<i, "opening">> \in Session
  BY DEF Session
<1> QED
  BY <1>1, Zenon DEF StartClient, MayStart

LEMMA SendNextMayStart ==
  ASSUME dataChunks \in SUBSET Chunk, NEW j, NEW tk, NEW dy, NEW snd \in Int, NEW du,
         SendNext(j, tk, dy, snd, du)
  PROVE  MayStart(snd)
<1>1. PICK c \in GetNext(j, dy) :
        \/ c # None /\ StartClient(c, snd)
        \/ sending' = snd /\ UNCHANGED sess
  BY Zenon DEF SendNext
<1>2. c # None => c \in Item
  BY GetNextRange DEF Item
<1>3. CASE c # None /\ StartClient(c, snd)
  BY <1>2, <1>3, StartClientMayStart
<1>4. CASE sending' = snd /\ UNCHANGED sess
  BY <1>4, Zenon DEF MayStart
<1> QED
  BY <1>1, <1>3, <1>4

LEMMA NextTransfers ==
  ASSUME Typed, [Next]_vars
  PROVE  TransferStep
<1> USE DEF TransferStep
<1>1. CASE UNCHANGED vars
  BY <1>1, Zenon DEF vars
<1>2. sending \in Int /\ sending - 1 \in Int /\ dataChunks \in SUBSET Chunk
  BY DEF Typed, SendType, RestType
<1>3. ASSUME NEW i \in Item, Delivered(i) PROVE TransferStep
  <2>1. MayStart(sending - 1)
    <3>1. CASE sending' = sending - 1 /\ UNCHANGED sess
      BY <3>1, Zenon DEF MayStart
    <3>2. CASE \E dy : SendNext(joinedAId, task, dy, sending - 1, due)
      BY <1>2, <3>2, SendNextMayStart
    <3> QED
      BY <1>3, <3>1, <3>2, Zenon DEF Delivered
  <2>2. <<i, "delivered">> \in Report
    BY DEF Report
  <2> QED
    BY <1>3, <2>1, <2>2, Zenon DEF Delivered
<1>4. ASSUME NEW i \in Item, ConnectionFailed(i) PROVE TransferStep
  <2>1. MayStart(sending - 1)
    <3>1. CASE sending' = sending - 1 /\ UNCHANGED sess
      BY <3>1, Zenon DEF MayStart
    <3>2. CASE \E dy : SendNext(joinedAId, task, dy, sending - 1, due)
      BY <1>2, <3>2, SendNextMayStart
    <3>3. CASE StartClient(Probe, sending - 1)
      BY <1>2, <3>3, StartClientMayStart DEF Item
    <3> QED
      BY <1>4, <3>1, <3>2, <3>3, Zenon DEF ConnectionFailed
  <2>2. <<i, "failed">> \in Report
    BY DEF Report
  <2> QED
    BY <1>4, <2>1, <2>2, Zenon DEF ConnectionFailed
<1>5. ASSUME NEW a \in AP, JoinCompleted(a) PROVE TransferStep
  <2>1. UNCHANGED report
    BY <1>5, Zenon DEF JoinCompleted
  <2>2. CASE UNCHANGED sendVars
    BY <2>1, <2>2, Zenon DEF sendVars
  <2>3. CASE ~Busy /\ StartClient(Probe, sending)
    BY <1>2, <2>1, <2>3, StartClientMayStart DEF Item, Busy
  <2>4. CASE ~Busy /\ \E tk : SendNext(a, tk, dirty, sending, due)
    BY <1>2, <2>1, <2>4, SendNextMayStart DEF Busy
  <2> QED
    BY <1>5, <2>2, <2>3, <2>4, Zenon DEF JoinCompleted
<1>6. CASE Arrive
  <2>1. UNCHANGED report
    BY <1>6, Zenon DEF Arrive, TakePathTimer
  <2>2. CASE UNCHANGED sendVars
    BY <2>1, <2>2, Zenon DEF sendVars
  <2>3. CASE sending < 1 /\ \E du : SendNext(joinedAId, task, dirty, sending, du)
    BY <1>2, <2>1, <2>3, SendNextMayStart
  <2> QED
    BY <1>6, <2>2, <2>3, Zenon DEF Arrive
<1>7. ASSUME NEW i \in Item, OpenOk(i) \/ Drop(i) PROVE TransferStep
  <2>1. PICK from, to \in {"opening", "open", "lost"} : from # to /\ SessionStep(i, from, to)
    BY <1>7 DEF OpenOk, Drop
  <2>2. <<i, from>> \in Session /\ <<i, to>> \in Session /\ <<i, from>> # <<i, to>>
    BY <2>1 DEF Session
  <2> QED
    BY <2>1, <2>2, Zenon DEF SessionStep, DaemonIdle
<1>8. ASSUME NEW i \in Item, OpenFail(i) \/ DataSent(i) PROVE TransferStep
  <2>1. PICK from \in {"opening", "open", "lost"}, as \in {"delivered", "failed"} :
          SessionReport(i, from, as)
    BY <1>8 DEF OpenFail, DataSent
  <2>2. <<i, from>> \in Session /\ <<i, as>> \in Report
    BY DEF Session, Report
  <2> QED
    BY <2>1, <2>2, Zenon DEF SessionReport, DaemonIdle
<1>9. ASSUME NEW c \in Chunk,
             \/ HeaderReceived(c) \/ ChunkReceived(c)
             \/ RxHeader(c) \/ RxWhole(c) \/ RxBreak(c)
      PROVE  TransferStep
  BY <1>9, Zenon
  DEF HeaderReceived, ChunkReceived, RxHeader, RxWhole, RxBreak, RxStep, DaemonIdle, sendVars
<1>10. ASSUME NEW m, PathStopTimeout(m) \/ Mobility(m) PROVE TransferStep
  BY <1>10, Zenon DEF PathStopTimeout, Mobility, sendVars
<1>11. ASSUME NEW init, PathEnd(init) \/ MoveOn(init) \/ MoveLast(init) PROVE TransferStep
  BY <1>11, Zenon DEF PathEnd, MoveOn, MoveLast, Move, TakePathTimer, sendVars
<1>12. CASE Stay \/ PassThrough \/ TerminationTimer
  BY <1>12, Zenon DEF Stay, PassThrough, TerminationTimer, TakePathTimer, sendVars
<1> QED
  BY <1>1, <1>3, <1>4, <1>5, <1>6, <1>7, <1>8, <1>9, <1>10, <1>11, <1>12, Zenon
  DEF Next, DaemonNext, EnvNext, PathTimer

LEMMA TransferInv ==
  ASSUME Typed, OneTransfer, TransferStep
  PROVE  OneTransfer'
<1> USE DEF OneTransfer
<1>0. sending \in {0, 1}
  OBVIOUS
<1>1. CASE UNCHANGED <<sending, sess, report>>
  BY <1>1, Zenon
<1>2. ASSUME sess = Nothing(Session), report' = Nothing(Report), MayStart(0)
      PROVE  OneTransfer'
  <2>1. CASE sending' = 0 /\ UNCHANGED sess
    BY <1>2, <2>1
  <2>2. CASE sending' = 1 /\ \E s \in Session : sess' = [sess EXCEPT ![s] = @ + 1]
    BY <1>2, <2>2, NothingPlusOne
  <2> QED
    BY <1>2, <2>1, <2>2 DEF MayStart
<1>3. CASE ~(sending > 0) /\ MayStart(sending) /\ UNCHANGED report
  <2>1. sending = 0 /\ sess = Nothing(Session) /\ report = Nothing(Report)
    BY <1>0, <1>3
  <2> QED
    BY <1>2, <1>3, <2>1
<1>4. ASSUME NEW r \in Report, report[r] > 0, report' = [report EXCEPT ![r] = @ - 1],
             MayStart(sending - 1)
      PROVE  OneTransfer'
  <2>1. PICK q \in Report : report = Only(Report, q) /\ sending = 1 /\ sess = Nothing(Session)
    BY <1>4, NothingThere
  <2>2. r = q
    BY <1>4, <2>1, OnlyThere
  <2>3. report' = Nothing(Report)
    BY <1>4, <2>1, <2>2, OnlyMinusOne
  <2> QED
    BY <1>2, <1>4, <2>1, <2>3
<1>5. ASSUME NEW s \in Session, sess[s] > 0
      PROVE  sess = Only(Session, s) /\ sending = 1 /\ report = Nothing(Report)
  <2>1. PICK q \in Session : sess = Only(Session, q) /\ sending = 1 /\ report = Nothing(Report)
    BY <1>5, NothingThere
  <2> QED
    BY <1>5, <2>1, OnlyThere
<1>6. ASSUME NEW s \in Session, NEW t \in Session, s # t, sess[s] > 0,
             sess' = [sess EXCEPT ![s] = @ - 1, ![t] = @ + 1],
             UNCHANGED <<sending, report>>
      PROVE  OneTransfer'
  BY <1>5, <1>6, OnlyMoves
<1>7. ASSUME NEW s \in Session, NEW r \in Report, sess[s] > 0,
             sess' = [sess EXCEPT ![s] = @ - 1],
             report' = [report EXCEPT ![r] = @ + 1], UNCHANGED sending
      PROVE  OneTransfer'
  BY <1>5, <1>7, OnlyMinusOne, NothingPlusOne
<1> QED
  BY <1>1, <1>3, <1>4, <1>6, <1>7, Zenon DEF TransferStep

\* The daemon never has two transfers under way, and its counter of prepared chunks
\* is right in every order of joins, deliveries, failures, arrivals and timeouts.
THEOREM OneTransferAlways == Spec => []OneTransfer
<1>1. Init => OneTransfer
  BY DEF Init, OneTransfer, Nothing
<1>2. Typed /\ OneTransfer /\ [Next]_vars => OneTransfer'
  BY NextTransfers, TransferInv
<1>3. Spec => []Typed
  BY InitType, NextType, PTL DEF Spec
<1> QED
  BY <1>1, <1>2, <1>3, PTL DEF Spec

(***************************************************************************)
(* Stop timeouts.                                                          *)
(***************************************************************************)

LEMMA PostDomain ==
  ASSUME NEW bag, NEW m
  PROVE  DOMAIN Post(bag, m) = DOMAIN bag \cup {m}
BY DEF Post, SetToBag, (+)

\* The head stop stays, or is left and every timeout with id tid is dead.
StayOrLeave(tid) ==
  \/ path' = path /\ timeoutId' = tid
  \/ path' = path + 1 /\ timeoutId' = tid + 1

\* What a step may do to the head of the path and the pending timeouts.
TimeoutStep ==
  \/ /\ DOMAIN timeouts' \subseteq DOMAIN timeouts \cup {<<timeoutId, path>>}
     /\ StayOrLeave(timeoutId)
  \/ /\ DOMAIN timeouts' \subseteq DOMAIN timeouts \cup {<<timeoutId + 1, path>>}
     /\ StayOrLeave(timeoutId + 1)
  \/ /\ StopTasks[path] = {}
     /\ path' = path + 1
     /\ UNCHANGED <<timeouts, timeoutId>>

LEMMA CheckStopStays ==
  ASSUME NEW timedOut, NEW j, NEW tk, NEW tid, NEW du, CheckStop(timedOut, j, tk, tid, du)
  PROVE  StayOrLeave(tid)
BY Zenon DEF CheckStop, StayOrLeave, Bump

LEMMA CompAtATimeouts ==
  ASSUME IsABag(timeouts), NEW j, NEW tk, NEW dy, NEW du, CompAtA(j, tk, dy, du)
  PROVE  TimeoutStep
<1>1. CASE UNCHANGED <<path, timeoutId, timeouts>>
  BY <1>1 DEF TimeoutStep, StayOrLeave
<1>2. CASE timeouts' = Post(timeouts, <<Bump(timeoutId), path>>)
           /\ \E t : CheckStop(FALSE, j, t, Bump(timeoutId), du)
  <2>1. StayOrLeave(Bump(timeoutId))
    BY <1>2, CheckStopStays, Zenon
  <2>2. DOMAIN timeouts' = DOMAIN timeouts \cup {<<timeoutId + 1, path>>}
    BY <1>2, PostDomain, Zenon DEF Bump
  <2> QED
    BY <2>1, <2>2 DEF TimeoutStep, Bump
<1> QED
  BY <1>1, <1>2, Zenon DEF CompAtA

LEMMA SendNextTimeouts ==
  ASSUME IsABag(timeouts), NEW j, NEW tk, NEW dy, NEW snd, NEW du,
         SendNext(j, tk, dy, snd, du)
  PROVE  TimeoutStep
<1>1. CASE UNCHANGED <<path, timeoutId, timeouts>>
  BY <1>1 DEF TimeoutStep, StayOrLeave
<1>2. CASE CompAtA(j, tk, dy, du)
  BY <1>2, CompAtATimeouts
<1> QED
  BY <1>1, <1>2, Zenon DEF SendNext

LEMMA NextTimeouts ==
  ASSUME Typed, [Next]_vars
  PROVE  TimeoutStep
<1>1. IsABag(timeouts)
  BY DEF Typed, TimeoutType
<1>2. CASE UNCHANGED <<path, timeoutId, timeouts>>
  BY <1>2 DEF TimeoutStep, StayOrLeave
<1>3. CASE \E j, tk, dy, du : CompAtA(j, tk, dy, du)
  BY <1>1, <1>3, CompAtATimeouts
<1>4. CASE \E j, tk, dy, snd, du : SendNext(j, tk, dy, snd, du)
  BY <1>1, <1>4, SendNextTimeouts
<1>5. ASSUME NEW i, Delivered(i) \/ ConnectionFailed(i) PROVE TimeoutStep
  BY <1>2, <1>3, <1>4, <1>5, Zenon DEF Delivered, ConnectionFailed, pathVars
<1>6. ASSUME NEW a, JoinCompleted(a) PROVE TimeoutStep
  BY <1>2, <1>4, <1>6, Zenon DEF JoinCompleted
<1>7. ASSUME NEW c, ChunkReceived(c) PROVE TimeoutStep
  <2>1. CASE UNCHANGED <<pathVars, timeouts>>
    BY <1>2, <2>1, Zenon DEF pathVars
  <2>2. CASE timeouts' = Post(timeouts, <<Bump(timeoutId), path>>)
             /\ \/ \E j, tk, du : CheckStop(FALSE, j, tk, Bump(timeoutId), du)
                \/ timeoutId' = Bump(timeoutId) /\ UNCHANGED path
    <3>1. StayOrLeave(Bump(timeoutId))
      BY <2>2, CheckStopStays, Zenon DEF StayOrLeave
    <3>2. DOMAIN timeouts' = DOMAIN timeouts \cup {<<timeoutId + 1, path>>}
      BY <1>1, <2>2, PostDomain, Zenon DEF Bump
    <3> QED
      BY <3>1, <3>2 DEF TimeoutStep, Bump
  <2> QED
    BY <1>7, <2>1, <2>2, Zenon DEF ChunkReceived
<1>8. ASSUME NEW m, PathStopTimeout(m) PROVE TimeoutStep
  <2>1. DOMAIN timeouts' \subseteq DOMAIN timeouts
    BY <1>1, <1>8, ConsumeType DEF PathStopTimeout
  <2>2. CASE UNCHANGED pathVars
    BY <2>1, <2>2 DEF TimeoutStep, StayOrLeave, pathVars
  <2>3. CASE CheckStop(TRUE, joinedAId, task, timeoutId, due)
    <3>1. StayOrLeave(timeoutId)
      BY <2>3, CheckStopStays, Zenon
    <3> QED
      BY <2>1, <3>1 DEF TimeoutStep
  <2> QED
    BY <1>8, <2>2, <2>3, Zenon DEF PathStopTimeout
<1>9. CASE PassThrough
  BY <1>9, Zenon DEF PassThrough, TimeoutStep
<1>10. CASE Arrive
  <2>1. CASE UNCHANGED timeouts /\ \E du : CheckStop(FALSE, joinedAId, task, timeoutId, du)
    <3>1. StayOrLeave(timeoutId)
      BY <2>1, CheckStopStays, Zenon
    <3> QED
      BY <2>1, <3>1 DEF TimeoutStep
  <2>2. CASE AwaitTasks /\ UNCHANGED <<path, timeoutId>>
    <3>1. DOMAIN timeouts' = DOMAIN timeouts \cup {<<timeoutId, path>>}
      BY <1>1, <2>2, PostDomain, Zenon DEF AwaitTasks
    <3> QED
      BY <2>2, <3>1 DEF TimeoutStep, StayOrLeave
  <2> QED
    BY <1>4, <1>10, <2>1, <2>2, Zenon DEF Arrive
<1>11. ASSUME NEW init, PathEnd(init) \/ MoveOn(init) \/ MoveLast(init) PROVE TimeoutStep
  BY <1>2, <1>11, Zenon DEF PathEnd, MoveOn, MoveLast, Move
<1>12. CASE Stay \/ TerminationTimer
  BY <1>2, <1>12, Zenon DEF Stay, TerminationTimer, pathVars
<1>13. ASSUME NEW c, HeaderReceived(c) \/ RxHeader(c) \/ RxWhole(c) \/ RxBreak(c)
       PROVE  TimeoutStep
  BY <1>2, <1>13, Zenon
  DEF HeaderReceived, RxHeader, RxWhole, RxBreak, RxStep, DaemonIdle, pathVars
<1>14. ASSUME NEW i, OpenOk(i) \/ OpenFail(i) \/ DataSent(i) \/ Drop(i) PROVE TimeoutStep
  BY <1>2, <1>14, Zenon
  DEF OpenOk, OpenFail, DataSent, Drop, SessionStep, SessionReport, DaemonIdle, pathVars
<1>15. ASSUME NEW e, Mobility(e) PROVE TimeoutStep
  BY <1>2, <1>15, Zenon DEF Mobility
<1> QED
  BY <1>2, <1>5, <1>6, <1>7, <1>8, <1>9, <1>10, <1>11, <1>12, <1>13, <1>14, <1>15, Zenon
  DEF Next, DaemonNext, EnvNext, PathTimer, vars

LiveAt(m, tid, p) ==
  /\ m[1] <= tid
  /\ m[2] <= p
  /\ m[1] = tid => \A k \in m[2]..(p - 1) : StopTasks[k] = {}

\* The same stop; an empty stop is passed; or an old timeout dies.
LEMMA LiveAtStays ==
  ASSUME NEW m \in Nat \X Nat, NEW tid \in Nat, NEW p \in Nat, LiveAt(m, tid, p),
         NEW tid2 \in Nat, NEW p2 \in Nat, p <= p2, tid <= tid2,
         tid2 > tid \/ p2 = p \/ (p2 = p + 1 /\ StopTasks[p] = {})
  PROVE  LiveAt(m, tid2, p2)
<1>1. m[1] \in Nat /\ m[2] \in Nat
  OBVIOUS
<1>2. CASE tid2 > tid
  BY <1>1, <1>2 DEF LiveAt
<1>3. CASE p2 = p /\ tid2 = tid
  BY <1>3
<1>4. CASE p2 = p + 1 /\ tid2 = tid /\ StopTasks[p] = {}
  <2>1. ASSUME NEW k \in m[2]..(p2 - 1) PROVE k = p \/ k \in m[2]..(p - 1)
    BY <1>1, <1>4, <2>1
  <2>2. p2 - 1 = p
    BY <1>4
  <2> QED
    BY <1>1, <1>4, <2>1, <2>2 DEF LiveAt
<1> QED
  BY <1>2, <1>3, <1>4

\* A timeout posted by the step itself.
LEMMA LiveAtPosted ==
  ASSUME NEW tid \in Nat, NEW p \in Nat, NEW tid2, NEW p2,
         (tid2 = tid /\ p2 = p) \/ (tid2 = tid + 1 /\ p2 = p + 1)
  PROVE  LiveAt(<<tid, p>>, tid2, p2)
BY DEF LiveAt

LEMMA LiveTimeoutsInv ==
  ASSUME Typed, LiveTimeouts, TimeoutStep
  PROVE  LiveTimeouts'
<1>1. timeoutId \in Nat /\ path \in Nat /\ DOMAIN timeouts \subseteq Nat \X Nat
  BY PathFacts DEF Typed, PathType, TimeoutType, Stop
<1>2. timeoutId <= timeoutId' /\ path <= path' /\ timeoutId' \in Nat /\ path' \in Nat
  BY <1>1 DEF TimeoutStep, StayOrLeave
<1>3. timeoutId' > timeoutId \/ path' = path \/ (path' = path + 1 /\ StopTasks[path] = {})
  BY <1>1 DEF TimeoutStep, StayOrLeave
<1>4. ASSUME NEW m \in DOMAIN timeouts PROVE LiveAt(m, timeoutId', path')
  <2>1. m \in Nat \X Nat /\ LiveAt(m, timeoutId, path)
    BY <1>1, <1>4 DEF LiveTimeouts, LiveAt
  <2> QED
    BY <1>1, <1>2, <1>3, <2>1, LiveAtStays
<1>5. ASSUME StayOrLeave(timeoutId) PROVE LiveAt(<<timeoutId, path>>, timeoutId', path')
  BY <1>1, <1>5, LiveAtPosted DEF StayOrLeave
<1>6. ASSUME StayOrLeave(timeoutId + 1)
      PROVE  LiveAt(<<timeoutId + 1, path>>, timeoutId', path')
  BY <1>1, <1>6, LiveAtPosted DEF StayOrLeave
<1>7. \A m \in DOMAIN timeouts' : LiveAt(m, timeoutId', path')
  BY <1>4, <1>5, <1>6, Zenon DEF TimeoutStep
<1> QED
  BY <1>7, Zenon DEF LiveTimeouts, LiveAt

\* A stop timeout that can still have an effect belongs to the stop the daemon is at:
\* no stop is left because the wait at an earlier one was over.
THEOREM LiveTimeoutsAlways == Spec => []LiveTimeouts
<1>1. Init => LiveTimeouts
  BY DEF Init, LiveTimeouts, EmptyBag, SetToBag
<1>2. Typed /\ LiveTimeouts /\ [Next]_vars => LiveTimeouts'
  BY NextTimeouts, LiveTimeoutsInv
<1>3. Spec => []Typed
  BY InitType, NextType, PTL DEF Spec
<1> QED
  BY <1>1, <1>2, <1>3, PTL DEF Spec

(***************************************************************************)
(* Tasks of the plan, and the reception of chunks.                         *)
(***************************************************************************)

\* Stop i is the first one from stop p on that has task x.
First(x, i, p) ==
  /\ i \in p..NumStops
  /\ x \in StopTasks[i]
  /\ \A k \in p..NumStops : x \in StopTasks[k] => i <= k

LEMMA MarkOther ==
  ASSUME NEW x, NEW status, NEW tk \in Tasks, NEW i \in Stop, NEW y \in Task, y # x
  PROVE  Mark(x, status, tk)[i][y] = tk[i][y]
BY DEF Mark, Tasks

LEMMA MarkSame ==
  ASSUME PathType, NEW x \in Task, NEW status, NEW tk \in Tasks, NEW i \in Stop
  PROVE  Mark(x, status, tk)[i][x] = IF First(x, i, path) THEN status ELSE tk[i][x]
<1>1. i \in Serving(x) /\ (\A k \in Serving(x) : i <= k) <=> First(x, i, path)
  BY DEF Serving, First
<1>2. Mark(x, status, tk)[i] = IF First(x, i, path) THEN [tk[i] EXCEPT ![x] = status] ELSE tk[i]
  BY <1>1 DEF Mark
<1> QED
  BY <1>2 DEF Tasks

\* The first stop with a task stays the first while stops without it are left.
LEMMA FirstStays ==
  ASSUME PathType, NEW x, NEW i, First(x, i, path), x \notin StopTasks[path]
  PROVE  First(x, i, path + 1)
BY PathFacts DEF First, PathType

LEMMA FirstWas ==
  ASSUME PathType, NEW x, NEW i, First(x, i, path + 1), x \notin StopTasks[path]
  PROVE  First(x, i, path)
BY PathFacts DEF First, PathType

LEMMA FirstIsHead ==
  ASSUME PathType, path <= NumStops, NEW x, x \in StopTasks[path]
  PROVE  /\ First(x, path, path)
         /\ \A i : First(x, i, path) => i = path
BY PathFacts DEF First, PathType

\* The statuses become tk; a stop that is left then has no task that is awaited.
Walk(tk) ==
  /\ task' = tk
  /\ \/ path' = path
     \/ /\ path <= NumStops
        /\ path' = path + 1
        /\ \A x \in StopTasks[path] : tk[path][x] # "WAIT"

LEMMA CheckStopWalks ==
  ASSUME path <= NumStops,
         NEW timedOut, NEW j, NEW tk, NEW tid, NEW du, CheckStop(timedOut, j, tk, tid, du)
  PROVE  Walk(tk)
<1>1. Completed(tk, timedOut) => \A x \in StopTasks[path] : tk[path][x] # "WAIT"
  BY DEF Completed
<1> QED
  BY <1>1, Zenon DEF CheckStop, Walk

\* A step that leaves the statuses of all chunks alone.
ChunksKept(tk) == tk \in Tasks /\ \A i \in Stop, c \in Chunk : tk[i][c] = task[i][c]

LEMMA MarkKeepsChunks ==
  ASSUME NEW a \in AP \cup {None}, NEW status \in Status, NEW tk, ChunksKept(tk)
  PROVE  ChunksKept(Mark(a, status, tk))
<1>1. \A c \in Chunk : c # a /\ c \in Task
  BY Names DEF Task
<1> QED
  BY <1>1, MarkType, MarkOther DEF ChunksKept

LEMMA CompAtAWalks ==
  ASSUME PathType, NEW j \in AP \cup {None}, NEW tk, ChunksKept(tk), NEW dy, NEW du,
         CompAtA(j, tk, dy, du)
  PROVE  \E new : ChunksKept(new) /\ Walk(new)
<1>1. CASE task' = tk /\ UNCHANGED path
  BY <1>1 DEF Walk
<1>2. CASE path <= NumStops /\ \E status \in {"COMP", "WAIT"} :
             CheckStop(FALSE, j, Mark(j, status, tk), Bump(timeoutId), du)
  <2>1. PICK status \in {"COMP", "WAIT"} :
          CheckStop(FALSE, j, Mark(j, status, tk), Bump(timeoutId), du)
    BY <1>2
  <2>2. Walk(Mark(j, status, tk))
    BY <1>2, <2>1, CheckStopWalks, Zenon
  <2>3. ChunksKept(Mark(j, status, tk))
    BY MarkKeepsChunks DEF Status
  <2> QED
    BY <2>2, <2>3
<1> QED
  BY <1>1, <1>2, Zenon DEF CompAtA

LEMMA SendNextWalks ==
  ASSUME PathType, NEW j \in AP \cup {None}, NEW tk, ChunksKept(tk),
         NEW dy, NEW snd, NEW du, SendNext(j, tk, dy, snd, du)
  PROVE  \E new : ChunksKept(new) /\ Walk(new)
<1>1. CASE task' = tk /\ UNCHANGED path
  BY <1>1 DEF Walk
<1>2. CASE CompAtA(j, tk, dy, du)
  BY <1>2, CompAtAWalks
<1> QED
  BY <1>1, <1>2, Zenon DEF SendNext

\* What a step may do to the tasks, the receiving sessions and the list of chunks.
PlanStep ==
  \/ /\ \E tk : ChunksKept(tk) /\ Walk(tk)
     /\ UNCHANGED <<rx, dataChunks>>
  \/ \E c \in Chunk : /\ rx[c] = "header"
                      /\ rx' = [rx EXCEPT ![c] = "headed"]
                      /\ task' = Mark(c, "WAIT", task)
                      /\ UNCHANGED <<path, dataChunks>>
  \/ \E c \in Chunk : /\ rx[c] = "whole"
                      /\ rx' = [rx EXCEPT ![c] = "done"]
                      /\ dataChunks' = dataChunks \cup {c}
                      /\ \/ Serving(c) = {} /\ UNCHANGED <<task, path>>
                         \/ Walk(Mark(c, "COMP", task))
  \/ \E c \in Chunk : /\ \/ rx[c] = "idle" /\ rx' = [rx EXCEPT ![c] = "header"]
                         \/ rx[c] = "headed" /\ rx' = [rx EXCEPT ![c] = "whole"]
                         \/ rx[c] = "headed" /\ rx' = [rx EXCEPT ![c] = "broken"]
                      /\ UNCHANGED <<task, path, dataChunks>>

LEMMA NextPlan ==
  ASSUME Typed, [Next]_vars
  PROVE  PlanStep
<1> USE DEF PlanStep
<1>1. PathType /\ ChunksKept(task) /\ joinedAId \in AP \cup {None}
  BY DEF Typed, PathType, ChunksKept
<1>2. CASE UNCHANGED <<task, path, rx, dataChunks>>
  BY <1>1, <1>2, Zenon DEF Walk
<1>3. ASSUME NEW j \in AP \cup {None}, NEW tk, ChunksKept(tk), NEW dy, NEW snd, NEW du,
             SendNext(j, tk, dy, snd, du), UNCHANGED <<rx, dataChunks>>
      PROVE  PlanStep
  BY <1>1, <1>3, SendNextWalks
<1>4. ASSUME NEW dy, NEW du, CompAtA(joinedAId, task, dy, du), UNCHANGED <<rx, dataChunks>>
      PROVE  PlanStep
  BY <1>1, <1>4, CompAtAWalks
<1>5. ASSUME NEW i, Delivered(i) \/ ConnectionFailed(i) PROVE PlanStep
  BY <1>1, <1>2, <1>3, <1>4, <1>5, Zenon DEF Delivered, ConnectionFailed, pathVars
<1>6. ASSUME NEW a \in AP, JoinCompleted(a) PROVE PlanStep
  <2>1. ChunksKept(Mark(a, "WAIT", task))
    BY <1>1, MarkKeepsChunks DEF Status
  <2>2. CASE task' = Mark(a, "WAIT", task) /\ UNCHANGED <<path, rx, dataChunks>>
    BY <2>1, <2>2, Zenon DEF Walk
  <2> QED
    BY <1>2, <1>3, <1>6, <2>1, <2>2, Zenon DEF JoinCompleted
<1>7. ASSUME NEW c \in Chunk, HeaderReceived(c) PROVE PlanStep
  BY <1>7, Zenon DEF HeaderReceived, chunkVars
<1>8. ASSUME NEW c \in Chunk, ChunkReceived(c) PROVE PlanStep
  <2>1. CASE Serving(c) = {}
    BY <1>8, <2>1, Zenon DEF ChunkReceived, pathVars
  <2>2. CASE Serving(c) # {}
    <3>1. path <= NumStops
      BY <1>1, <2>2, PathFacts DEF Serving, PathType
    <3>2. Walk(Mark(c, "COMP", task))
      <4>1. CASE \E tid : CheckStop(FALSE, joinedAId, Mark(c, "COMP", task), tid, due)
        BY <3>1, <4>1, CheckStopWalks, Zenon
      <4>2. CASE task' = Mark(c, "COMP", task) /\ UNCHANGED path
        BY <4>2, Zenon DEF Walk
      <4> QED
        BY <1>8, <2>2, <4>1, <4>2, Zenon DEF ChunkReceived
    <3> QED
      BY <1>8, <3>2, Zenon DEF ChunkReceived
  <2> QED
    BY <2>1, <2>2
<1>9. ASSUME NEW m, PathStopTimeout(m) PROVE PlanStep
  <2>1. CASE path <= NumStops /\ CheckStop(TRUE, joinedAId, task, timeoutId, due)
    <3>1. Walk(task)
      BY <2>1, CheckStopWalks, Zenon
    <3> QED
      BY <1>1, <1>9, <3>1, Zenon DEF PathStopTimeout, chunkVars
  <2> QED
    BY <1>2, <1>9, <2>1, Zenon DEF PathStopTimeout, pathVars, chunkVars
<1>10. CASE PassThrough
  <2>1. Walk(task)
    BY <1>10, Zenon DEF PassThrough, AtStop, Walk
  <2> QED
    BY <1>1, <1>10, <2>1, Zenon DEF PassThrough, TakePathTimer
<1>11. CASE Arrive
  <2>1. path <= NumStops /\ UNCHANGED <<rx, dataChunks>>
    BY <1>11, Zenon DEF Arrive, AtStop, TakePathTimer
  <2>2. CASE \E du : CheckStop(FALSE, joinedAId, task, timeoutId, du)
    <3>1. Walk(task)
      BY <2>1, <2>2, CheckStopWalks, Zenon
    <3> QED
      BY <1>1, <2>1, <3>1, Zenon
  <2> QED
    BY <1>1, <1>2, <1>3, <1>11, <2>1, <2>2, Zenon DEF Arrive
<1>12. ASSUME NEW init, PathEnd(init) \/ MoveOn(init) \/ MoveLast(init) PROVE PlanStep
  BY <1>2, <1>12, Zenon DEF PathEnd, MoveOn, MoveLast, Move, TakePathTimer
<1>13. CASE Stay \/ TerminationTimer
  BY <1>2, <1>13, Zenon DEF Stay, TerminationTimer, TakePathTimer, pathVars, chunkVars
<1>14. ASSUME NEW c \in Chunk, RxHeader(c) \/ RxWhole(c) \/ RxBreak(c) PROVE PlanStep
  BY <1>14, Zenon DEF RxHeader, RxWhole, RxBreak, RxStep, DaemonIdle, pathVars, chunkVars
<1>15. ASSUME NEW i, OpenOk(i) \/ OpenFail(i) \/ DataSent(i) \/ Drop(i) PROVE PlanStep
  BY <1>2, <1>15, Zenon
  DEF OpenOk, OpenFail, DataSent, Drop, SessionStep, SessionReport, DaemonIdle,
      pathVars, chunkVars
<1>16. ASSUME NEW e, Mobility(e) PROVE PlanStep
  BY <1>2, <1>16, Zenon DEF Mobility, chunkVars
<1> QED
  BY <1>2, <1>5, <1>6, <1>7, <1>8, <1>9, <1>10, <1>11, <1>12, <1>13, <1>14, <1>15, <1>16, Zenon
  DEF Next, DaemonNext, EnvNext, PathTimer, vars

\* The inductive invariant.  TaskTruth alone is not inductive: a chunk's task is
\* awaited only at the first stop ahead that has it, and there it is awaited from
\* the header on until the chunk is complete.
ReceptionAt(c, i) ==
  /\ task[i][c] = "WAIT" => rx[c] \in {"headed", "whole", "broken"} /\ First(c, i, path)
  /\ First(c, i, path) /\ rx[c] \in {"headed", "whole"} => task[i][c] = "WAIT"
  /\ task[i][c] = "COMP" => c \in dataChunks

Reception == \A c \in Chunk : \A i \in Stop : ReceptionAt(c, i)

\* Walking on does not disturb a chunk whose own statuses are left alone.
LEMMA WalkKeepsReception ==
  ASSUME Typed, Reception, NEW tk, Walk(tk), NEW c \in Chunk,
         \A i \in Stop : tk[i][c] = task[i][c],
         rx'[c] = rx[c], c \in dataChunks => c \in dataChunks',
         NEW i \in Stop
  PROVE  ReceptionAt(c, i)'
<1>1. PathType /\ ReceptionAt(c, i) /\ task'[i][c] = task[i][c]
  BY DEF Typed, Reception, Walk
<1>2. CASE path' = path
  BY <1>1, <1>2 DEF ReceptionAt, First
<1>3. CASE path <= NumStops /\ path' = path + 1
           /\ \A x \in StopTasks[path] : tk[path][x] # "WAIT"
  <2>1. path \in Stop
    BY <1>1, <1>3, PathFacts DEF PathType, Stop
  <2>2. ASSUME task[i][c] = "WAIT" PROVE c \notin StopTasks[path]
    BY <1>1, <1>3, <2>2, FirstIsHead DEF ReceptionAt
  <2>3. ASSUME rx[c] \in {"headed", "whole"} PROVE c \notin StopTasks[path]
    <3>1. ReceptionAt(c, path)
      BY <2>1 DEF Reception
    <3> QED
      BY <1>1, <1>3, <2>1, <2>3, <3>1, FirstIsHead DEF ReceptionAt
  <2>4. task[i][c] = "WAIT" => First(c, i, path')
    BY <1>1, <1>3, <2>2, FirstStays DEF ReceptionAt
  <2>5. First(c, i, path') /\ rx[c] \in {"headed", "whole"} => First(c, i, path)
    BY <1>1, <1>3, <2>3, FirstWas
  <2>6. /\ task'[i][c] = "WAIT" => rx'[c] \in {"headed", "whole", "broken"} /\ First(c, i, path')
        /\ First(c, i, path') /\ rx'[c] \in {"headed", "whole"} => task'[i][c] = "WAIT"
        /\ task'[i][c] = "COMP" => c \in dataChunks'
    BY <1>1, <2>4, <2>5 DEF ReceptionAt
  <2> QED
    BY <2>6 DEF ReceptionAt, First
<1> QED
  BY <1>2, <1>3 DEF Walk

LEMMA ReceptionInv ==
  ASSUME Typed, Reception, PlanStep
  PROVE  Reception'
<1>1. PathType /\ task \in Tasks /\ rx \in [Chunk -> RxPhase] /\ Chunk \subseteq Task
  BY DEF Typed, PathType, RestType, Task
<1>2. ASSUME NEW tk, ChunksKept(tk), Walk(tk), UNCHANGED <<rx, dataChunks>> PROVE Reception'
  BY <1>2, WalkKeepsReception DEF ChunksKept, Reception
<1>3. UNCHANGED <<task, path>> => Walk(task)
  BY DEF Walk
<1>4. ASSUME NEW c \in Chunk, rx[c] = "header", rx' = [rx EXCEPT ![c] = "headed"],
             task' = Mark(c, "WAIT", task), UNCHANGED <<path, dataChunks>>
      PROVE  Reception'
  <2>1. ASSUME NEW d \in Chunk, d # c, NEW i \in Stop PROVE ReceptionAt(d, i)'
    <3>1. Walk(Mark(c, "WAIT", task))
      BY <1>4 DEF Walk
    <3>2. \A k \in Stop : Mark(c, "WAIT", task)[k][d] = task[k][d]
      BY <1>1, <2>1, MarkOther
    <3> QED
      BY <1>1, <1>4, <2>1, <3>1, <3>2, WalkKeepsReception
  <2>2. ASSUME NEW i \in Stop PROVE ReceptionAt(c, i)'
    <3>1. ReceptionAt(c, i)
      BY <2>2 DEF Reception
    <3>2. task'[i][c] = IF First(c, i, path) THEN "WAIT" ELSE task[i][c]
      BY <1>1, <1>4, MarkSame
    <3> QED
      BY <1>1, <1>4, <3>1, <3>2 DEF ReceptionAt, First
  <2> QED
    BY <2>1, <2>2 DEF Reception
<1>5. ASSUME NEW c \in Chunk, rx[c] = "whole", rx' = [rx EXCEPT ![c] = "done"],
             dataChunks' = dataChunks \cup {c},
             \/ Serving(c) = {} /\ UNCHANGED <<task, path>>
             \/ Walk(Mark(c, "COMP", task))
      PROVE  Reception'
  <2>1. ASSUME NEW d \in Chunk, d # c, NEW i \in Stop PROVE ReceptionAt(d, i)'
    <3>1. \A k \in Stop : Mark(c, "COMP", task)[k][d] = task[k][d]
      BY <1>1, <2>1, MarkOther
    <3>2. PICK tk : Walk(tk) /\ \A k \in Stop : tk[k][d] = task[k][d]
      BY <1>3, <1>5, <3>1
    <3> QED
      BY <1>1, <1>5, <2>1, <3>2, WalkKeepsReception
  <2>2. ASSUME NEW i \in Stop PROVE ReceptionAt(c, i)'
    <3>1. rx'[c] = "done" /\ c \in dataChunks'
      BY <1>1, <1>5
    <3>2. ReceptionAt(c, i)
      BY <2>2 DEF Reception
    <3>3. CASE Serving(c) = {} /\ task' = task
      <4>1. ~First(c, i, path)
        BY <3>3 DEF First, Serving
      <4> QED
        BY <3>1, <3>2, <3>3, <4>1 DEF ReceptionAt
    <3>4. CASE Walk(Mark(c, "COMP", task))
      <4>1. task'[i][c] = IF First(c, i, path) THEN "COMP" ELSE task[i][c]
        BY <1>1, <3>4, MarkSame DEF Walk
      <4> QED
        BY <3>1, <3>2, <4>1 DEF ReceptionAt
    <3> QED
      BY <1>5, <3>3, <3>4
  <2> QED
    BY <2>1, <2>2 DEF Reception
<1>6. ASSUME NEW c \in Chunk,
             \/ rx[c] = "idle" /\ rx' = [rx EXCEPT ![c] = "header"]
             \/ rx[c] = "headed" /\ rx' = [rx EXCEPT ![c] = "whole"]
             \/ rx[c] = "headed" /\ rx' = [rx EXCEPT ![c] = "broken"],
             UNCHANGED <<task, path, dataChunks>>
      PROVE  Reception'
  BY <1>1, <1>6 DEF Reception, ReceptionAt, First
<1> QED
  BY <1>2, <1>4, <1>5, <1>6, Zenon DEF PlanStep

\* The inductive invariant of receptions: what each server session has reported, the
\* daemon's list and the plan agree (ReceptionAt), at every stop still ahead.
THEOREM ReceptionAlways == Spec => []Reception
<1>1. Init => Reception
  BY DEF Init, Reception, ReceptionAt, Task
<1>2. Typed /\ Reception /\ [Next]_vars => Reception'
  BY NextPlan, ReceptionInv
<1>3. Spec => []Typed
  BY InitType, NextType, PTL DEF Spec
<1> QED
  BY <1>1, <1>2, <1>3, PTL DEF Spec

\* The plan's book-keeping is true: complete means received, awaited means begun.
THEOREM TaskTruthAlways == Spec => []TaskTruth
<1>1. Reception => TaskTruth
  BY DEF Reception, ReceptionAt, TaskTruth
<1> QED
  BY <1>1, ReceptionAlways, PTL

\* The vehicle stays while a chunk planned for the stop is being received.
THEOREM NoLeaveAlways == Spec => NoLeaveDuringReception
<1> DEFINE Stays == path' # path =>
                    \A c \in StopTasks[path] \cap Chunk : rx'[c] \notin {"headed", "whole"}
<1>1. ASSUME Typed, Reception, [Next]_vars, NEW c \in StopTasks[path] \cap Chunk, path' # path
      PROVE  rx'[c] \notin {"headed", "whole"}
  <2>1. PlanStep /\ PathType /\ task \in Tasks /\ rx \in [Chunk -> RxPhase]
    BY <1>1, NextPlan DEF Typed, PathType, RestType
  <2>2. PICK tk : Walk(tk)
    BY <1>1, <2>1 DEF PlanStep
  <2>3. path \in Stop /\ path <= NumStops /\ path' = path + 1 /\ tk[path][c] # "WAIT"
    BY <1>1, <2>1, <2>2, PathFacts DEF Walk, PathType, Stop
  <2>4. First(c, path, path) /\ ReceptionAt(c, path)
    BY <1>1, <2>1, <2>3, FirstIsHead DEF Reception
  <2>5. CASE UNCHANGED rx /\ \E new : ChunksKept(new) /\ Walk(new)
    <3>1. tk[path][c] = task[path][c]
      BY <1>1, <2>2, <2>3, <2>5 DEF Walk, ChunksKept
    <3> QED
      BY <2>3, <2>4, <2>5, <3>1 DEF ReceptionAt
  <2>6. ASSUME NEW d \in Chunk, rx[d] = "whole", rx' = [rx EXCEPT ![d] = "done"],
               Walk(Mark(d, "COMP", task))
        PROVE  rx'[c] \notin {"headed", "whole"}
    <3>1. CASE d = c
      BY <2>1, <2>6, <3>1
    <3>2. CASE d # c
      <4>1. tk[path][c] = task[path][c]
        BY <1>1, <2>1, <2>2, <2>3, <2>6, <3>2, MarkOther DEF Walk, Task
      <4> QED
        BY <2>1, <2>3, <2>4, <2>6, <3>2, <4>1 DEF ReceptionAt
    <3> QED
      BY <3>1, <3>2
  <2> QED
    BY <1>1, <2>1, <2>5, <2>6 DEF PlanStep
<1>2. Typed /\ Reception /\ [Next]_vars => [Stays]_vars
  BY <1>1, Zenon
<1>3. Spec => []Typed
  BY InitType, NextType, PTL DEF Spec
<1> QED
  BY <1>2, <1>3, ReceptionAlways, PTL DEF Spec, NoLeaveDuringReception

(***************************************************************************)
(* The access point in use.                                                *)
(***************************************************************************)

\* The inductive invariant: while a chunk is sent, the task of the joined access
\* point is awaited at the first stop ahead that has it; when nothing is sent it may
\* also be complete, but only at the head of the path.
Joined ==
  /\ joinedAId = None => sending = 0
  /\ joinedAId \in AP =>
       \A i \in Stop : First(joinedAId, i, path) =>
         \/ task[i][joinedAId] = "WAIT"
         \/ sending = 0 /\ i = path /\ task[i][joinedAId] = "COMP"

\* As Walk, with the joined access point j.
WalkWith(tk, j) ==
  /\ task' = tk
  /\ \/ path' = path /\ joinedAId' = j
     \/ /\ path <= NumStops
        /\ path' = path + 1
        /\ joinedAId' = Forget(j)
        /\ \A x \in StopTasks[path] : tk[path][x] # "WAIT"

PointsKept(tk) == tk \in Tasks /\ \A i \in Stop, a \in AP : tk[i][a] = task[i][a]

\* What a step may do to the access point, its task and the counter.
JoinStep ==
  \/ /\ \E tk : PointsKept(tk) /\ WalkWith(tk, joinedAId)
     /\ sending' = 0 \/ sending' = sending
  \/ \E a \in AP : joinedAId' = a /\ task' = Mark(a, "WAIT", task) /\ path' = path
  \/ path > NumStops /\ path' = path /\ (joinedAId' \in AP \/ sending' = 0)
  \/ /\ path <= NumStops
     /\ sending' = 0
     /\ \E a \in AP, tk \in Tasks :
          WalkWith(Mark(a, IF a \in StopTasks[path] THEN "COMP" ELSE "WAIT", tk), a)
  \/ /\ UNCHANGED <<path, task, joinedAId>>
     /\ joinedAId \in AP
     /\ path <= NumStops
     /\ ~Completed(task, FALSE)
     /\ StopTasks[path] \cap AP # {}

LEMMA CheckStopWalksWith ==
  ASSUME path <= NumStops,
         NEW timedOut, NEW j, NEW tk, NEW tid, NEW du, CheckStop(timedOut, j, tk, tid, du)
  PROVE  WalkWith(tk, j)
<1>1. Completed(tk, timedOut) => \A x \in StopTasks[path] : tk[path][x] # "WAIT"
  BY DEF Completed
<1> QED
  BY <1>1, Zenon DEF CheckStop, WalkWith

LEMMA CompAtAJoins ==
  ASSUME PathType, NEW j \in AP, NEW tk \in Tasks, NEW dy, NEW du, CompAtA(j, tk, dy, du),
         sending' = 0
  PROVE  JoinStep
<1>1. CASE path > NumStops /\ UNCHANGED path
  BY <1>1, Zenon DEF JoinStep
<1>2. CASE path <= NumStops /\
           CheckStop(FALSE, j, Mark(j, IF j \in StopTasks[path] THEN "COMP" ELSE "WAIT", tk),
                     Bump(timeoutId), du)
  <2>1. WalkWith(Mark(j, IF j \in StopTasks[path] THEN "COMP" ELSE "WAIT", tk), j)
    BY <1>2, CheckStopWalksWith, Zenon
  <2> QED
    BY <1>2, <2>1, Zenon DEF JoinStep
<1> QED
  BY <1>1, <1>2, Zenon DEF CompAtA

\* The report of a transfer that has ended leaves nothing under way.
LEMMA ReportOfTheOne ==
  ASSUME OneTransfer, NEW r \in Report, report[r] > 0
  PROVE  sending = 1 /\ sending - 1 = 0 /\ sess = Nothing(Session)
BY NothingThere DEF OneTransfer

LEMMA NextJoins ==
  ASSUME Typed, OneTransfer, Joined, [Next]_vars
  PROVE  JoinStep
<1>1. PathType /\ task \in Tasks /\ PointsKept(task) /\ joinedAId \in AP \cup {None}
      /\ sending \in {0, 1}
  BY DEF Typed, PathType, PointsKept, OneTransfer
<1>2. CASE UNCHANGED <<task, path, joinedAId>> /\ (sending' = 0 \/ sending' = sending)
  BY <1>1, <1>2, Zenon DEF JoinStep, WalkWith
<1>3. ASSUME NEW tk, PointsKept(tk), NEW timedOut, NEW tid, NEW du, path <= NumStops,
             CheckStop(timedOut, joinedAId, tk, tid, du), UNCHANGED sending
      PROVE  JoinStep
  <2>1. WalkWith(tk, joinedAId)
    BY <1>3, CheckStopWalksWith
  <2> QED
    BY <1>3, <2>1, Zenon DEF JoinStep
<1>4. ASSUME NEW i \in Item, Delivered(i) \/ ConnectionFailed(i) PROVE JoinStep
  <2>1. sending = 1 /\ sending - 1 = 0
    <3>1. <<i, "delivered">> \in Report /\ <<i, "failed">> \in Report
      BY DEF Report
    <3>2. report[<<i, "delivered">>] > 0 \/ report[<<i, "failed">>] > 0
      BY <1>4, Zenon DEF Delivered, ConnectionFailed
    <3> QED
      BY <3>1, <3>2, ReportOfTheOne
  <2>2. joinedAId \in AP
    BY <1>1, <2>1 DEF Joined
  <2>3. CASE sending' = sending - 1 /\ \E dy : CompAtA(joinedAId, task, dy, due)
    BY <1>1, <2>1, <2>2, <2>3, CompAtAJoins
  <2>4. CASE \E dy : SendNext(joinedAId, task, dy, sending - 1, due)
    <3>1. CASE \E c : StartClient(c, sending - 1) /\ UNCHANGED <<path, task, joinedAId>>
      <4>1. sending' = sending
        BY <2>1, <3>1 DEF StartClient
      <4> QED
        BY <1>2, <3>1, <4>1
    <3> QED
      BY <2>3, <2>4, <3>1, Zenon DEF SendNext
  <2>5. CASE StartClient(Probe, sending - 1) /\ UNCHANGED pathVars
    BY <1>2, <2>1, <2>5 DEF StartClient, pathVars
  <2>6. CASE sending' = sending - 1 /\ UNCHANGED pathVars
    BY <1>2, <2>1, <2>6 DEF pathVars
  <2> QED
    BY <1>4, <2>3, <2>4, <2>5, <2>6, Zenon DEF Delivered, ConnectionFailed
<1>5. ASSUME NEW a \in AP, JoinCompleted(a) PROVE JoinStep
  <2>1. Mark(a, "WAIT", task) \in Tasks
    BY <1>1, MarkType DEF Status
  <2>2. CASE path > NumStops /\ joinedAId' = a /\ UNCHANGED path
    BY <2>2, Zenon DEF JoinStep
  <2>3. CASE joinedAId' = a /\ task' = Mark(a, "WAIT", task) /\ path' = path
    BY <2>3, Zenon DEF JoinStep
  <2>4. CASE ~Busy /\ sending' = sending /\ CompAtA(a, Mark(a, "WAIT", task), dirty, due)
    <3>1. sending' = 0
      BY <1>1, <2>4 DEF Busy
    <3> QED
      BY <1>1, <2>1, <2>4, <3>1, CompAtAJoins
  <2> QED
    BY <1>5, <2>2, <2>3, <2>4, Zenon DEF JoinCompleted, SendNext
<1>6. ASSUME NEW c \in Chunk, HeaderReceived(c) \/ ChunkReceived(c) PROVE JoinStep
  <2>1. PointsKept(Mark(c, "WAIT", task)) /\ PointsKept(Mark(c, "COMP", task))
    <3>1. \A a \in AP : a # c /\ a \in Task
      BY Names DEF Task
    <3> QED
      BY <1>1, <3>1, MarkType, MarkOther DEF PointsKept, Status
  <2>2. sending' = sending
    BY <1>6, Zenon DEF HeaderReceived, ChunkReceived, sendVars
  <2>3. CASE (task' = Mark(c, "WAIT", task) \/ task' = Mark(c, "COMP", task))
             /\ UNCHANGED <<path, joinedAId>>
    BY <2>1, <2>2, <2>3, Zenon DEF JoinStep, WalkWith
  <2>4. CASE Serving(c) # {} /\ \E tid, du : CheckStop(FALSE, joinedAId, Mark(c, "COMP", task), tid, du)
    <3>1. path <= NumStops
      BY <1>1, <2>4, PathFacts DEF Serving, PathType
    <3> QED
      BY <1>3, <2>1, <2>2, <2>4, <3>1
  <2> QED
    BY <1>2, <1>6, <2>2, <2>3, <2>4, Zenon DEF HeaderReceived, ChunkReceived, pathVars
<1>7. ASSUME NEW m, PathStopTimeout(m) PROVE JoinStep
  <2>1. sending' = sending
    BY <1>7, Zenon DEF PathStopTimeout, sendVars
  <2>2. CASE path <= NumStops /\ CheckStop(TRUE, joinedAId, task, timeoutId, due)
    BY <1>1, <1>3, <2>1, <2>2, Zenon
  <2> QED
    BY <1>2, <1>7, <2>1, <2>2, Zenon DEF PathStopTimeout, pathVars
<1>8. CASE PassThrough
  <2>1. path <= NumStops /\ StopTasks[path] = {} /\ path' = path + 1
        /\ UNCHANGED <<task, joinedAId, sending>>
    BY <1>8, Zenon DEF PassThrough, AtStop, sendVars
  <2>2. Forget(joinedAId) = joinedAId
    BY <2>1 DEF Forget
  <2> QED
    BY <1>1, <2>1, <2>2 DEF JoinStep, WalkWith
<1>9. CASE Arrive
  <2>1. path <= NumStops
    BY <1>9, Zenon DEF Arrive, AtStop
  <2>2. CASE UNCHANGED sendVars /\ \E du : CheckStop(FALSE, joinedAId, task, timeoutId, du)
    BY <1>1, <1>3, <2>1, <2>2, Zenon DEF sendVars
  <2>3. CASE /\ ~Completed(task, FALSE)
             /\ sending < 1 /\ joinedAId # None /\ StopTasks[path] \cap AP # {}
             /\ \E du : SendNext(joinedAId, task, dirty, sending, du)
    <3>1. joinedAId \in AP /\ sending = 0
      BY <1>1, <2>3
    <3>2. CASE UNCHANGED <<path, task, joinedAId>>
      BY <2>1, <2>3, <3>1, <3>2, Zenon DEF JoinStep
    <3>3. CASE sending' = sending /\ \E dy, du : CompAtA(joinedAId, task, dy, du)
      BY <1>1, <3>1, <3>3, CompAtAJoins
    <3> QED
      BY <2>3, <3>2, <3>3, Zenon DEF SendNext
  <2> QED
    BY <1>2, <1>9, <2>2, <2>3, Zenon DEF Arrive, sendVars
<1>10. ASSUME NEW init, PathEnd(init) \/ MoveOn(init) \/ MoveLast(init) PROVE JoinStep
  BY <1>2, <1>10, Zenon DEF PathEnd, MoveOn, MoveLast, Move, sendVars
<1>11. CASE Stay \/ TerminationTimer
  BY <1>2, <1>11, Zenon DEF Stay, TerminationTimer, pathVars, sendVars
<1>12. ASSUME NEW c, RxHeader(c) \/ RxWhole(c) \/ RxBreak(c) PROVE JoinStep
  BY <1>2, <1>12, Zenon DEF RxHeader, RxWhole, RxBreak, RxStep, DaemonIdle, pathVars
<1>13. ASSUME NEW i, OpenOk(i) \/ OpenFail(i) \/ DataSent(i) \/ Drop(i) PROVE JoinStep
  BY <1>2, <1>13, Zenon
  DEF OpenOk, OpenFail, DataSent, Drop, SessionStep, SessionReport, DaemonIdle, pathVars
<1>14. ASSUME NEW e, Mobility(e) PROVE JoinStep
  BY <1>2, <1>14, Zenon DEF Mobility, sendVars
<1> QED
  BY <1>2, <1>4, <1>5, <1>6, <1>7, <1>8, <1>9, <1>10, <1>11, <1>12, <1>13, <1>14, Zenon
  DEF Next, DaemonNext, EnvNext, PathTimer, vars

LEMMA JoinedInv ==
  ASSUME Typed, Joined, JoinStep
  PROVE  Joined'
<1>1. PathType /\ task \in Tasks /\ joinedAId \in AP \cup {None} /\ None \notin AP
      /\ AP \subseteq Task
  BY Names DEF Typed, PathType, Task
<1>2. path <= NumStops => path \in Stop /\ None \notin StopTasks[path]
  BY <1>1, PathFacts, Names DEF PathType, Stop, Task
<1>3. ASSUME NEW tk, PointsKept(tk), WalkWith(tk, joinedAId), sending' = 0 \/ sending' = sending
      PROVE  Joined'
  <2>1. CASE path' = path /\ joinedAId' = joinedAId
    BY <1>1, <1>3, <2>1 DEF Joined, First, WalkWith, PointsKept
  <2>2. CASE path <= NumStops /\ path' = path + 1 /\ joinedAId' = Forget(joinedAId)
             /\ \A x \in StopTasks[path] : tk[path][x] # "WAIT"
    <3>1. CASE joinedAId \in StopTasks[path]
      <4>1. joinedAId \in AP /\ joinedAId' = None
        BY <1>1, <1>2, <2>2, <3>1 DEF Forget
      <4>2. First(joinedAId, path, path) /\ task[path][joinedAId] # "WAIT"
        BY <1>1, <1>2, <1>3, <2>2, <3>1, <4>1, FirstIsHead DEF PointsKept
      <4>3. sending = 0
        BY <1>2, <2>2, <4>1, <4>2 DEF Joined
      <4> QED
        BY <1>1, <1>3, <4>1, <4>3 DEF Joined
    <3>2. CASE joinedAId \notin StopTasks[path]
      <4>1. joinedAId' = joinedAId
        BY <2>2, <3>2 DEF Forget
      <4>2. ASSUME joinedAId \in AP, NEW i \in Stop, First(joinedAId, i, path')
            PROVE  task'[i][joinedAId] = "WAIT"
        <5>1. First(joinedAId, i, path) /\ i # path
          BY <1>1, <2>2, <3>2, <4>2, FirstWas DEF First
        <5> QED
          BY <1>3, <4>2, <5>1 DEF Joined, WalkWith, PointsKept
      <4>3. joinedAId = None => sending' = 0
        BY <1>3 DEF Joined
      <4> QED
        BY <4>1, <4>2, <4>3 DEF Joined, First
    <3> QED
      BY <3>1, <3>2
  <2> QED
    BY <1>3, <2>1, <2>2 DEF WalkWith
<1>4. ASSUME NEW a \in AP, joinedAId' = a, task' = Mark(a, "WAIT", task), path' = path
      PROVE  Joined'
  <2>1. \A i \in Stop : First(a, i, path) => task'[i][a] = "WAIT"
    BY <1>1, <1>4, MarkSame
  <2> QED
    BY <1>1, <1>4, <2>1 DEF Joined, First
<1>5. CASE path > NumStops /\ path' = path /\ (joinedAId' \in AP \/ sending' = 0)
  <2>1. \A i : ~First(joinedAId', i, path')
    BY <1>1, <1>5, PathFacts DEF First, PathType
  <2> QED
    BY <1>1, <1>5, <2>1 DEF Joined, First
<1>6. ASSUME path <= NumStops, sending' = 0, NEW a \in AP, NEW tk \in Tasks,
             WalkWith(Mark(a, IF a \in StopTasks[path] THEN "COMP" ELSE "WAIT", tk), a)
      PROVE  Joined'
  <2> DEFINE status == IF a \in StopTasks[path] THEN "COMP" ELSE "WAIT"
  <2>1. \A i \in Stop : First(a, i, path) => task'[i][a] = status
    BY <1>1, <1>6, MarkSame DEF WalkWith
  <2>2. CASE path' = path /\ joinedAId' = a
    <3>1. ASSUME NEW i \in Stop, First(a, i, path)
          PROVE  task'[i][a] = "WAIT" \/ (i = path /\ task'[i][a] = "COMP")
      BY <1>1, <1>6, <2>1, <3>1, FirstIsHead
    <3> QED
      BY <1>1, <1>6, <2>2, <3>1 DEF Joined, First
  <2>3. CASE path' = path + 1 /\ joinedAId' = Forget(a)
    <3>1. CASE a \in StopTasks[path]
      BY <1>1, <1>6, <2>3, <3>1 DEF Joined, Forget
    <3>2. CASE a \notin StopTasks[path]
      <4>1. joinedAId' = a /\ status = "WAIT"
        BY <2>3, <3>2 DEF Forget
      <4>2. ASSUME NEW i \in Stop, First(a, i, path') PROVE task'[i][a] = "WAIT"
        BY <1>1, <2>1, <2>3, <3>2, <4>1, <4>2, FirstWas
      <4> QED
        BY <1>1, <1>6, <4>1, <4>2 DEF Joined, First
    <3> QED
      BY <3>1, <3>2
  <2> QED
    BY <1>6, <2>2, <2>3 DEF WalkWith
<1>7. ASSUME UNCHANGED <<path, task, joinedAId>>, joinedAId \in AP, path <= NumStops,
             ~Completed(task, FALSE), StopTasks[path] \cap AP # {}
      PROVE  Joined'
  <2>1. ASSUME NEW i \in Stop, First(joinedAId, i, path) PROVE task[i][joinedAId] = "WAIT"
    <3>1. CASE i = path /\ task[i][joinedAId] = "COMP"
      <4>1. StopTasks[path] = {joinedAId}
        BY <1>2, <1>7, <2>1, <3>1, PathAssumption DEF PathAssumption, First
      <4> QED
        BY <1>7, <3>1, <4>1 DEF Completed
    <3> QED
      BY <1>7, <2>1, <3>1 DEF Joined
  <2> QED
    BY <1>1, <1>7, <2>1 DEF Joined, First
<1> QED
  BY <1>3, <1>4, <1>5, <1>6, <1>7, Zenon DEF JoinStep

\* The access point is never forgotten while something is sent through it, so a
\* failure that comes late still finds the access point to retry or to finish with.
THEOREM NoTransferUnjoinedAlways == Spec => []NoTransferUnjoined
<1>1. Init => Joined
  BY Names DEF Init, Joined
<1>2. Typed /\ OneTransfer /\ Joined /\ [Next]_vars => Joined'
  BY NextJoins, JoinedInv
<1>3. Spec => []Typed
  BY InitType, NextType, PTL DEF Spec
<1>4. Joined => NoTransferUnjoined
  BY DEF Joined, NoTransferUnjoined
<1> QED
  BY <1>1, <1>2, <1>3, <1>4, OneTransferAlways, PTL DEF Spec

(***************************************************************************)
(* The daemon stays awake.                                                 *)
(***************************************************************************)

\* A path timer is pending or will be.
Driven == initDue \/ due > 0 \/ legs # EmptyBag

\* At a stop, something will end the wait.
Kept == /\ path <= NumStops
        /\ \/ \E m \in DOMAIN timeouts : m[1] = timeoutId
           \/ sending > 0
           \/ \E x \in StopTasks[path] : task[path][x] = "WAIT"

\* The vehicle moves only on the road, now and at every event inserted.
Standing == /\ pos # Road => ~moving
            /\ \A e \in DOMAIN legs : e[1] # Road => ~e[2]

LEMMA AwakeParts ==
  Awake <=> (run = "on" => Driven \/ (pos # Road /\ Kept) \/ (path > NumStops /\ term > 0))
BY DEF Awake, Driven, Kept

LEMMA PostNotEmpty ==
  ASSUME NEW bag, IsABag(bag), NEW m
  PROVE  Post(bag, m) # EmptyBag
<1>1. m \in DOMAIN Post(bag, m)
  BY PostDomain
<1>2. DOMAIN EmptyBag = {}
  BY DEF EmptyBag, SetToBag
<1> QED
  BY <1>1, <1>2

\* Only the message that is handled is gone.
LEMMA ConsumeOne ==
  ASSUME NEW bag, IsABag(bag), NEW m, NEW k \in DOMAIN bag, k # m
  PROVE  k \in DOMAIN Consume(bag, m)
BY DEF IsABag, Consume, SetToBag, (-)

LEMMA NextStanding ==
  ASSUME Typed, Standing, [Next]_vars
  PROVE  Standing'
<1>1. IsABag(legs)
  BY DEF Typed, MobileType
<1>2. CASE UNCHANGED <<pos, moving, legs>>
  BY <1>2, Zenon DEF Standing
<1>3. ASSUME NEW loc, NEW mv, loc # Road => ~mv,
             legs' = Post(legs, <<loc, mv>>), UNCHANGED <<pos, moving>>
      PROVE  Standing'
  <2>1. DOMAIN legs' = DOMAIN legs \cup {<<loc, mv>>}
    BY <1>3, PostDomain
  <2> QED
    BY <1>3, <2>1 DEF Standing
<1>4. ASSUME NEW e \in DOMAIN legs, Mobility(e) PROVE Standing'
  <2>1. DOMAIN legs' \subseteq DOMAIN legs /\ pos' = e[1] /\ moving' = e[2]
    BY <1>1, <1>4, ConsumeType DEF Mobility
  <2> QED
    BY <1>4, <2>1 DEF Standing
<1>5. CASE Stay
  <2>1. legs' = Post(legs, <<pos, FALSE>>) /\ UNCHANGED <<pos, moving>>
    BY <1>5, Zenon DEF Stay, TakePathTimer
  <2> QED
    BY <1>3, <2>1
<1>6. ASSUME NEW init, MoveOn(init) PROVE Standing'
  <2>1. legs' = Post(legs, <<Road, TRUE>>) /\ UNCHANGED <<pos, moving>>
    BY <1>6, Zenon DEF MoveOn, Move, TakePathTimer
  <2> QED
    BY <1>3, <2>1
<1>7. ASSUME NEW init, MoveLast(init) PROVE Standing'
  <2>1. legs' = Post(legs, <<StopLoc[path], FALSE>>) /\ UNCHANGED <<pos, moving>>
    BY <1>7, Zenon DEF MoveLast, Move, TakePathTimer
  <2> QED
    BY <1>3, <2>1
<1>8. ASSUME NEW i, Delivered(i) \/ ConnectionFailed(i) PROVE Standing'
  BY <1>2, <1>8, Zenon DEF Delivered, ConnectionFailed, mobileVars
<1>9. ASSUME NEW a, JoinCompleted(a) \/ HeaderReceived(a) \/ ChunkReceived(a) \/ PathStopTimeout(a)
      PROVE  Standing'
  BY <1>2, <1>9, Zenon DEF JoinCompleted, HeaderReceived, ChunkReceived, PathStopTimeout, mobileVars
<1>10. CASE Arrive
  <2>1. UNCHANGED <<pos, moving, legs>>
    BY <1>10, Zenon DEF Arrive, TakePathTimer
  <2> QED
    BY <1>2, <2>1
<1>11. ASSUME NEW init, PathEnd(init) PROVE Standing'
  BY <1>2, <1>11, Zenon DEF PathEnd, TakePathTimer
<1>12. CASE PassThrough \/ TerminationTimer
  BY <1>2, <1>12, Zenon DEF PassThrough, TerminationTimer, TakePathTimer, mobileVars
<1>13. ASSUME NEW c, RxHeader(c) \/ RxWhole(c) \/ RxBreak(c) PROVE Standing'
  BY <1>2, <1>13, Zenon DEF RxHeader, RxWhole, RxBreak, RxStep, DaemonIdle, mobileVars
<1>14. ASSUME NEW i, OpenOk(i) \/ OpenFail(i) \/ DataSent(i) \/ Drop(i) PROVE Standing'
  BY <1>2, <1>14, Zenon
  DEF OpenOk, OpenFail, DataSent, Drop, SessionStep, SessionReport, DaemonIdle, mobileVars
<1> QED
  BY <1>2, <1>4, <1>5, <1>6, <1>7, <1>8, <1>9, <1>10, <1>11, <1>12, <1>13, <1>14, Zenon
  DEF Next, DaemonNext, EnvNext, PathTimer, vars

\* A handler ends with one more path timer, or at the same stop with the wait kept.
Settles(du) == \/ due' = du + 1 /\ path' >= path
               \/ due' = du /\ path' = path /\ Kept'

\* Leaving the stop or waiting on, with a timeout that is alive.
LEMMA CheckStopSettles ==
  ASSUME Typed, path <= NumStops, NEW timedOut, NEW j, NEW tk, NEW tid, NEW du,
         ~moving, CheckStop(timedOut, j, tk, tid, du),
         \E m \in DOMAIN timeouts' : m[1] = tid
  PROVE  Settles(du)
<1>1. path \in Int
  BY PathFacts DEF Typed, PathType
<1>2. CASE path' = path + 1 /\ due' = du + 1
  BY <1>1, <1>2 DEF Settles
<1>3. CASE path' = path /\ due' = du /\ timeoutId' = tid
  BY <1>3 DEF Settles, Kept
<1> QED
  BY <1>2, <1>3, Zenon DEF CheckStop

LEMMA CompAtASettles ==
  ASSUME Typed, ~moving, run' = "on", NEW j, NEW tk, NEW dy, NEW du, CompAtA(j, tk, dy, du)
  PROVE  path <= NumStops /\ Settles(du)
<1>1. PICK t :
        /\ path <= NumStops
        /\ timeouts' = Post(timeouts, <<Bump(timeoutId), path>>)
        /\ CheckStop(FALSE, j, t, Bump(timeoutId), du)
  BY Zenon DEF CompAtA
<1>2. <<Bump(timeoutId), path>> \in DOMAIN timeouts'
  BY <1>1, PostDomain
<1>3. \E m \in DOMAIN timeouts' : m[1] = Bump(timeoutId)
  BY <1>2
<1> QED
  BY <1>1, <1>3, CheckStopSettles

LEMMA SendNextSettles ==
  ASSUME Typed, ~moving, run' = "on", path <= NumStops,
         NEW j, NEW tk, NEW dy, NEW snd \in Nat, NEW du,
         SendNext(j, tk, dy, snd, du)
  PROVE  Settles(du)
<1>1. CASE \E c : StartClient(c, snd) /\ due' = du /\ UNCHANGED path
  <2>1. sending' > 0 /\ due' = du /\ path' = path
    BY <1>1 DEF StartClient
  <2> QED
    BY <2>1 DEF Settles, Kept
<1>2. CASE CompAtA(j, tk, dy, du)
  BY <1>2, CompAtASettles
<1> QED
  BY <1>1, <1>2, Zenon DEF SendNext

\* One path timer is posted at most.
MorePosted(du) == due' \in {du, du + 1}

LEMMA CompAtAPosts ==
  ASSUME NEW j, NEW tk, NEW dy, NEW du, CompAtA(j, tk, dy, du)
  PROVE  MorePosted(du)
BY Zenon DEF CompAtA, CheckStop, MorePosted

LEMMA SendNextPosts ==
  ASSUME NEW j, NEW tk, NEW dy, NEW snd, NEW du, SendNext(j, tk, dy, snd, du)
  PROVE  MorePosted(du)
<1>1. CASE due' = du
  BY <1>1 DEF MorePosted
<1>2. CASE CompAtA(j, tk, dy, du)
  BY <1>2, CompAtAPosts
<1> QED
  BY <1>1, <1>2, Zenon DEF SendNext

\* A handler that takes no path timer.
LEMMA HandlerAwake ==
  ASSUME Typed, Awake, run = "on", TimeoutStep, UNCHANGED <<mobileVars, term>>,
         MorePosted(due),
         run' = "on" /\ pos # Road /\ Kept => Settles(due)
  PROVE  Awake'
<1>1. due \in Nat /\ path \in Int
  BY PathFacts DEF Typed, PathType
<1>2. path' >= path /\ path' \in Int
  BY <1>1 DEF TimeoutStep, StayOrLeave
<1>3. initDue' = initDue /\ legs' = legs /\ pos' = pos /\ term' = term
  BY Zenon DEF mobileVars
<1>4. SUFFICES ASSUME run' = "on"
               PROVE  Driven' \/ (pos' # Road /\ Kept') \/ (path' > NumStops /\ term' > 0)
  BY DEF Awake, Driven, Kept
<1>5. CASE Driven
  BY <1>1, <1>3, <1>5 DEF Driven, MorePosted
<1>6. CASE path > NumStops /\ term > 0
  BY <1>1, <1>2, <1>3, <1>6, PathFacts
<1>7. CASE pos # Road /\ Kept
  <2>1. Settles(due)
    BY <1>4, <1>7
  <2>2. CASE due' = due + 1
    BY <1>1, <2>2 DEF Driven
  <2>3. CASE Kept'
    BY <1>3, <1>7, <2>3
  <2> QED
    BY <2>1, <2>2, <2>3 DEF Settles
<1> QED
  BY <1>5, <1>6, <1>7, AwakeParts

\* A step that leaves the stop, the timeouts and the waits alone.
LEMMA SameStop ==
  ASSUME UNCHANGED <<path, timeoutId, due, timeouts, sending>>, Kept,
         \A x \in StopTasks[path] : task[path][x] = "WAIT" => task'[path][x] = "WAIT"
  PROVE  Settles(due)
BY DEF Kept, Settles

\* To be told that a task is awaited takes no wait away.
LEMMA MarkWaits ==
  ASSUME Typed, path <= NumStops, NEW y
  PROVE  \A x \in StopTasks[path] :
           task[path][x] = "WAIT" => Mark(y, "WAIT", task)[path][x] = "WAIT"
<1>1. path \in Stop /\ task \in Tasks
  BY PathFacts DEF Typed, PathType, Stop
<1> QED
  BY <1>1, PathFacts DEF Mark, Tasks, Stop

LEMMA DeliveredAwake ==
  ASSUME Typed, OneTransfer, Standing, Awake, run = "on", TimeoutStep,
         NEW i \in Item, Delivered(i)
  PROVE  Awake'
<1>1. UNCHANGED <<mobileVars, term>>
  BY Zenon DEF Delivered
<1>2. PICK dy : \/ CompAtA(joinedAId, task, dy, due)
                \/ SendNext(joinedAId, task, dy, sending - 1, due)
  BY Zenon DEF Delivered
<1>3. MorePosted(due)
  BY <1>2, CompAtAPosts, SendNextPosts
<1>4. sending = 1
  <2>1. <<i, "delivered">> \in Report /\ report[<<i, "delivered">>] > 0
    BY DEF Delivered, Report
  <2> QED
    BY <2>1, ReportOfTheOne
<1>5. ASSUME run' = "on", pos # Road, Kept PROVE Settles(due)
  <2>1. ~moving /\ path <= NumStops
    BY <1>5 DEF Standing, Kept
  <2>2. sending - 1 \in Nat
    BY <1>4
  <2> QED
    BY <1>2, <1>5, <2>1, <2>2, CompAtASettles, SendNextSettles
<1> QED
  BY <1>1, <1>3, <1>5, HandlerAwake

LEMMA ConnectionFailedAwake ==
  ASSUME Typed, OneTransfer, NoTransferUnjoined, Standing, Awake, run = "on", TimeoutStep,
         NEW i \in Item, ConnectionFailed(i)
  PROVE  Awake'
<1>1. UNCHANGED <<mobileVars, term>>
  BY Zenon DEF ConnectionFailed
<1>2. sending = 1
  <2>1. <<i, "failed">> \in Report /\ report[<<i, "failed">>] > 0
    BY DEF ConnectionFailed, Report
  <2> QED
    BY <2>1, ReportOfTheOne
<1>3. joinedAId # None
  BY <1>2 DEF NoTransferUnjoined
<1>4. \/ \E dy : CompAtA(joinedAId, task, dy, due)
      \/ \E dy : SendNext(joinedAId, task, dy, sending - 1, due)
      \/ StartClient(Probe, sending - 1) /\ UNCHANGED <<pathVars, timeouts>>
  BY <1>3, Zenon DEF ConnectionFailed
<1>5. CASE \E dy : CompAtA(joinedAId, task, dy, due)
  <2>1. MorePosted(due)
    BY <1>5, CompAtAPosts
  <2>2. ASSUME run' = "on", pos # Road, Kept PROVE Settles(due)
    BY <1>5, <2>2, CompAtASettles DEF Standing
  <2> QED
    BY <1>1, <2>1, <2>2, HandlerAwake
<1>6. CASE \E dy : SendNext(joinedAId, task, dy, sending - 1, due)
  <2>1. MorePosted(due)
    BY <1>6, SendNextPosts
  <2>2. ASSUME run' = "on", pos # Road, Kept PROVE Settles(due)
    <3>1. ~moving /\ path <= NumStops /\ sending - 1 \in Nat
      BY <1>2, <2>2 DEF Standing, Kept
    <3> QED
      BY <1>6, <2>2, <3>1, SendNextSettles
  <2> QED
    BY <1>1, <2>1, <2>2, HandlerAwake
<1>7. CASE StartClient(Probe, sending - 1) /\ UNCHANGED <<pathVars, timeouts>>
  <2>1. UNCHANGED <<path, task, timeoutId, due>> /\ UNCHANGED timeouts
    BY <1>7, Zenon DEF pathVars
  <2>2. sending' = sending
    BY <1>2, <1>7 DEF StartClient
  <2>3. MorePosted(due)
    BY <2>1 DEF MorePosted
  <2>4. ASSUME Kept PROVE Settles(due)
    BY <2>1, <2>2, <2>4, SameStop
  <2> QED
    BY <1>1, <2>3, <2>4, HandlerAwake
<1> QED
  BY <1>4, <1>5, <1>6, <1>7

LEMMA JoinCompletedAwake ==
  ASSUME Typed, OneTransfer, Standing, Awake, run = "on", TimeoutStep,
         NEW a \in AP, JoinCompleted(a)
  PROVE  Awake'
<1>1. UNCHANGED <<mobileVars, term>>
  BY Zenon DEF JoinCompleted
<1>2. sending \in Nat
  BY DEF OneTransfer
<1> DEFINE tk == Mark(a, "WAIT", task)
<1>3. \/ path > NumStops /\ run' = "JoinCompleted" /\ due' = due
      \/ /\ path <= NumStops /\ Busy /\ task' = tk
         /\ UNCHANGED <<path, timeoutId, due, sendVars, timeouts>>
      \/ /\ path <= NumStops /\ StartClient(Probe, sending)
         /\ UNCHANGED <<path, due>>
      \/ path <= NumStops /\ SendNext(a, tk, dirty, sending, due)
  BY Zenon DEF JoinCompleted
<1>4. CASE path > NumStops /\ run' = "JoinCompleted" /\ due' = due
  <2>1. MorePosted(due) /\ run' # "on"
    BY <1>4 DEF MorePosted
  <2> QED
    BY <1>1, <2>1, HandlerAwake
<1>5. CASE /\ path <= NumStops /\ Busy /\ task' = tk
           /\ UNCHANGED <<path, timeoutId, due, sendVars, timeouts>>
  <2>1. MorePosted(due) /\ UNCHANGED <<path, timeoutId, due, timeouts, sending>>
    BY <1>5 DEF MorePosted, sendVars
  <2>2. ASSUME Kept PROVE Settles(due)
    BY <1>5, <2>1, <2>2, MarkWaits, SameStop
  <2> QED
    BY <1>1, <2>1, <2>2, HandlerAwake
<1>6. CASE /\ path <= NumStops /\ StartClient(Probe, sending)
           /\ UNCHANGED <<path, due>>
  <2>1. MorePosted(due) /\ Settles(due)
    BY <1>2, <1>6 DEF MorePosted, StartClient, Settles, Kept
  <2> QED
    BY <1>1, <2>1, HandlerAwake
<1>7. CASE path <= NumStops /\ SendNext(a, tk, dirty, sending, due)
  <2>1. MorePosted(due)
    BY <1>7, SendNextPosts
  <2>2. ASSUME run' = "on", pos # Road PROVE Settles(due)
    BY <1>2, <1>7, <2>2, SendNextSettles DEF Standing
  <2> QED
    BY <1>1, <2>1, <2>2, HandlerAwake
<1> QED
  BY <1>3, <1>4, <1>5, <1>6, <1>7

LEMMA HeaderReceivedAwake ==
  ASSUME Typed, Awake, run = "on", TimeoutStep, NEW c, HeaderReceived(c)
  PROVE  Awake'
<1>1. /\ UNCHANGED <<mobileVars, term>> /\ task' = Mark(c, "WAIT", task)
      /\ UNCHANGED <<path, timeoutId, due, timeouts, sending>>
  BY Zenon DEF HeaderReceived, sendVars
<1>2. MorePosted(due)
  BY <1>1 DEF MorePosted
<1>3. ASSUME Kept PROVE Settles(due)
  <2>1. path <= NumStops
    BY <1>3 DEF Kept
  <2> QED
    BY <1>1, <1>3, <2>1, MarkWaits, SameStop
<1> QED
  BY <1>1, <1>2, <1>3, HandlerAwake

LEMMA ChunkReceivedAwake ==
  ASSUME Typed, Standing, Awake, run = "on", TimeoutStep, NEW c, ChunkReceived(c)
  PROVE  Awake'
<1>1. UNCHANGED <<mobileVars, term>> /\ UNCHANGED sending
  BY Zenon DEF ChunkReceived, sendVars
<1>2. \/ UNCHANGED <<pathVars, timeouts>>
      \/ /\ timeouts' = Post(timeouts, <<Bump(timeoutId), path>>)
         /\ \/ CheckStop(FALSE, joinedAId, Mark(c, "COMP", task), Bump(timeoutId), due)
            \/ timeoutId' = Bump(timeoutId) /\ UNCHANGED <<path, due>>
  BY Zenon DEF ChunkReceived
<1>3. CASE UNCHANGED <<pathVars, timeouts>>
  <2>1. UNCHANGED <<path, task, timeoutId, due>> /\ UNCHANGED timeouts
    BY <1>3, Zenon DEF pathVars
  <2>2. MorePosted(due)
    BY <2>1 DEF MorePosted
  <2>3. ASSUME Kept PROVE Settles(due)
    BY <1>1, <2>1, <2>3, SameStop
  <2> QED
    BY <1>1, <2>2, <2>3, HandlerAwake
<1>4. CASE timeouts' = Post(timeouts, <<Bump(timeoutId), path>>)
  <2>1. <<Bump(timeoutId), path>> \in DOMAIN timeouts'
    BY <1>4, PostDomain
  <2>2. \E m \in DOMAIN timeouts' : m[1] = Bump(timeoutId)
    BY <2>1
  <2>3. CASE CheckStop(FALSE, joinedAId, Mark(c, "COMP", task), Bump(timeoutId), due)
    <3>1. MorePosted(due)
      BY <2>3, Zenon DEF CheckStop, MorePosted
    <3>2. ASSUME pos # Road, Kept PROVE Settles(due)
      <4>1. ~moving /\ path <= NumStops
        BY <3>2 DEF Standing, Kept
      <4> QED
        BY <2>2, <2>3, <4>1, CheckStopSettles
    <3> QED
      BY <1>1, <3>1, <3>2, HandlerAwake
  <2>4. CASE timeoutId' = Bump(timeoutId) /\ UNCHANGED <<path, due>>
    <3>1. MorePosted(due)
      BY <2>4 DEF MorePosted
    <3>2. ASSUME Kept PROVE Settles(due)
      BY <2>2, <2>4, <3>2 DEF Kept, Settles
    <3> QED
      BY <1>1, <3>1, <3>2, HandlerAwake
  <2>5. UNCHANGED <<pathVars, timeouts>> => Awake'
    BY <1>3
  <2> QED
    BY <1>2, <2>3, <2>4, <2>5
<1> QED
  BY <1>2, <1>3, <1>4

LEMMA PathStopTimeoutAwake ==
  ASSUME Typed, Standing, Awake, run = "on", TimeoutStep,
         NEW m \in DOMAIN timeouts, PathStopTimeout(m)
  PROVE  Awake'
<1>1. UNCHANGED <<mobileVars, term>> /\ UNCHANGED sending
      /\ timeouts' = Consume(timeouts, m)
  BY Zenon DEF PathStopTimeout, sendVars
<1>2. \/ m[1] # timeoutId /\ UNCHANGED pathVars
      \/ run' = "CheckStop" /\ UNCHANGED pathVars
      \/ path <= NumStops /\ CheckStop(TRUE, joinedAId, task, timeoutId, due)
  BY Zenon DEF PathStopTimeout
<1>3. path \in Int
  BY PathFacts DEF Typed, PathType
<1>4. CASE UNCHANGED pathVars /\ (run' = "on" => m[1] # timeoutId)
  <2>1. UNCHANGED <<path, task, timeoutId, due>>
    BY <1>4, Zenon DEF pathVars
  <2>2. MorePosted(due)
    BY <2>1 DEF MorePosted
  <2>3. ASSUME run' = "on", Kept PROVE Settles(due)
    <3>1. ASSUME NEW k \in DOMAIN timeouts, k[1] = timeoutId
          PROVE  k \in DOMAIN timeouts'
      BY <1>1, <1>4, <2>3, <3>1, ConsumeOne DEF Typed, TimeoutType
    <3> QED
      BY <1>1, <2>1, <2>3, <3>1 DEF Kept, Settles
  <2> QED
    BY <1>1, <2>2, <2>3, HandlerAwake
<1>5. CASE path <= NumStops /\ CheckStop(TRUE, joinedAId, task, timeoutId, due)
  <2>1. MorePosted(due)
    BY <1>5, Zenon DEF CheckStop, MorePosted
  <2>2. ASSUME pos # Road PROVE Settles(due)
    <3>1. ~moving
      BY <2>2 DEF Standing
    <3>2. CASE Completed(task, TRUE)
      <4>1. path' = path + 1 /\ due' = due + 1
        BY <1>5, <3>1, <3>2, Zenon DEF CheckStop
      <4> QED
        BY <1>3, <4>1 DEF Settles
    <3>3. CASE ~Completed(task, TRUE)
      <4>1. path' = path /\ due' = due /\ task' = task
        BY <1>5, <3>3, Zenon DEF CheckStop
      <4>2. PICK x \in StopTasks[path] : task[path][x] \notin {"COMP", "INIT"}
        BY <3>3 DEF Completed
      <4>3. path \in Stop
        BY <1>5, PathFacts DEF Typed, PathType, Stop
      <4>4. task[path][x] \in Status
        BY <4>2, <4>3, PathFacts DEF Typed, PathType, Tasks
      <4>5. task[path][x] = "WAIT"
        BY <4>2, <4>4 DEF Status
      <4> QED
        BY <1>5, <4>1, <4>2, <4>5 DEF Settles, Kept
    <3> QED
      BY <3>2, <3>3
  <2> QED
    BY <1>1, <2>1, <2>2, HandlerAwake
<1> QED
  BY <1>2, <1>4, <1>5

\* A step of the environment that the daemon does not see.
LEMMA IdleAwake ==
  ASSUME Typed, Awake, run = "on", TimeoutStep, DaemonIdle
  PROVE  Awake'
<1>1. /\ UNCHANGED <<mobileVars, term>>
      /\ UNCHANGED <<path, task, timeoutId, due, timeouts, sending>>
  BY Zenon DEF DaemonIdle, pathVars
<1>2. MorePosted(due)
  BY <1>1 DEF MorePosted
<1>3. ASSUME Kept PROVE Settles(due)
  BY <1>1, <1>3, SameStop
<1> QED
  BY <1>1, <1>2, <1>3, HandlerAwake

LEMMA PathEndAwake ==
  ASSUME Typed, NEW init, PathEnd(init)
  PROVE  Awake'
<1>1. path' > NumStops /\ term' = term + 1 /\ term \in Nat
  BY DEF PathEnd, Typed, MobileType
<1> QED
  BY <1>1 DEF Awake

\* An inserted event will come.
LEMMA LegAwake ==
  ASSUME Typed, NEW leg, legs' = Post(legs, leg)
  PROVE  Awake'
<1>1. legs' # EmptyBag
  BY PostNotEmpty DEF Typed, MobileType
<1> QED
  BY <1>1 DEF Awake

LEMMA ArriveAwake ==
  ASSUME Typed, OneTransfer, Standing, Arrive
  PROVE  Awake'
<1> SUFFICES ASSUME run' = "on" PROVE Awake'
  BY DEF Awake
<1>1. /\ due > 0 /\ path <= NumStops /\ pos = StopLoc[path]
      /\ UNCHANGED pos
  BY Zenon DEF Arrive, TakePathTimer, AtStop
<1>2. due \in Nat /\ path \in Stop
  BY <1>1, PathFacts DEF Typed, PathType, Stop
<1>3. pos # Road /\ ~moving /\ pos' # Road
  BY <1>1, <1>2, PathAssumption DEF PathAssumption, Standing
<1>4. ASSUME NEW du, du = due - 1, Settles(du) PROVE Awake'
  <2>1. CASE due' = du + 1
    BY <1>1, <1>2, <1>4, <2>1 DEF Awake
  <2>2. CASE Kept'
    BY <1>3, <2>2 DEF Awake, Kept
  <2> QED
    BY <1>4, <2>1, <2>2 DEF Settles
<1>0. PICK du : du = DueLeft(FALSE)
  BY Zenon
<1>5. du = due - 1
  BY <1>0, Zenon DEF DueLeft
<1>6. \/ Completed(task, FALSE) /\ CheckStop(FALSE, joinedAId, task, timeoutId, du)
      \/ sending < 1 /\ SendNext(joinedAId, task, dirty, sending, du)
      \/ AwaitTasks /\ UNCHANGED <<path, timeoutId>>
  BY <1>0, Zenon DEF Arrive
<1>7. CASE Completed(task, FALSE) /\ CheckStop(FALSE, joinedAId, task, timeoutId, du)
  <2>1. due' = du + 1
    BY <1>3, <1>7, Zenon DEF CheckStop
  <2>2. due' > 0
    BY <1>1, <1>2, <1>5, <2>1
  <2> QED
    BY <2>2 DEF Awake
<1>8. CASE sending < 1 /\ SendNext(joinedAId, task, dirty, sending, du)
  <2>1. sending \in Nat
    BY DEF OneTransfer
  <2>2. Settles(du)
    BY <1>1, <1>3, <1>8, <2>1, SendNextSettles
  <2> QED
    BY <1>4, <1>5, <2>2
<1>9. CASE AwaitTasks /\ UNCHANGED <<path, timeoutId>>
  <2>1. <<timeoutId, path>> \in DOMAIN timeouts'
    BY <1>9, PostDomain DEF AwaitTasks
  <2>2. Kept'
    BY <1>1, <1>9, <2>1 DEF Kept
  <2> QED
    BY <1>3, <2>2 DEF Awake, Kept
<1> QED
  BY <1>6, <1>7, <1>8, <1>9

LEMMA NextAwake ==
  ASSUME Typed, OneTransfer, NoTransferUnjoined, Standing, Awake, [Next]_vars
  PROVE  Awake'
<1>1. TimeoutStep
  BY NextTimeouts
<1>2. CASE UNCHANGED vars
  <2>1. /\ run' = run /\ initDue' = initDue /\ due' = due /\ legs' = legs /\ path' = path
        /\ pos' = pos /\ timeouts' = timeouts /\ timeoutId' = timeoutId
        /\ sending' = sending /\ task' = task /\ term' = term
    BY <1>2, Zenon DEF vars
  <2> QED
    BY <2>1 DEF Awake
<1>3. CASE Next
  <2>1. run = "on"
    BY <1>3 DEF Next
  <2>2. ASSUME NEW i \in Item, Delivered(i) \/ ConnectionFailed(i) PROVE Awake'
    BY <1>1, <2>1, <2>2, DeliveredAwake, ConnectionFailedAwake
  <2>3. ASSUME NEW c \in Chunk, HeaderReceived(c) \/ ChunkReceived(c) PROVE Awake'
    BY <1>1, <2>1, <2>3, HeaderReceivedAwake, ChunkReceivedAwake
  <2>4. ASSUME NEW m \in DOMAIN timeouts, PathStopTimeout(m) PROVE Awake'
    BY <1>1, <2>1, <2>4, PathStopTimeoutAwake
  <2>5. ASSUME NEW a \in AP, JoinCompleted(a) PROVE Awake'
    BY <1>1, <2>1, <2>5, JoinCompletedAwake
  <2>6. ASSUME NEW init, PathEnd(init) \/ MoveOn(init) \/ MoveLast(init) PROVE Awake'
    <3>1. CASE PathEnd(init)
      BY <3>1, PathEndAwake
    <3>2. CASE \E leg : legs' = Post(legs, leg)
      BY <3>2, LegAwake
    <3> QED
      BY <2>6, <3>1, <3>2, Zenon DEF MoveOn, MoveLast, Move
  <2>7. CASE Stay
    <3>1. \E leg : legs' = Post(legs, leg)
      BY <2>7, Zenon DEF Stay
    <3> QED
      BY <3>1, LegAwake
  <2>8. CASE PassThrough
    <3>1. due > 0 /\ due' = due - 1 + 1 /\ due \in Nat
      BY <2>8 DEF PassThrough, TakePathTimer, DueLeft, Typed, PathType
    <3> QED
      BY <3>1 DEF Awake
  <2>9. CASE Arrive
    BY <2>9, ArriveAwake
  <2>10. CASE TerminationTimer
    BY <2>10 DEF TerminationTimer, Awake
  <2>11. ASSUME NEW e, Mobility(e) PROVE Awake'
    <3>1. due' = due + 1 /\ due \in Nat
      BY <2>11 DEF Mobility, Typed, PathType
    <3> QED
      BY <3>1 DEF Awake
  <2>12. ASSUME NEW c, RxHeader(c) \/ RxWhole(c) \/ RxBreak(c) PROVE Awake'
    <3>1. DaemonIdle
      BY <2>12, Zenon DEF RxHeader, RxWhole, RxBreak, RxStep
    <3> QED
      BY <1>1, <2>1, <3>1, IdleAwake
  <2>13. ASSUME NEW i, OpenOk(i) \/ OpenFail(i) \/ DataSent(i) \/ Drop(i) PROVE Awake'
    <3>1. DaemonIdle
      BY <2>13, Zenon DEF OpenOk, OpenFail, DataSent, Drop, SessionStep, SessionReport
    <3> QED
      BY <1>1, <2>1, <3>1, IdleAwake
  <2>14. CASE DaemonNext
    <3>1. PathTimer => Awake'
      BY <2>6, <2>7, <2>8, <2>9, Zenon DEF PathTimer
    <3> QED
      BY <2>2, <2>3, <2>4, <2>10, <2>14, <3>1, Zenon DEF DaemonNext
  <2>15. CASE EnvNext
    BY <2>5, <2>11, <2>12, <2>13, <2>15, Zenon DEF EnvNext
  <2> QED
    BY <1>3, <2>14, <2>15, Zenon DEF Next
<1> QED
  BY <1>2, <1>3

\* The daemon never falls asleep over a task that has not begun: in every reachable state
\* a timer, a transfer or a task it has marked WAIT will move it on, however timeouts,
\* joins, failures and arrivals interleave.
THEOREM AwakeAlways == Spec => []Awake
<1>1. Init => Standing /\ Awake
  <2>1. DOMAIN EmptyBag = {}
    BY DEF EmptyBag, SetToBag
  <2> QED
    BY <2>1 DEF Init, Standing, Awake
<1>2. Typed /\ Standing /\ [Next]_vars => Standing'
  BY NextStanding
<1>3. Typed /\ OneTransfer /\ NoTransferUnjoined /\ Standing /\ Awake /\ [Next]_vars => Awake'
  BY NextAwake
<1>4. Spec => []Typed
  BY InitType, NextType, PTL DEF Spec
<1> QED
  BY <1>1, <1>2, <1>3, <1>4, OneTransferAlways, NoTransferUnjoinedAlways, PTL DEF Spec

-----------------------------------------------------------------------------
(***************************************************************************)
(* What the daemon's list says of the chunks is true (WorkBits), and the   *)
(* daemon implements the custody specification of UpCustody.               *)
(***************************************************************************)

(***************************************************************************)
(* Which item is in transfer.                                              *)
(***************************************************************************)

\* InTransfer, of given sessions s and reports r.
Sent(c, s, r) == \/ \E p \in {"opening", "open", "lost"} : s[<<c, p>>] > 0
                 \/ \E o \in {"delivered", "failed"} : r[<<c, o>>] > 0

\* Of all chunks only i is; none if i is the probe.
OnlySent(i, s, r) == \A c \in Chunk : Sent(c, s, r) <=> c = i

LEMMA SentIsInTransfer ==
  /\ \A c : InTransfer(c) <=> Sent(c, sess, report)
  /\ \A c : InTransfer(c)' <=> Sent(c, sess', report')
BY DEF InTransfer, Sent

LEMMA Pairs ==
  /\ \A i \in Item, p \in {"opening", "open", "lost"} : <<i, p>> \in Session
  /\ \A i \in Item, o \in {"delivered", "failed"} : <<i, o>> \in Report
  /\ Chunk \subseteq Item
BY DEF Session, Report, Item

LEMMA NothingSent == OnlySent(Probe, Nothing(Session), Nothing(Report))
BY Pairs, Names, NothingThere DEF OnlySent, Sent

LEMMA OnlyAt ==
  ASSUME NEW S, NEW u \in S, NEW v \in S
  PROVE  Only(S, u)[v] > 0 <=> v = u
BY DEF Only

LEMMA SessionSent ==
  ASSUME NEW i \in Item, NEW p \in {"opening", "open", "lost"}
  PROVE  OnlySent(i, Only(Session, <<i, p>>), Nothing(Report))
<1>1. ASSUME NEW c \in Chunk PROVE Sent(c, Only(Session, <<i, p>>), Nothing(Report)) <=> c = i
  <2>1. \A o \in {"delivered", "failed"} : ~(Nothing(Report)[<<c, o>>] > 0)
    BY Pairs, NothingThere
  <2>2. \A q \in {"opening", "open", "lost"} :
          Only(Session, <<i, p>>)[<<c, q>>] > 0 <=> <<c, q>> = <<i, p>>
    BY Pairs, OnlyAt
  <2> QED
    BY <2>1, <2>2 DEF Sent
<1> QED
  BY <1>1 DEF OnlySent

LEMMA ReportSent ==
  ASSUME NEW i \in Item, NEW o \in {"delivered", "failed"}
  PROVE  OnlySent(i, Nothing(Session), Only(Report, <<i, o>>))
<1>1. ASSUME NEW c \in Chunk PROVE Sent(c, Nothing(Session), Only(Report, <<i, o>>)) <=> c = i
  <2>1. \A q \in {"opening", "open", "lost"} : ~(Nothing(Session)[<<c, q>>] > 0)
    BY Pairs, NothingThere
  <2>2. \A q \in {"delivered", "failed"} :
          Only(Report, <<i, o>>)[<<c, q>>] > 0 <=> <<c, q>> = <<i, o>>
    BY Pairs, OnlyAt
  <2> QED
    BY <2>1, <2>2 DEF Sent
<1> QED
  BY <1>1 DEF OnlySent

\* The handler of a report finds nothing else under way, and has used it up.
LEMMA ReportUsed ==
  ASSUME OneTransfer, NEW i \in Item, NEW o \in {"delivered", "failed"},
         report[<<i, o>>] > 0, report' = [report EXCEPT ![<<i, o>>] = @ - 1]
  PROVE  /\ OnlySent(i, sess, report)
         /\ sess = Nothing(Session)
         /\ report' = Nothing(Report)
<1> DEFINE r == <<i, o>>
<1>1. r \in Report
  BY Pairs
<1>2. report[r] > 0 /\ report' = [report EXCEPT ![r] = @ - 1]
  OBVIOUS
<1> HIDE DEF r
<1>3. PICK q \in Report : report = Only(Report, q) /\ sess = Nothing(Session)
  BY <1>1, <1>2, NothingThere DEF OneTransfer
<1>4. r = q
  BY <1>1, <1>2, <1>3, OnlyThere
<1>5. report' = Nothing(Report)
  BY <1>2, <1>3, <1>4, OnlyMinusOne
<1> QED
  BY <1>3, <1>4, <1>5, ReportSent DEF r

(***************************************************************************)
(* What a step may do to the list of chunks.                               *)
(***************************************************************************)

\* The next transfer starts, given the bits dy.
Starts(dy) ==
  \E c \in dataChunks : /\ dy[c] = {}
                       /\ dirty' = SetBit(dy, c, "work")
                       /\ OnlySent(c, sess', report')

\* Nothing is sent for now; an assertion that fails leaves the work bits.
Rests(dy) ==
  /\ dirty' = ClearWork(dy) \/ (dirty' = dy /\ run' # "on")
  /\ OnlySent(Probe, sess', report')

SentAsBefore == \A c \in Chunk : Sent(c, sess', report') <=> Sent(c, sess, report)

ListStep ==
  \/ UNCHANGED <<dirty, dataChunks>> /\ SentAsBefore
  \/ \E c \in Chunk : /\ rx[c] = "whole"
                      /\ dataChunks' = dataChunks \cup {c}
                      /\ dirty' = [dirty EXCEPT ![c] = {}]
                      /\ SentAsBefore
  \/ /\ OnlySent(Probe, sess, report)
     /\ UNCHANGED dataChunks
     /\ Starts(dirty) \/ Rests(dirty)
  \/ \E c \in Chunk : /\ OnlySent(c, sess, report)
                      /\ UNCHANGED dataChunks
                      /\ \E dy \in {SetBit(dirty, c, "finish"), ClearBit(dirty, c, "work")} :
                           Starts(dy) \/ Rests(dy)
  \/ \E c \in Chunk : /\ OnlySent(c, sess, report)
                      /\ UNCHANGED dataChunks
                      /\ Rests(dirty)

LEMMA CompAtARests ==
  ASSUME sess' = Nothing(Session), report' = Nothing(Report),
         NEW j, NEW tk, NEW dy, NEW du, CompAtA(j, tk, dy, du)
  PROVE  Rests(dy)
<1>1. dirty' = ClearWork(dy) \/ (dirty' = dy /\ run' = "CompAtA")
  BY Zenon DEF CompAtA
<1> QED
  BY <1>1, NothingSent DEF Rests

LEMMA StartClientSends ==
  ASSUME sess = Nothing(Session), report' = Nothing(Report),
         NEW i \in Item, NEW snd, StartClient(i, snd)
  PROVE  OnlySent(i, sess', report')
<1>1. sess' = Only(Session, <<i, "opening">>)
  BY Pairs, NothingPlusOne DEF StartClient
<1> QED
  BY <1>1, SessionSent

LEMMA SendNextStartsOrRests ==
  ASSUME dataChunks \in SUBSET Chunk, sess = Nothing(Session), report' = Nothing(Report),
         NEW j, NEW tk, NEW dy, NEW snd, NEW du, SendNext(j, tk, dy, snd, du)
  PROVE  Starts(dy) \/ Rests(dy)
<1>1. PICK c \in GetNext(j, dy) :
        \/ /\ c # None
           /\ dirty' = SetBit(dy, c, "work")
           /\ StartClient(c, snd)
        \/ UNCHANGED sess /\ CompAtA(j, tk, dy, du)
  BY Zenon DEF SendNext
<1>2. CASE UNCHANGED sess /\ CompAtA(j, tk, dy, du)
  BY <1>2, CompAtARests
<1>3. CASE c # None /\ dirty' = SetBit(dy, c, "work") /\ StartClient(c, snd)
  <2>1. c \in dataChunks /\ dy[c] = {} /\ c \in Item
    BY <1>3, GetNextRange DEF Item
  <2>2. OnlySent(c, sess', report')
    BY <1>3, <2>1, StartClientSends
  <2> QED
    BY <1>3, <2>1, <2>2 DEF Starts
<1> QED
  BY <1>1, <1>2, <1>3

\* Nothing was under way: a join, or an arrival at a stop with an access point.
LEMMA IdleStarts ==
  ASSUME Typed, OneTransfer, ~(sending > 0), UNCHANGED <<report, dataChunks>>,
         NEW j, NEW tk, NEW du, SendNext(j, tk, dirty, sending, du)
  PROVE  ListStep
<1>1. sess = Nothing(Session) /\ report = Nothing(Report)
  BY DEF OneTransfer
<1>2. OnlySent(Probe, sess, report)
  BY <1>1, NothingSent
<1>3. Starts(dirty) \/ Rests(dirty)
  BY <1>1, SendNextStartsOrRests DEF Typed, RestType
<1> QED
  BY <1>2, <1>3 DEF ListStep

LEMMA DeliveredList ==
  ASSUME Typed, OneTransfer, \A c \in Chunk : Sent(c, sess, report) => c \in dataChunks,
         NEW i \in Item, Delivered(i)
  PROVE  ListStep
<1> DEFINE dy == IF i \in dataChunks THEN SetBit(dirty, i, "finish") ELSE dirty
<1>1. OnlySent(i, sess, report) /\ sess = Nothing(Session) /\ report' = Nothing(Report)
  BY ReportUsed, Zenon DEF Delivered
<1>2. dataChunks \in SUBSET Chunk /\ UNCHANGED dataChunks
  BY DEF Typed, RestType, Delivered
<1>3. Starts(dy) \/ Rests(dy)
  <2>1. CASE UNCHANGED sess /\ CompAtA(joinedAId, task, dy, due)
    BY <1>1, <2>1, CompAtARests
  <2>2. CASE SendNext(joinedAId, task, dy, sending - 1, due)
    BY <1>1, <1>2, <2>2, SendNextStartsOrRests
  <2> QED
    BY <2>1, <2>2, Zenon DEF Delivered
<1>4. CASE i \in Chunk
  <2>1. i \in dataChunks
    BY <1>1, <1>4 DEF OnlySent
  <2>2. dy = SetBit(dirty, i, "finish")
    BY <2>1
  <2> QED
    BY <1>1, <1>2, <1>3, <1>4, <2>2, Zenon DEF ListStep
<1>5. CASE i \notin Chunk
  <2>1. i = Probe /\ dy = dirty
    BY <1>2, <1>5 DEF Item
  <2> QED
    BY <1>1, <1>2, <1>3, <2>1, Zenon DEF ListStep
<1> QED
  BY <1>4, <1>5

LEMMA ConnectionFailedList ==
  ASSUME Typed, OneTransfer, Joined, NEW i \in Item, ConnectionFailed(i)
  PROVE  ListStep
<1>1. OnlySent(i, sess, report) /\ sess = Nothing(Session) /\ report' = Nothing(Report)
  BY ReportUsed, Zenon DEF ConnectionFailed
<1>2. dataChunks \in SUBSET Chunk /\ UNCHANGED dataChunks
  BY DEF Typed, RestType, ConnectionFailed
<1>3. joinedAId # None
  <2>1. <<i, "failed">> \in Report /\ report[<<i, "failed">>] > 0
    BY Pairs, Zenon DEF ConnectionFailed
  <2>2. sending = 1
    BY <2>1, ReportOfTheOne
  <2> QED
    BY <2>2 DEF Joined
<1>4. i \in Chunk \/ i = Probe
  BY DEF Item
<1>5. CASE i \in Chunk
           /\ SendNext(joinedAId, task, ClearBit(dirty, i, "work"), sending - 1, due)
  <2>1. Starts(ClearBit(dirty, i, "work")) \/ Rests(ClearBit(dirty, i, "work"))
    BY <1>1, <1>2, <1>5, SendNextStartsOrRests
  <2> QED
    BY <1>1, <1>2, <1>5, <2>1, Zenon DEF ListStep
<1>6. CASE i = Probe /\ StartClient(Probe, sending - 1) /\ UNCHANGED dirty
  <2>1. OnlySent(Probe, sess', report')
    BY <1>1, <1>6, StartClientSends DEF Item
  <2>2. SentAsBefore
    BY <1>1, <1>6, <2>1 DEF OnlySent, SentAsBefore
  <2> QED
    BY <1>2, <1>6, <2>2 DEF ListStep
<1>7. CASE UNCHANGED sess /\ CompAtA(joinedAId, task, dirty, due)
  <2>1. Rests(dirty)
    BY <1>1, <1>7, CompAtARests
  <2> QED
    BY <1>1, <1>2, <1>4, <2>1, Zenon DEF ListStep
<1> QED
  BY <1>3, <1>5, <1>6, <1>7, Zenon DEF ConnectionFailed

LEMMA SessionsList ==
  ASSUME OneTransfer, NEW i \in Item,
         OpenOk(i) \/ OpenFail(i) \/ DataSent(i) \/ Drop(i)
  PROVE  ListStep
<1>1. UNCHANGED <<dirty, dataChunks>>
  BY Zenon DEF OpenOk, OpenFail, DataSent, Drop, SessionStep, SessionReport, DaemonIdle, chunkVars
<1>2. ASSUME NEW p \in {"opening", "open", "lost"}, sess[<<i, p>>] > 0
      PROVE  sess = Only(Session, <<i, p>>) /\ report = Nothing(Report)
  <2> DEFINE u == <<i, p>>
  <2>1. u \in Session /\ sess[u] > 0
    BY <1>2, Pairs
  <2> HIDE DEF u
  <2>2. PICK q \in Session : sess = Only(Session, q) /\ report = Nothing(Report)
    BY <2>1, NothingThere DEF OneTransfer
  <2>3. u = q
    BY <2>1, <2>2, OnlyThere
  <2> QED
    BY <2>2, <2>3 DEF u
<1>3. ASSUME NEW from \in {"opening", "open", "lost"}, NEW to \in {"opening", "open", "lost"},
             from # to, SessionStep(i, from, to)
      PROVE  SentAsBefore
  <2>1. sess = Only(Session, <<i, from>>) /\ report = Nothing(Report)
    BY <1>2, <1>3, Zenon DEF SessionStep
  <2>2. sess' = Only(Session, <<i, to>>) /\ report' = Nothing(Report)
    <3>1. <<i, from>> # <<i, to>>
      BY <1>3
    <3> QED
      BY <1>3, <2>1, <3>1, Pairs, OnlyMoves, Zenon DEF SessionStep
  <2> QED
    BY <2>1, <2>2, SessionSent DEF SentAsBefore, OnlySent
<1>4. ASSUME NEW from \in {"opening", "open", "lost"}, NEW as \in {"delivered", "failed"},
             SessionReport(i, from, as)
      PROVE  SentAsBefore
  <2>1. sess = Only(Session, <<i, from>>) /\ report = Nothing(Report)
    BY <1>2, <1>4, Zenon DEF SessionReport
  <2>2. sess' = Nothing(Session)
    BY <1>4, <2>1, Pairs, OnlyMinusOne, Zenon DEF SessionReport
  <2>3. report' = Only(Report, <<i, as>>)
    BY <1>4, <2>1, Pairs, NothingPlusOne, Zenon DEF SessionReport
  <2>4. OnlySent(i, sess, report) /\ OnlySent(i, sess', report')
    BY <2>1, <2>2, <2>3, SessionSent, ReportSent
  <2> QED
    BY <2>4 DEF SentAsBefore, OnlySent
<1> QED
  BY <1>1, <1>3, <1>4 DEF OpenOk, OpenFail, DataSent, Drop, ListStep

LEMMA NextList ==
  ASSUME Typed, OneTransfer, Joined, [Next]_vars,
         \A c \in Chunk : Sent(c, sess, report) => c \in dataChunks
  PROVE  ListStep
<1>1. CASE UNCHANGED <<dirty, dataChunks, sess, report>>
  BY <1>1, Zenon DEF ListStep, SentAsBefore
<1>2. ASSUME NEW i \in Item, Delivered(i) \/ ConnectionFailed(i) PROVE ListStep
  BY <1>2, DeliveredList, ConnectionFailedList
<1>3. ASSUME NEW i \in Item, OpenOk(i) \/ OpenFail(i) \/ DataSent(i) \/ Drop(i) PROVE ListStep
  BY <1>3, SessionsList
<1>4. ASSUME NEW a \in AP, JoinCompleted(a) PROVE ListStep
  <2>1. UNCHANGED <<report, dataChunks>>
    BY <1>4, Zenon DEF JoinCompleted
  <2>2. CASE ~Busy /\ StartClient(Probe, sending) /\ UNCHANGED dirty
    <3>1. sess = Nothing(Session) /\ report = Nothing(Report)
      BY <2>2 DEF OneTransfer, Busy
    <3>2. OnlySent(Probe, sess, report) /\ OnlySent(Probe, sess', report')
      BY <2>1, <2>2, <3>1, NothingSent, StartClientSends DEF Item
    <3>3. SentAsBefore
      BY <3>2 DEF OnlySent, SentAsBefore
    <3> QED
      BY <2>1, <2>2, <3>3, Zenon DEF ListStep
  <2>3. CASE ~Busy /\ \E tk : SendNext(a, tk, dirty, sending, due)
    BY <2>1, <2>3, IdleStarts DEF Busy
  <2> QED
    BY <1>1, <1>4, <2>1, <2>2, <2>3, Zenon DEF JoinCompleted, sendVars
<1>5. ASSUME NEW c \in Chunk, ChunkReceived(c) PROVE ListStep
  <2>1. SentAsBefore
    BY <1>5, Zenon DEF ChunkReceived, sendVars, SentAsBefore
  <2> QED
    BY <1>5, <2>1, Zenon DEF ChunkReceived, ListStep
<1>6. CASE Arrive
  <2>1. UNCHANGED <<report, dataChunks>>
    BY <1>6, Zenon DEF Arrive, TakePathTimer
  <2>2. CASE sending < 1 /\ \E du : SendNext(joinedAId, task, dirty, sending, du)
    <3>1. ~(sending > 0)
      BY <2>2 DEF Typed, SendType
    <3> QED
      BY <2>1, <2>2, <3>1, IdleStarts
  <2> QED
    BY <1>1, <1>6, <2>1, <2>2, Zenon DEF Arrive, sendVars
<1>7. ASSUME NEW m, HeaderReceived(m) \/ PathStopTimeout(m) \/ Mobility(m) PROVE ListStep
  BY <1>1, <1>7, Zenon DEF HeaderReceived, PathStopTimeout, Mobility, sendVars, chunkVars
<1>8. ASSUME NEW init, PathEnd(init) \/ MoveOn(init) \/ MoveLast(init) PROVE ListStep
  BY <1>1, <1>8, Zenon DEF PathEnd, MoveOn, MoveLast, Move, TakePathTimer, sendVars
<1>9. CASE Stay \/ PassThrough \/ TerminationTimer
  BY <1>1, <1>9, Zenon
  DEF Stay, PassThrough, TerminationTimer, TakePathTimer, sendVars, chunkVars
<1>10. ASSUME NEW c, RxHeader(c) \/ RxWhole(c) \/ RxBreak(c) PROVE ListStep
  BY <1>1, <1>10, Zenon DEF RxHeader, RxWhole, RxBreak, RxStep, DaemonIdle, chunkVars
<1> QED
  BY <1>1, <1>2, <1>3, <1>4, <1>5, <1>6, <1>7, <1>8, <1>9, <1>10, Zenon
  DEF Next, DaemonNext, EnvNext, PathTimer, vars

(***************************************************************************)
(* The work and finish bits.                                               *)
(***************************************************************************)

\* The inductive invariant: WorkBits, and the list holds what was received, whose
\* bits alone are ever set.
Listed ==
  /\ run = "on" => \A c \in Chunk :
       Sent(c, sess, report) <=> "work" \in dirty[c] /\ "finish" \notin dirty[c]
  /\ \A c \in Chunk :
       /\ Sent(c, sess, report) => c \in dataChunks
       /\ dirty[c] # {} => c \in dataChunks
       /\ rx[c] = "done" <=> c \in dataChunks

LEMMA ReceivedListed ==
  ASSUME Typed, Listed, PlanStep
  PROVE  \A c \in Chunk : /\ rx'[c] = "done" <=> c \in dataChunks'
                          /\ c \in dataChunks => c \in dataChunks'
BY DEF Typed, RestType, Listed, PlanStep

LEMMA StartsListed ==
  ASSUME NEW dy \in Bits, UNCHANGED dataChunks, Starts(dy), dataChunks \subseteq Chunk,
         \A c \in Chunk : dy[c] # {} => c \in dataChunks,
         \A c \in Chunk : ~("work" \in dy[c] /\ "finish" \notin dy[c])
  PROVE  \A c \in Chunk :
           /\ Sent(c, sess', report') <=> "work" \in dirty'[c] /\ "finish" \notin dirty'[c]
           /\ Sent(c, sess', report') => c \in dataChunks'
           /\ dirty'[c] # {} => c \in dataChunks'
BY DEF Starts, SetBit, OnlySent, Bits

LEMMA RestsListed ==
  ASSUME NEW dy \in Bits, UNCHANGED dataChunks, Rests(dy),
         \A c \in Chunk : dy[c] # {} => c \in dataChunks
  PROVE  \A c \in Chunk :
           /\ ~Sent(c, sess', report')
           /\ run' = "on" => ~("work" \in dirty'[c] /\ "finish" \notin dirty'[c])
           /\ dirty'[c] # {} => c \in dataChunks'
<1>1. ASSUME NEW c \in Chunk PROVE ~Sent(c, sess', report') /\ c # Probe
  BY Names DEF Rests, OnlySent
<1>2. CASE dirty' = ClearWork(dy)
  BY <1>1, <1>2 DEF ClearWork, Bits
<1>3. CASE dirty' = dy /\ run' # "on"
  BY <1>1, <1>3
<1> QED
  BY <1>2, <1>3 DEF Rests

LEMMA ListedInv ==
  ASSUME Typed, Listed, PlanStep, ListStep, run = "on" \/ UNCHANGED vars
  PROVE  Listed'
<1>1. dirty \in Bits /\ dataChunks \subseteq Chunk
      /\ \A c \in Chunk : dirty[c] # {} => c \in dataChunks
  BY DEF Typed, RestType, Listed
<1>2. CASE UNCHANGED vars
  BY <1>2 DEF Listed, Sent, vars
<1>3. ASSUME \A c \in Chunk :
               /\ run' = "on" => (Sent(c, sess', report')
                                   <=> "work" \in dirty'[c] /\ "finish" \notin dirty'[c])
               /\ Sent(c, sess', report') => c \in dataChunks'
               /\ dirty'[c] # {} => c \in dataChunks'
      PROVE  Listed'
  BY <1>3, ReceivedListed, SentIsInTransfer DEF Listed, InTransfer, Sent
<1>4. ASSUME NEW dy \in Bits, UNCHANGED dataChunks, Starts(dy) \/ Rests(dy),
             \A c \in Chunk : dy[c] # {} => c \in dataChunks,
             \A c \in Chunk : ~("work" \in dy[c] /\ "finish" \notin dy[c])
      PROVE  Listed'
  <2>1. CASE Starts(dy)
    BY <1>1, <1>3, <1>4, <2>1, StartsListed
  <2>2. CASE Rests(dy)
    BY <1>1, <1>3, <1>4, <2>2, RestsListed
  <2> QED
    BY <1>4, <2>1, <2>2
<1>5. CASE run = "on"
  <2>1. \A c \in Chunk :
          /\ Sent(c, sess, report) <=> "work" \in dirty[c] /\ "finish" \notin dirty[c]
          /\ Sent(c, sess, report) => c \in dataChunks
    BY <1>5 DEF Listed
  <2>2. CASE UNCHANGED <<dirty, dataChunks>> /\ SentAsBefore
    BY <1>1, <1>3, <2>1, <2>2 DEF SentAsBefore
  <2>3. ASSUME NEW c \in Chunk, rx[c] = "whole", dataChunks' = dataChunks \cup {c},
               dirty' = [dirty EXCEPT ![c] = {}], SentAsBefore
        PROVE  Listed'
    <3>1. ~Sent(c, sess, report)
      BY <2>1, <2>3 DEF Listed
    <3> QED
      BY <1>1, <1>3, <2>1, <2>3, <3>1 DEF SentAsBefore, Bits
  <2>4. CASE OnlySent(Probe, sess, report) /\ UNCHANGED dataChunks
             /\ (Starts(dirty) \/ Rests(dirty))
    <3>1. \A c \in Chunk : ~("work" \in dirty[c] /\ "finish" \notin dirty[c])
      BY <2>1, <2>4, Names DEF OnlySent
    <3> QED
      BY <1>1, <1>4, <2>4, <3>1
  <2>5. ASSUME NEW c \in Chunk, OnlySent(c, sess, report), UNCHANGED dataChunks,
               NEW dy \in {SetBit(dirty, c, "finish"), ClearBit(dirty, c, "work")},
               Starts(dy) \/ Rests(dy)
        PROVE  Listed'
    <3>1. dy \in Bits
      BY <1>1, BitsType
    <3>2. c \in dataChunks
      BY <2>1, <2>5 DEF OnlySent
    <3>3. \A d \in Chunk : d # c => dy[d] = dirty[d]
      BY <1>1 DEF SetBit, ClearBit, Bits
    <3>4. ~("work" \in dy[c] /\ "finish" \notin dy[c])
      BY <1>1, <2>5 DEF SetBit, ClearBit, Bits
    <3>5. \A d \in Chunk : d # c => ~("work" \in dirty[d] /\ "finish" \notin dirty[d])
      BY <2>1, <2>5 DEF OnlySent
    <3> QED
      BY <1>1, <1>4, <2>5, <3>1, <3>2, <3>3, <3>4, <3>5
  <2>6. ASSUME NEW c \in Chunk, UNCHANGED dataChunks, Rests(dirty)
        PROVE  Listed'
    BY <1>1, <1>3, <2>6, RestsListed
  <2> QED
    BY <2>2, <2>3, <2>4, <2>5, <2>6, Zenon DEF ListStep
<1> QED
  BY <1>2, <1>5

LEMMA ListedAlways == Spec => [](Typed /\ OneTransfer /\ Joined /\ Listed)
<1>1. Init => Typed /\ OneTransfer /\ Joined /\ Listed
  <2>1. Init => Joined
    BY Names DEF Init, Joined
  <2>2. Init => OneTransfer
    BY DEF Init, OneTransfer, Nothing
  <2>3. ASSUME Init PROVE Listed
    <3>1. OnlySent(Probe, sess, report)
      BY <2>3, NothingSent DEF Init, Nothing
    <3> QED
      BY <2>3, <3>1, Names DEF Init, Listed, OnlySent
  <2> QED
    BY <2>1, <2>2, <2>3, InitType
<1>2. Typed /\ OneTransfer /\ Joined /\ Listed /\ [Next]_vars
      => (Typed /\ OneTransfer /\ Joined /\ Listed)'
  <2> SUFFICES ASSUME Typed, OneTransfer, Joined, Listed, [Next]_vars
               PROVE  Typed' /\ OneTransfer' /\ Joined' /\ Listed'
    OBVIOUS
  <2>1. Typed' /\ OneTransfer' /\ Joined'
    BY NextType, NextTransfers, TransferInv, NextJoins, JoinedInv
  <2>2. \A c \in Chunk : Sent(c, sess, report) => c \in dataChunks
    BY DEF Listed
  <2>3. run = "on" \/ UNCHANGED vars
    BY Zenon DEF Next
  <2> QED
    BY <2>1, <2>2, <2>3, NextPlan, NextList, ListedInv
<1> QED
  BY <1>1, <1>2, PTL DEF Spec

\* The bits of a chunk in the daemon's list say exactly whether it is in transfer.
THEOREM WorkBitsAlways == Spec => []WorkBits
<1>1. Listed => WorkBits
  BY SentIsInTransfer DEF Listed, WorkBits
<1> QED
  BY <1>1, ListedAlways, PTL

(***************************************************************************)
(* What is done with at an access point.                                   *)
(***************************************************************************)

\* No chunk of the list is in work, given the bits dy.
NoneInWork(dy) == \A c \in dataChunks : dy[c] # {} => "finish" \in dy[c]

\* The policy that finds nothing to send owes the access point nothing more.
LEMMA NothingOwed ==
  ASSUME dataChunks \in SUBSET Chunk, NEW a \in AP, NEW dy, None \in GetNext(a, dy)
  PROVE  \A c \in Owed(a) : c \in dataChunks /\ dy[c] # {}
<1>1. a # None /\ None \notin dataChunks
  BY Names
<1>2. \A S \in SUBSET dataChunks : None \in OrNone(S) => S = {}
  BY <1>1 DEF OrNone
<1> SUFFICES ASSUME NEW c \in dataChunks, c \in Owed(a), dy[c] = {} PROVE FALSE
  BY DEF Owed
<1>3. c \in Clean(dy) /\ Clean(dy) \in SUBSET dataChunks
  BY DEF Clean
<1>4. CASE policy = "EVERYTHING"
  BY <1>2, <1>3, <1>4 DEF GetNext
<1>5. CASE policy = "STRICT_PLAN" /\ Plan[c] = a
  <2> DEFINE planned == {d \in dataChunks : a # None /\ Plan[d] = a}
  <2>1. c \in Clean(dy) \cap planned /\ Clean(dy) \cap planned \in SUBSET dataChunks
    BY <1>1, <1>3, <1>5
  <2>2. None \in OrNone(Clean(dy) \cap planned)
    BY <1>5 DEF GetNext
  <2> QED
    BY <1>2, <2>1, <2>2
<1>6. CASE policy \in {"TIMELINE", "CONTROL_TH"} /\ AtLastA(a)
  <2>1. None \in OrNone(Clean(dy))
    BY <1>1, <1>6 DEF GetNext
  <2> QED
    BY <1>2, <1>3, <2>1
<1> QED
  BY <1>4, <1>5, <1>6 DEF Owed

\* A task becomes complete by being marked so.
LEMMA MarkCompletes ==
  ASSUME PathType, NEW x, NEW status \in Status, NEW tk \in Tasks,
         NEW i \in Stop, NEW a \in AP, tk[i][a] # "COMP", Mark(x, status, tk)[i][a] = "COMP"
  PROVE  x = a /\ status = "COMP"
<1>1. a \in Task
  BY DEF Task
<1>2. CASE x # a
  BY <1>1, <1>2, MarkOther
<1>3. CASE x = a
  BY <1>1, <1>3, MarkSame
<1> QED
  BY <1>2, <1>3

LEMMA CompAtACompletes ==
  ASSUME PathType, NEW j, NEW tk \in Tasks, NEW dy \in Bits, NEW du,
         CompAtA(j, tk, dy, du),
         NEW i \in Stop, NEW a \in AP, tk[i][a] # "COMP", task'[i][a] = "COMP"
  PROVE  /\ j = a
         /\ \A c \in Chunk : "finish" \in dirty'[c] <=> "finish" \in dy[c]
<1> DEFINE status == IF j \in StopTasks[path] THEN "COMP" ELSE "WAIT"
<1>1. \/ task' = tk
      \/ dirty' = ClearWork(dy) /\ \E tid : CheckStop(FALSE, j, Mark(j, status, tk), tid, du)
  BY Zenon DEF CompAtA
<1>2. dirty' = ClearWork(dy) /\ task' = Mark(j, status, tk)
  BY <1>1, Zenon DEF CheckStop
<1>3. j = a
  BY <1>2, MarkCompletes DEF Status
<1> QED
  BY <1>2, <1>3 DEF ClearWork

LEMMA SendNextCompletes ==
  ASSUME Typed, NEW j, NEW tk \in Tasks, NEW dy \in Bits, NEW snd, NEW du,
         SendNext(j, tk, dy, snd, du), NoneInWork(dy),
         NEW i \in Stop, NEW a \in AP, tk[i][a] # "COMP", task'[i][a] = "COMP"
  PROVE  sending' = snd /\ \A c \in Owed(a) : "finish" \in dirty'[c]
<1>1. PathType /\ dataChunks \in SUBSET Chunk
  BY DEF Typed, RestType
<1>2. None \in GetNext(j, dy) /\ sending' = snd /\ CompAtA(j, tk, dy, du)
  BY Zenon DEF SendNext
<1>3. j = a /\ \A c \in Chunk : "finish" \in dirty'[c] <=> "finish" \in dy[c]
  BY <1>1, <1>2, CompAtACompletes
<1>4. \A c \in Owed(a) : c \in dataChunks /\ dy[c] # {}
  BY <1>1, <1>2, <1>3, NothingOwed
<1> QED
  BY <1>1, <1>2, <1>3, <1>4 DEF NoneInWork

\* The bits of a chunk in work are those of the one chunk that is being sent.
LEMMA NoneInWorkBut ==
  ASSUME Typed, Listed, run = "on", NEW i, OnlySent(i, sess, report)
  PROVE  \A c \in dataChunks : c # i /\ dirty[c] # {} => "finish" \in dirty[c]
BY DEF Typed, RestType, Bits, Listed, OnlySent

LEMMA NoneInWorkIdle ==
  ASSUME Typed, Listed, run = "on", OneTransfer, ~(sending > 0)
  PROVE  sending = 0 /\ NoneInWork(dirty)
<1>1. sending = 0 /\ sess = Nothing(Session) /\ report = Nothing(Report)
  BY DEF OneTransfer
<1>2. OnlySent(Probe, sess, report) /\ dataChunks \in SUBSET Chunk
  BY <1>1, NothingSent DEF Typed, RestType
<1> QED
  BY <1>1, <1>2, NoneInWorkBut, Names DEF NoneInWork

\* The report of chunk i frees it, whatever it says.
LEMMA NoneInWorkAfter ==
  ASSUME Typed, Listed, run = "on", NEW i \in Item, OnlySent(i, sess, report)
  PROVE  /\ NoneInWork(IF i \in dataChunks THEN SetBit(dirty, i, "finish") ELSE dirty)
         /\ i \in Chunk => NoneInWork(ClearBit(dirty, i, "work"))
<1>1. dirty \in Bits /\ dataChunks \in SUBSET Chunk
  BY DEF Typed, RestType
<1>2. \A c \in dataChunks : c # i /\ dirty[c] # {} => "finish" \in dirty[c]
  BY NoneInWorkBut
<1>3. CASE i \in dataChunks
  BY <1>1, <1>2, <1>3 DEF NoneInWork, SetBit, ClearBit, Bits
<1>4. CASE i \notin dataChunks
  BY <1>1, <1>2, <1>4 DEF NoneInWork, ClearBit, Bits
<1> QED
  BY <1>3, <1>4

DoneAt(a) ==
  /\ sending' = 0
  /\ \/ \A c \in Owed(a) : "finish" \in dirty'[c]
     \/ connAttempted >= ConnMax /\ UNCHANGED connAttempted

LEMMA DeliveredDone ==
  ASSUME Typed, OneTransfer, Listed, run = "on", NEW i \in Item, Delivered(i),
         NEW s \in Stop, NEW a \in AP, task[s][a] # "COMP", task'[s][a] = "COMP"
  PROVE  DoneAt(a)
<1> DEFINE dy == IF i \in dataChunks THEN SetBit(dirty, i, "finish") ELSE dirty
<1>1. OnlySent(i, sess, report)
  BY ReportUsed, Zenon DEF Delivered
<1>2. sending - 1 = 0
  <2>1. <<i, "delivered">> \in Report /\ report[<<i, "delivered">>] > 0
    BY Pairs, Zenon DEF Delivered
  <2>2. sending = 1
    BY <2>1, ReportOfTheOne
  <2> QED
    BY <2>2
<1>3. NoneInWork(dy) /\ dy \in Bits /\ task \in Tasks
  BY <1>1, NoneInWorkAfter, BitsType DEF Typed, PathType
<1> HIDE DEF dy
<1>4. \/ policy = "TEST" /\ sending' = sending - 1
      \/ SendNext(joinedAId, task, dy, sending - 1, due)
  BY Zenon DEF Delivered, dy
<1>5. CASE policy = "TEST" /\ sending' = sending - 1
  BY <1>2, <1>5 DEF DoneAt, Owed
<1>6. CASE SendNext(joinedAId, task, dy, sending - 1, due)
  BY <1>2, <1>3, <1>6, SendNextCompletes, Zenon DEF DoneAt
<1> QED
  BY <1>4, <1>5, <1>6

LEMMA ConnectionFailedDone ==
  ASSUME Typed, OneTransfer, Listed, run = "on", NEW i \in Item, ConnectionFailed(i),
         NEW s \in Stop, NEW a \in AP, task[s][a] # "COMP", task'[s][a] = "COMP"
  PROVE  DoneAt(a)
<1>1. OnlySent(i, sess, report)
  BY ReportUsed, Zenon DEF ConnectionFailed
<1>2. sending - 1 = 0
  <2>1. <<i, "failed">> \in Report /\ report[<<i, "failed">>] > 0
    BY Pairs, Zenon DEF ConnectionFailed
  <2>2. sending = 1
    BY <2>1, ReportOfTheOne
  <2> QED
    BY <2>2
<1>3. task' # task /\ task \in Tasks
  BY DEF Typed, PathType
<1>4. \/ i \in Chunk /\ SendNext(joinedAId, task, ClearBit(dirty, i, "work"), sending - 1, due)
      \/ connAttempted >= ConnMax /\ sending' = sending - 1 /\ UNCHANGED connAttempted
  BY <1>3, Zenon DEF ConnectionFailed, pathVars
<1>5. CASE i \in Chunk /\ SendNext(joinedAId, task, ClearBit(dirty, i, "work"), sending - 1, due)
  <2>1. NoneInWork(ClearBit(dirty, i, "work")) /\ ClearBit(dirty, i, "work") \in Bits
    BY <1>1, <1>5, NoneInWorkAfter, BitsType DEF Typed
  <2> QED
    BY <1>2, <1>3, <1>5, <2>1, SendNextCompletes, Zenon DEF DoneAt
<1>6. CASE connAttempted >= ConnMax /\ sending' = sending - 1 /\ UNCHANGED connAttempted
  BY <1>2, <1>6, Zenon DEF DoneAt
<1> QED
  BY <1>4, <1>5, <1>6

LEMMA JoinCompletedDone ==
  ASSUME Typed, OneTransfer, Listed, run = "on", NEW j \in AP, JoinCompleted(j),
         NEW s \in Stop, NEW a \in AP, task[s][a] # "COMP", task'[s][a] = "COMP"
  PROVE  DoneAt(a)
<1> DEFINE tk == Mark(j, "WAIT", task)
<1>1. PathType /\ task \in Tasks /\ dirty \in Bits
  BY DEF Typed, PathType
<1>2. tk \in Tasks /\ tk[s][a] # "COMP"
  BY <1>1, MarkType, MarkCompletes DEF Status
<1> HIDE DEF tk
<1>3. task' # task /\ task' # tk
  BY <1>2
<1>4. ~Busy /\ SendNext(j, tk, dirty, sending, due)
  BY <1>3, Zenon DEF JoinCompleted, tk
<1>5. sending = 0 /\ NoneInWork(dirty)
  BY <1>4, NoneInWorkIdle DEF Busy
<1> QED
  BY <1>1, <1>2, <1>4, <1>5, SendNextCompletes, Zenon DEF DoneAt

LEMMA ArriveDone ==
  ASSUME Typed, OneTransfer, Listed, run = "on", Arrive,
         NEW s \in Stop, NEW a \in AP, task[s][a] # "COMP", task'[s][a] = "COMP"
  PROVE  DoneAt(a)
<1>1. task' # task /\ task \in Tasks /\ dirty \in Bits /\ sending \in Int
  BY DEF Typed, PathType, SendType
<1>2. sending < 1 /\ \E du : SendNext(joinedAId, task, dirty, sending, du)
  BY <1>1, Zenon DEF Arrive, CheckStop
<1>3. sending = 0 /\ NoneInWork(dirty)
  BY <1>1, <1>2, NoneInWorkIdle
<1> QED
  BY <1>1, <1>2, <1>3, SendNextCompletes, Zenon DEF DoneAt

LEMMA NextDone ==
  ASSUME Typed, OneTransfer, Listed, Next,
         NEW s \in Stop, NEW a \in AP, task[s][a] # "COMP", task'[s][a] = "COMP"
  PROVE  DoneAt(a)
<1>1. run = "on"
  BY Zenon DEF Next
<1>2. task' # task /\ task \in Tasks /\ PathType
  BY DEF Typed, PathType
<1>3. ASSUME NEW i \in Item, Delivered(i) \/ ConnectionFailed(i) PROVE DoneAt(a)
  BY <1>1, <1>3, DeliveredDone, ConnectionFailedDone
<1>4. ASSUME NEW j \in AP, JoinCompleted(j) PROVE DoneAt(a)
  BY <1>1, <1>4, JoinCompletedDone
<1>5. ASSUME NEW c \in Chunk, HeaderReceived(c) \/ ChunkReceived(c) PROVE FALSE
  <2>1. task' = Mark(c, "WAIT", task) \/ task' = Mark(c, "COMP", task)
    BY <1>2, <1>5, Zenon DEF HeaderReceived, ChunkReceived, CheckStop, pathVars
  <2>2. c # a
    BY Names
  <2> QED
    BY <1>2, <2>1, <2>2, MarkCompletes DEF Status
<1>6. ASSUME NEW m, PathStopTimeout(m) PROVE FALSE
  BY <1>2, <1>6, Zenon DEF PathStopTimeout, CheckStop, pathVars
<1>7. CASE Arrive
  BY <1>1, <1>7, ArriveDone
<1>8. ASSUME NEW init, PathEnd(init) \/ MoveOn(init) \/ MoveLast(init) PROVE FALSE
  BY <1>2, <1>8, Zenon DEF PathEnd, MoveOn, MoveLast, Move
<1>9. CASE Stay \/ PassThrough \/ TerminationTimer
  BY <1>2, <1>9, Zenon DEF Stay, PassThrough, TerminationTimer, pathVars
<1>10. ASSUME NEW c, RxHeader(c) \/ RxWhole(c) \/ RxBreak(c) PROVE FALSE
  BY <1>2, <1>10, Zenon DEF RxHeader, RxWhole, RxBreak, RxStep, DaemonIdle, pathVars
<1>11. ASSUME NEW i, OpenOk(i) \/ OpenFail(i) \/ DataSent(i) \/ Drop(i) PROVE FALSE
  BY <1>2, <1>11, Zenon
  DEF OpenOk, OpenFail, DataSent, Drop, SessionStep, SessionReport, DaemonIdle, pathVars
<1>12. ASSUME NEW e, Mobility(e) PROVE FALSE
  BY <1>2, <1>12, Zenon DEF Mobility
<1> QED
  BY <1>3, <1>4, <1>5, <1>6, <1>7, <1>8, <1>9, <1>10, <1>11, <1>12, Zenon
  DEF Next, DaemonNext, EnvNext, PathTimer

\* An access point is done with only when nothing is under way and all that the
\* policy owes it is delivered, or its attempts have run out.
THEOREM DoneWhenUploadedAlways == Spec => DoneWhenUploaded
<1> DEFINE Done == \A i \in Stop : \A a \in StopTasks[i] \cap AP :
       task[i][a] # "COMP" /\ task'[i][a] = "COMP" =>
         /\ sending' = 0
         /\ \/ \A c \in Owed(a) : "finish" \in dirty'[c]
            \/ connAttempted >= ConnMax /\ UNCHANGED connAttempted
<1>1. ASSUME Typed, OneTransfer, Listed, Next PROVE Done
  BY <1>1, NextDone DEF DoneAt
<1>2. Typed /\ OneTransfer /\ Joined /\ Listed /\ [Next]_vars => [Done]_vars
  BY <1>1, Zenon
<1> QED
  BY <1>2, ListedAlways, PTL DEF Spec, DoneWhenUploaded

(***************************************************************************)
(* The daemon implements the custody specification.                        *)
(***************************************************************************)

\* The custody of c, of given sessions s, reports r, bits dy and list l.
Where(c, s, r, dy, l) ==
  IF Sent(c, s, r) THEN "sending"
  ELSE IF "finish" \in dy[c] THEN "uploaded"
  ELSE IF c \in l THEN "held"
  ELSE "away"

At(c)  == Where(c, sess, report, dirty, dataChunks)
AtN(c) == Where(c, sess', report', dirty', dataChunks')

LEMMA CustodyAt ==
  /\ custody = [c \in Chunk |-> At(c)]
  /\ custody' = [c \in Chunk |-> AtN(c)]
BY SentIsInTransfer DEF custody, At, AtN, Where

\* A step of the abstract specification, chunk by chunk.
AbstractStep ==
  \/ \A c \in Chunk : AtN(c) = At(c)
  \/ \E c \in Chunk :
       /\ \A d \in Chunk : d # c => AtN(d) = At(d)
       /\ \/ At(c) = "away" /\ AtN(c) = "held"
          \/ (\A d \in Chunk : At(d) # "sending") /\ At(c) = "held" /\ AtN(c) = "sending"
          \/ At(c) = "sending" /\ AtN(c) \in {"held", "uploaded"}
  \/ \E c, e \in Chunk :
       /\ At(c) = "sending" /\ AtN(c) \in {"held", "uploaded"}
       /\ At(e) = "held" /\ AtN(e) = "sending"
       /\ \A d \in Chunk : d # c /\ d # e => AtN(d) = At(d)

\* Only the bit "finish", the list and the transfer matter.
LEMMA WhereSame ==
  ASSUME NEW c \in Chunk, NEW s, NEW r, NEW dy, NEW l, NEW s2, NEW r2, NEW dy2, NEW l2,
         Sent(c, s2, r2) <=> Sent(c, s, r),
         "finish" \in dy2[c] <=> "finish" \in dy[c],
         c \in l2 <=> c \in l
  PROVE  Where(c, s2, r2, dy2, l2) = Where(c, s, r, dy, l)
BY DEF Where

\* After the transfer of what was sent has ended, and perhaps another one started.
LEMMA StartsCustody ==
  ASSUME NEW dy \in Bits, Starts(dy), UNCHANGED dataChunks, dataChunks \subseteq Chunk
  PROVE  \E e \in dataChunks :
           /\ dy[e] = {} /\ AtN(e) = "sending"
           /\ \A d \in Chunk : d # e =>
                AtN(d) = IF "finish" \in dy[d] THEN "uploaded"
                         ELSE IF d \in dataChunks THEN "held" ELSE "away"
<1>1. PICK e \in dataChunks : /\ dy[e] = {}
                              /\ dirty' = SetBit(dy, e, "work")
                              /\ OnlySent(e, sess', report')
  BY DEF Starts
<1>2. AtN(e) = "sending"
  BY <1>1 DEF OnlySent, AtN, Where
<1>3. ASSUME NEW d \in Chunk, d # e
      PROVE  AtN(d) = IF "finish" \in dy[d] THEN "uploaded"
                      ELSE IF d \in dataChunks THEN "held" ELSE "away"
  <2>1. dirty'[d] = dy[d] /\ ~Sent(d, sess', report')
    BY <1>1, <1>3 DEF SetBit, Bits, OnlySent
  <2> QED
    BY <2>1 DEF AtN, Where
<1> QED
  BY <1>1, <1>2, <1>3

LEMMA RestsCustody ==
  ASSUME NEW dy \in Bits, Rests(dy), UNCHANGED dataChunks, NEW d \in Chunk
  PROVE  AtN(d) = IF "finish" \in dy[d] THEN "uploaded"
                  ELSE IF d \in dataChunks THEN "held" ELSE "away"
<1>1. ~Sent(d, sess', report')
  BY Names DEF Rests, OnlySent
<1>2. "finish" \in dirty'[d] <=> "finish" \in dy[d]
  BY DEF Rests, ClearWork, Bits
<1> QED
  BY <1>1, <1>2 DEF AtN, Where

LEMMA ListIsAbstract ==
  ASSUME Typed, Listed, ListStep, run = "on"
  PROVE  AbstractStep
<1>1. dirty \in Bits /\ dataChunks \subseteq Chunk
  BY DEF Typed, RestType
<1>2. \A c \in Chunk :
        /\ Sent(c, sess, report) <=> "work" \in dirty[c] /\ "finish" \notin dirty[c]
        /\ Sent(c, sess, report) => c \in dataChunks
        /\ dirty[c] # {} => c \in dataChunks
        /\ rx[c] = "done" <=> c \in dataChunks
  BY DEF Listed
<1>3. CASE UNCHANGED <<dirty, dataChunks>> /\ SentAsBefore
  BY <1>3, WhereSame DEF SentAsBefore, AbstractStep, At, AtN
<1>4. ASSUME NEW c \in Chunk, rx[c] = "whole", dataChunks' = dataChunks \cup {c},
             dirty' = [dirty EXCEPT ![c] = {}], SentAsBefore
      PROVE  AbstractStep
  <2>1. c \notin dataChunks /\ dirty[c] = {} /\ ~Sent(c, sess, report)
    BY <1>2, <1>4
  <2>2. dirty'[c] = {} /\ c \in dataChunks' /\ ~Sent(c, sess', report')
    BY <1>1, <1>4, <2>1 DEF SentAsBefore, Bits
  <2>3. At(c) = "away" /\ AtN(c) = "held"
    BY <2>1, <2>2 DEF At, AtN, Where
  <2>4. ASSUME NEW d \in Chunk, d # c PROVE AtN(d) = At(d)
    <3>1. dirty'[d] = dirty[d] /\ (d \in dataChunks' <=> d \in dataChunks)
          /\ (Sent(d, sess', report') <=> Sent(d, sess, report))
      BY <1>1, <1>4, <2>4 DEF SentAsBefore, Bits
    <3> QED
      BY <3>1, WhereSame DEF At, AtN
  <2> QED
    BY <2>3, <2>4 DEF AbstractStep
<1>5. CASE OnlySent(Probe, sess, report) /\ UNCHANGED dataChunks
           /\ (Starts(dirty) \/ Rests(dirty))
  <2>1. \A d \in Chunk : ~Sent(d, sess, report)
    BY <1>5, Names DEF OnlySent
  <2>2. \A d \in Chunk : /\ At(d) # "sending"
                        /\ At(d) = IF "finish" \in dirty[d] THEN "uploaded"
                                   ELSE IF d \in dataChunks THEN "held" ELSE "away"
    BY <2>1 DEF At, Where
  <2>3. CASE Rests(dirty)
    BY <1>1, <1>5, <2>2, <2>3, RestsCustody DEF AbstractStep
  <2>4. CASE Starts(dirty)
    <3>1. PICK e \in dataChunks :
            /\ dirty[e] = {} /\ AtN(e) = "sending"
            /\ \A d \in Chunk : d # e =>
                 AtN(d) = IF "finish" \in dirty[d] THEN "uploaded"
                          ELSE IF d \in dataChunks THEN "held" ELSE "away"
      BY <1>1, <1>5, <2>4, StartsCustody
    <3>2. At(e) = "held" /\ \A d \in Chunk : d # e => AtN(d) = At(d)
      BY <1>1, <2>2, <3>1
    <3> QED
      BY <1>1, <2>2, <3>1, <3>2 DEF AbstractStep
  <2> QED
    BY <1>5, <2>3, <2>4
<1>6. ASSUME NEW c \in Chunk, OnlySent(c, sess, report), UNCHANGED dataChunks,
             NEW dy \in Bits,
             \A d \in Chunk : d # c => ("finish" \in dy[d] <=> "finish" \in dirty[d]),
             Starts(dy) \/ Rests(dy)
      PROVE  AbstractStep
  <2> DEFINE Left(d) == IF "finish" \in dy[d] THEN "uploaded"
                        ELSE IF d \in dataChunks THEN "held" ELSE "away"
  <2>1. At(c) = "sending" /\ c \in dataChunks /\ Left(c) \in {"held", "uploaded"}
    BY <1>2, <1>6 DEF OnlySent, At, Where
  <2>2. ASSUME NEW d \in Chunk, d # c PROVE At(d) = Left(d)
    BY <1>6, <2>2 DEF OnlySent, At, Where
  <2> HIDE DEF Left
  <2>3. CASE Rests(dy)
    <3>1. \A d \in Chunk : AtN(d) = Left(d)
      BY <1>6, <2>3, RestsCustody DEF Left
    <3> QED
      BY <2>1, <2>2, <3>1 DEF AbstractStep
  <2>4. CASE Starts(dy)
    <3>1. PICK e \in dataChunks : dy[e] = {} /\ AtN(e) = "sending"
                                 /\ \A d \in Chunk : d # e => AtN(d) = Left(d)
      BY <1>1, <1>6, <2>4, StartsCustody, Zenon DEF Left
    <3>2. CASE e = c
      BY <2>1, <2>2, <3>1, <3>2 DEF AbstractStep
    <3>3. CASE e # c
      <4>1. Left(e) = "held" /\ e \in Chunk
        BY <1>1, <3>1 DEF Left
      <4> QED
        BY <2>1, <2>2, <3>1, <3>3, <4>1 DEF AbstractStep
    <3> QED
      BY <3>2, <3>3
  <2> QED
    BY <1>6, <2>3, <2>4
<1>7. ASSUME NEW c \in Chunk
      PROVE  /\ SetBit(dirty, c, "finish") \in Bits /\ ClearBit(dirty, c, "work") \in Bits
             /\ \A d \in Chunk : d # c => SetBit(dirty, c, "finish")[d] = dirty[d]
                                       /\ ClearBit(dirty, c, "work")[d] = dirty[d]
  BY <1>1, BitsType DEF SetBit, ClearBit, Bits
<1>8. ASSUME NEW c \in Chunk, OnlySent(c, sess, report), UNCHANGED dataChunks,
             NEW dy \in {SetBit(dirty, c, "finish"), ClearBit(dirty, c, "work"), dirty},
             Starts(dy) \/ Rests(dy)
      PROVE  AbstractStep
  BY <1>1, <1>6, <1>7, <1>8
<1> QED
  BY <1>3, <1>4, <1>5, <1>8 DEF ListStep

\* The steps of UpCustody, of the mapped custody.
CustodyMoves ==
  \E c \in Chunk :
    \/ /\ custody[c] = "away"
       /\ custody' = [custody EXCEPT ![c] = "held"]
    \/ /\ \A d \in Chunk : custody[d] # "sending"
       /\ custody[c] = "held"
       /\ custody' = [custody EXCEPT ![c] = "sending"]
    \/ \E outcome \in {"held", "uploaded"} :
         /\ custody[c] = "sending"
         /\ \/ custody' = [custody EXCEPT ![c] = outcome]
            \/ \E d \in Chunk :
                 /\ custody[d] = "held"
                 /\ custody' = [custody EXCEPT ![c] = outcome, ![d] = "sending"]

LEMMA AbstractIsCustody ==
  ASSUME AbstractStep
  PROVE  custody' = custody \/ CustodyMoves
<1>1. CASE \A c \in Chunk : AtN(c) = At(c)
  BY <1>1, CustodyAt
<1>2. ASSUME NEW c \in Chunk, \A d \in Chunk : d # c => AtN(d) = At(d)
      PROVE  custody' = [custody EXCEPT ![c] = AtN(c)]
  BY <1>2, CustodyAt
<1>3. ASSUME NEW c \in Chunk, NEW e \in Chunk, e # c,
             \A d \in Chunk : d # c /\ d # e => AtN(d) = At(d)
      PROVE  custody' = [custody EXCEPT ![c] = AtN(c), ![e] = AtN(e)]
  BY <1>3, CustodyAt
<1>4. \A c \in Chunk : custody[c] = At(c)
  BY CustodyAt
<1>5. ASSUME NEW c \in Chunk, \A d \in Chunk : d # c => AtN(d) = At(d),
             \/ At(c) = "away" /\ AtN(c) = "held"
             \/ (\A d \in Chunk : At(d) # "sending") /\ At(c) = "held" /\ AtN(c) = "sending"
             \/ At(c) = "sending" /\ AtN(c) \in {"held", "uploaded"}
      PROVE  CustodyMoves
  BY <1>2, <1>4, <1>5 DEF CustodyMoves
<1>6. ASSUME NEW c \in Chunk, NEW e \in Chunk,
             At(c) = "sending", AtN(c) \in {"held", "uploaded"},
             At(e) = "held", AtN(e) = "sending",
             \A d \in Chunk : d # c /\ d # e => AtN(d) = At(d)
      PROVE  CustodyMoves
  BY <1>3, <1>4, <1>6 DEF CustodyMoves
<1> QED
  BY <1>1, <1>5, <1>6 DEF AbstractStep

\* Every behaviour of the daemon, seen through its list and its sessions, is one of
\* UpCustody: a chunk is collected once, uploaded at most once and only after it was
\* collected, and never two at a time, whatever the radio, TCP and the path do.
THEOREM DaemonKeepsCustody == Spec => CustodySpec
<1>1. ASSUME Init PROVE Custody!Init
  <2>1. \A c \in Chunk : At(c) = "away"
    <3>1. OnlySent(Probe, sess, report)
      BY <1>1, NothingSent DEF Init, Nothing
    <3> QED
      BY <1>1, <3>1, Names DEF Init, OnlySent, At, Where
  <2> QED
    BY <2>1, CustodyAt DEF Custody!Init
<1>2. ASSUME Typed, OneTransfer, Joined, Listed, [Next]_vars
      PROVE  custody' = custody \/ CustodyMoves
  <2>1. run = "on" \/ UNCHANGED vars
    BY <1>2, Zenon DEF Next
  <2>2. CASE UNCHANGED vars
    <3>1. \A c \in Chunk : AtN(c) = At(c)
      BY <2>2 DEF vars, At, AtN
    <3> QED
      BY <3>1, CustodyAt
  <2>3. CASE run = "on"
    <3>1. ListStep
      BY <1>2, NextList DEF Listed
    <3> QED
      BY <1>2, <2>3, <3>1, ListIsAbstract, AbstractIsCustody
  <2> QED
    BY <2>1, <2>2, <2>3
<1>3. custody' = custody \/ CustodyMoves => [Custody!Next]_custody
  BY Zenon
  DEF CustodyMoves, Custody!Next, Custody!Collect, Custody!Start, Custody!Free,
      Custody!End, Custody!Pass
<1> QED
  BY <1>1, <1>2, <1>3, ListedAlways, PTL
  DEF Spec, CustodySpec, Custody!Spec
=============================================================================
