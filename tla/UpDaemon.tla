------------------------------ MODULE UpDaemon ------------------------------
(***************************************************************************)
(* The UP client daemon of a mobile data collector (MDC): the handlers of  *)
(* AppLayerUpClientDaemon in app_up.cpp with everything they call.  The    *)
(* daemon drives the vehicle along its path of stops, collects data chunks *)
(* from the data sites it passes and uploads them, one TCP session at a    *)
(* time, through whatever access point the MAC has joined.                 *)
(*                                                                         *)
(* Time is abstracted: a message sent with a delay is a pending message    *)
(* that some later step handles.  What the daemon does not do itself (the  *)
(* MAC, the client and server sessions and TCP, the mobility model) are    *)
(* environment actions, and are the only source of joins and losses.       *)
(***************************************************************************)
EXTENDS Integers, FiniteSets, Bags

CONSTANTS
  Chunk,       \* identifiers of data chunks (integers > 0 in the code)
  AP,          \* identifiers of access points (integers > 0 in the code)
  None,        \* joinedAId = -1, and "no chunk" (getNextDataChunk returns -1)
  Probe,       \* the test item a client carries when it has no chunk (id 0)
  NumStops,    \* length of the path file
  StopTasks,   \* what is planned at each stop: its lsAId and lsDId keys
  StopLoc,     \* coordinates of each stop
  Road,        \* any position that is not a stop's
  InitLoc,     \* where the vehicle stands when the simulation starts
  Plan,        \* plan file: the access point each chunk is planned for, or None
  Policies,    \* the adaption policies a scenario may name
  ConnMax,     \* APP_UP_OPEN_CONN_ATTEMPT_MAX
  MaxJoins,    \* BOUND: how many times the MAC completes a join
  Lossy        \* may TCP lose an open connection?

Item     == Chunk \cup {Probe}
Stop     == 1..NumStops
Task     == Chunk \cup AP
Status   == {"INIT", "WAIT", "COMP"}
Loc      == {StopLoc[i] : i \in Stop} \cup {Road, InitLoc}
Session  == Item \X {"opening", "open", "lost"}
Report   == Item \X {"delivered", "failed"}
RxPhase  == {"idle", "header", "headed", "whole", "done", "broken"}

\* What the path and plan readers assert or the identifiers guarantee.  A stop
\* has at most one access point, and not both an access point and data sites.
ASSUME PathAssumption ==
  /\ NumStops \in Nat
  /\ StopTasks \in [Stop -> SUBSET Task]
  /\ \A i \in Stop : StopTasks[i] \cap AP # {} => \E a \in AP : StopTasks[i] = {a}
  /\ DOMAIN StopLoc = Stop
  /\ \A i \in Stop : StopLoc[i] # Road

ASSUME NameAssumption ==
  /\ Chunk \cap AP = {}
  /\ None \notin Task \cup {Probe}
  /\ Probe \notin Task
  /\ Plan \in [Chunk -> AP \cup {None}]
  /\ Policies \subseteq {"TEST", "EVERYTHING", "STRICT_PLAN", "TIMELINE", "CONTROL_TH"}
  /\ ConnMax \in Nat
  /\ MaxJoins \in Nat
  /\ Lossy \in BOOLEAN

VARIABLES
  policy,         \* the adaption policy; TEST is the test mode (no plan file)
  joinedAId,      \* the AP of the last JoinCompleted, None once its stop is left
  connAttempted,  \* connection attempts since the last join or delivery
  path,           \* number of the stop at the head of the path list
  task,           \* status of each planned task at each stop
  timeoutId,      \* the stop timeouts with this id are the live ones
  sending,        \* "number of data chunks prepared for sending"
  dataChunks,     \* the chunks in the daemon's list
  dirty,          \* the bits of each chunk: "work" (1) and "finish" (2)
  sess,           \* client sessions the daemon has not heard of, by phase
  report,         \* Delivered and ConnectionFailed messages on their way
  rx,             \* per chunk: the server session that receives it
  timeouts,       \* pending PathStopTimeout messages: <<id, head when posted>>
  initDue,        \* is the PathTimer of the initialisation pending?
  due,            \* number of other PathTimer messages that are due now
  legs,           \* inserted mobility events <<place, moving>>, each with its PathTimer
  pos, moving,    \* mobilityData->current: position, and speed > 0
  term,           \* number of pending TerminationTimer messages
  joins,          \* joins completed so far (for the bound)
  run             \* "on", "over" (SIGINT) or the function whose assert failed

chunkVars  == <<dataChunks, dirty>>
pathVars   == <<path, task, timeoutId, joinedAId, due>>
sendVars   == <<sending, sess>>
mobileVars == <<initDue, legs, pos, moving>>
vars == <<policy, joinedAId, connAttempted, path, task, timeoutId, sending, dataChunks,
          dirty, sess, report, rx, timeouts, initDue, due, legs, pos, moving,
          term, joins, run>>

Init ==
  /\ policy \in Policies
  /\ joinedAId = None
  /\ connAttempted = 0
  /\ path = 1
  /\ task = [i \in Stop |-> [x \in Task |-> "INIT"]]
  /\ timeoutId = 0
  /\ sending = 0
  /\ dataChunks = {}
  /\ dirty = [c \in Chunk |-> {}]
  /\ sess = [s \in Session |-> 0]
  /\ report = [r \in Report |-> 0]
  /\ rx = [c \in Chunk |-> "idle"]
  /\ timeouts = EmptyBag
  /\ initDue = TRUE
  /\ due = 0
  /\ legs = EmptyBag
  /\ pos = InitLoc
  /\ moving = FALSE
  /\ term = 0
  /\ joins = 0
  /\ run = "on"

\* The definitions whose comment begins with "Slip:" are what a small mistake in
\* the code would make of the definition that follows them: the mutation checks
\* put them in its place, and a property must notice.

Post(bag, m)    == bag (+) SetToBag({m})
Consume(bag, m) == bag (-) SetToBag({m})

-----------------------------------------------------------------------------
(* The list of chunks and the choice of the next one.                      *)

\* Slip: the bit is not reset.
KeepBit(dy, c, bit) == dy

SetBit(dy, c, bit)   == [dy EXCEPT ![c] = @ \cup {bit}]
ClearBit(dy, c, bit) == [dy EXCEPT ![c] = @ \ {bit}]
ClearWork(dy)        == [c \in Chunk |-> dy[c] \ {"work"}]

\* The last access point of the path file (lastAId).
AtLastA(j) ==
  \E i \in Stop : /\ j \in StopTasks[i] \cap AP
                  /\ \A k \in Stop : k > i => StopTasks[k] \cap AP = {}

\* Slip: only the work bit is looked at.
NotInWork(dy) == {c \in dataChunks : "work" \notin dy[c]}

\* Slip: the bits before the handler began: a chunk is taken back after the choice.
StaleClean(dy) == {c \in dataChunks : dirty[c] = {}}

Clean(dy) == {c \in dataChunks : dy[c] = {}}

OrNone(S) == IF S = {} THEN {None} ELSE S

\* The results getNextDataChunk may have when AP j is joined.  Priorities,
\* deadlines, sizes and rates decide among them (module UpSelect).
GetNext(j, dy) ==
  LET clean   == Clean(dy)
      planned == {c \in dataChunks : j # None /\ Plan[c] = j}
      left    == {c \in planned : "finish" \notin dy[c]}
      some    == IF policy = "TIMELINE" /\ left # {} THEN clean \cap planned ELSE clean
  IN  CASE policy = "TEST"        -> {None}
        [] policy = "EVERYTHING"  -> OrNone(clean)
        [] policy = "STRICT_PLAN" -> OrNone(clean \cap planned)
        [] OTHER -> IF j = None THEN {None}
                    ELSE IF AtLastA(j) THEN OrNone(clean) ELSE some \cup {None}

-----------------------------------------------------------------------------
(* The plan's tasks and the walk along the path.                           *)

\* Set the status of x at the first stop ahead that has it, if any.
Serving(x) == {i \in path..NumStops : x \in StopTasks[i]}

\* Slip: the task is complete however little was done.
MarkDone(x, status, tk) ==
  [i \in Stop |-> IF i \in Serving(x) THEN [tk[i] EXCEPT ![x] = "COMP"] ELSE tk[i]]

Mark(x, status, tk) ==
  [i \in Stop |-> IF i \in Serving(x) /\ \A k \in Serving(x) : i <= k
                  THEN [tk[i] EXCEPT ![x] = status] ELSE tk[i]]

\* Slip: a timeout also ends the wait for tasks that have begun.
CompletedOrTimedOut(tk, timedOut) ==
  timedOut \/ \A x \in StopTasks[path] : tk[path][x] = "COMP"

Completed(tk, timedOut) ==
  \A x \in StopTasks[path] : tk[path][x] = "COMP" \/ (timedOut /\ tk[path][x] = "INIT")

\* Slips: the access point is forgotten at every stop; 0 for "no access point".
ForgetAlways(j) == None
ForgetAsZero(j) == IF j \in StopTasks[path] THEN Probe ELSE j

\* The joined access point belongs to the stop that is left.
Forget(j) == IF j \in StopTasks[path] THEN None ELSE j

\* Slip: earlier timeouts stay live.
SameId(id) == id

Bump(id) == id + 1

\* AppUpClientDaemonCheckStop, for a caller whose daemon has AP j joined, the
\* task statuses tk, the timeout id tid and du due path timers.
CheckStop(timedOut, j, tk, tid, du) ==
  /\ task' = tk
  /\ \/ /\ Completed(tk, timedOut)
        /\ ~moving
        /\ path' = path + 1
        /\ timeoutId' = Bump(tid)
        /\ joinedAId' = Forget(j)
        /\ due' = du + 1
     \/ /\ ~Completed(tk, timedOut) \/ moving
        /\ timeoutId' = tid
        /\ joinedAId' = j
        /\ due' = du
        /\ UNCHANGED path

\* AppUpClientDaemonCompAtA: nothing (more) to do with the joined AP j.
CompAtA(j, tk, dy, du) ==
  \/ /\ path > NumStops
     /\ run' = "CompAtA"
     /\ joinedAId' = j /\ task' = tk /\ dirty' = dy /\ due' = du
     /\ UNCHANGED <<path, timeoutId, timeouts>>
  \/ /\ path <= NumStops
     /\ dirty' = ClearWork(dy)
     /\ timeouts' = Post(timeouts, <<Bump(timeoutId), path>>)
     /\ CheckStop(FALSE, j,
                  Mark(j, IF j \in StopTasks[path] THEN "COMP" ELSE "WAIT", tk),
                  Bump(timeoutId), du)
     /\ UNCHANGED run

\* AppUpClientInit: a client instance that starts to connect.
StartClient(i, snd) ==
  /\ sending' = snd + 1
  /\ sess' = [sess EXCEPT ![<<i, "opening">>] = @ + 1]

\* AppUpClientDaemonSendNextDataChunk
SendNext(j, tk, dy, snd, du) ==
  \E c \in GetNext(j, dy) :
    \/ /\ c # None
       /\ dirty' = SetBit(dy, c, "work")
       /\ StartClient(c, snd)
       /\ joinedAId' = j /\ task' = tk /\ due' = du
       /\ UNCHANGED <<path, timeoutId, timeouts, run>>
    \/ /\ c = None
       /\ sending' = snd
       /\ UNCHANGED sess
       /\ CompAtA(j, tk, dy, du)

-----------------------------------------------------------------------------
(* Messages from the MAC and from the node's own client sessions.          *)

\* Slip: an ongoing transfer is not looked at.
NeverBusy == FALSE

Busy == sending > 0

\* MSG_APP_UP_FromMacJoinCompleted
JoinCompleted(a) ==
  /\ joins < MaxJoins
  /\ joins' = joins + 1
  /\ connAttempted' = 0
  /\ UNCHANGED <<dataChunks, report, rx, mobileVars, term>>
  /\ LET tk == Mark(a, "WAIT", task) IN
     \/ /\ path > NumStops
        /\ run' = "JoinCompleted"
        /\ joinedAId' = a
        /\ UNCHANGED <<path, task, timeoutId, due, sendVars, dirty, timeouts>>
     \/ /\ path <= NumStops
        /\ Busy
        /\ joinedAId' = a
        /\ task' = tk
        /\ UNCHANGED <<path, timeoutId, due, sendVars, dirty, timeouts, run>>
     \/ /\ path <= NumStops
        /\ ~Busy
        /\ policy = "TEST"
        /\ joinedAId' = a
        /\ task' = tk
        /\ StartClient(Probe, sending)
        /\ UNCHANGED <<path, timeoutId, due, dirty, timeouts, run>>
     \/ /\ path <= NumStops
        /\ ~Busy
        /\ policy # "TEST"
        /\ SendNext(a, tk, dirty, sending, due)

\* MSG_APP_UP_DataChunkDelivered
Delivered(i) ==
  /\ report[<<i, "delivered">>] > 0
  /\ report' = [report EXCEPT ![<<i, "delivered">>] = @ - 1]
  /\ connAttempted' = 0
  /\ UNCHANGED <<dataChunks, rx, mobileVars, term, joins>>
  /\ LET dy == IF i \in dataChunks THEN SetBit(dirty, i, "finish") ELSE dirty IN
     \/ /\ policy = "TEST"
        /\ sending' = sending - 1
        /\ UNCHANGED sess
        /\ CompAtA(joinedAId, task, dy, due)
     \/ /\ policy # "TEST"
        /\ SendNext(joinedAId, task, dy, sending - 1, due)

\* Slip: attempts are not counted.
SameAttempt == connAttempted

NextAttempt == connAttempted + 1

\* MSG_APP_UP_TransportConnectionFailed
ConnectionFailed(i) ==
  /\ report[<<i, "failed">>] > 0
  /\ report' = [report EXCEPT ![<<i, "failed">>] = @ - 1]
  /\ UNCHANGED <<dataChunks, rx, mobileVars, term, joins>>
  /\ \/ /\ joinedAId = None
        /\ sending' = sending - 1
        /\ UNCHANGED <<connAttempted, pathVars, dirty, sess, timeouts, run>>
     \/ /\ joinedAId # None
        /\ connAttempted < ConnMax
        /\ connAttempted' = NextAttempt
        /\ \/ /\ i \in Chunk
              /\ SendNext(joinedAId, task, ClearBit(dirty, i, "work"), sending - 1, due)
           \/ /\ i = Probe
              /\ StartClient(Probe, sending - 1)
              /\ UNCHANGED <<pathVars, dirty, timeouts, run>>
     \/ /\ joinedAId # None
        /\ connAttempted >= ConnMax
        /\ sending' = sending - 1
        /\ UNCHANGED <<connAttempted, sess>>
        /\ CompAtA(joinedAId, task, dirty, due)

-----------------------------------------------------------------------------
(* Messages from the node's own server sessions.                           *)

\* MSG_APP_UP_DataChunkHeaderReceived
HeaderReceived(c) ==
  /\ rx[c] = "header"
  /\ rx' = [rx EXCEPT ![c] = "headed"]
  /\ task' = Mark(c, "WAIT", task)
  /\ UNCHANGED <<joinedAId, connAttempted, path, timeoutId, due, sendVars,
                 chunkVars, report, timeouts, mobileVars, term, joins, run>>

\* MSG_APP_UP_DataChunkReceived
ChunkReceived(c) ==
  /\ rx[c] = "whole"
  /\ rx' = [rx EXCEPT ![c] = "done"]
  /\ dataChunks' = dataChunks \cup {c}
  /\ dirty' = [dirty EXCEPT ![c] = {}]
  /\ UNCHANGED <<connAttempted, sendVars, report, mobileVars, term, joins, run>>
  /\ \/ /\ Serving(c) = {}
        /\ UNCHANGED <<pathVars, timeouts>>
     \/ /\ Serving(c) # {}
        /\ timeouts' = Post(timeouts, <<Bump(timeoutId), path>>)
        /\ \/ /\ StopTasks[path] \cap AP = {}
              /\ CheckStop(FALSE, joinedAId, Mark(c, "COMP", task), Bump(timeoutId), due)
           \/ /\ StopTasks[path] \cap AP # {}
              /\ task' = Mark(c, "COMP", task)
              /\ timeoutId' = Bump(timeoutId)
              /\ UNCHANGED <<path, joinedAId, due>>

-----------------------------------------------------------------------------
(* Timers.                                                                 *)

\* MSG_APP_UP_PathStopTimeout
PathStopTimeout(m) ==
  /\ m \in DOMAIN timeouts
  /\ timeouts' = Consume(timeouts, m)
  /\ UNCHANGED <<connAttempted, sendVars, chunkVars, report, rx, mobileVars, term, joins>>
  /\ \/ /\ m[1] # timeoutId
        /\ UNCHANGED <<pathVars, run>>
     \/ /\ m[1] = timeoutId
        /\ path > NumStops
        /\ run' = "CheckStop"
        /\ UNCHANGED pathVars
     \/ /\ m[1] = timeoutId
        /\ path <= NumStops
        /\ CheckStop(TRUE, joinedAId, task, timeoutId, due)
        /\ UNCHANGED run

\* MSG_APP_UP_PathTimer, posted by the initialisation or by the daemon itself.
TakePathTimer(init) ==
  /\ IF init THEN initDue ELSE due > 0
  /\ initDue' = (initDue /\ ~init)
  /\ UNCHANGED <<connAttempted, dataChunks, report, rx, pos, moving, joins>>

DueLeft(init) == IF init THEN due ELSE due - 1
AtStop == path <= NumStops /\ pos = StopLoc[path]

\* AppUpClientDaemonMobilityModelProcess: the path is exhausted.
PathEnd(init) ==
  /\ TakePathTimer(init)
  /\ path > NumStops
  /\ term' = term + 1
  /\ due' = DueLeft(init)
  /\ UNCHANGED <<path, task, timeoutId, joinedAId, sendVars, dirty, timeouts, legs, run>>

\* The simulation starts at the first stop: stay there.
Stay ==
  /\ TakePathTimer(TRUE)
  /\ AtStop
  /\ legs' = Post(legs, <<pos, FALSE>>)
  /\ UNCHANGED <<pathVars, sendVars, dirty, timeouts, term, run>>

\* Arrived at a stop without tasks.
PassThrough ==
  /\ TakePathTimer(FALSE)
  /\ AtStop
  /\ StopTasks[path] = {}
  /\ path' = path + 1
  /\ due' = DueLeft(FALSE) + 1
  /\ UNCHANGED <<task, timeoutId, joinedAId, sendVars, dirty, timeouts, legs, term, run>>

\* Slip: no timeout is set.
AwaitForEver == UNCHANGED timeouts

AwaitTasks == timeouts' = Post(timeouts, <<timeoutId, path>>)

\* Arrived at a stop with tasks.
Arrive ==
  /\ TakePathTimer(FALSE)
  /\ AtStop
  /\ StopTasks[path] # {}
  /\ UNCHANGED <<legs, term>>
  /\ LET du == DueLeft(FALSE)
         maySend == sending < 1 /\ joinedAId # None /\ StopTasks[path] \cap AP # {}
     IN \/ /\ Completed(task, FALSE)
           /\ CheckStop(FALSE, joinedAId, task, timeoutId, du)
           /\ UNCHANGED <<sendVars, dirty, timeouts, run>>
        \/ /\ ~Completed(task, FALSE)
           /\ maySend
           /\ SendNext(joinedAId, task, dirty, sending, du)
        \/ /\ ~Completed(task, FALSE)
           /\ ~maySend
           /\ AwaitTasks
           /\ due' = du
           /\ UNCHANGED <<path, task, timeoutId, joinedAId, sendVars, dirty, run>>

\* On the road: one more step of APP_UP_PATH_SIMU_DISTANCE, or the last one.
Move(init, leg) ==
  /\ TakePathTimer(init)
  /\ path <= NumStops
  /\ ~AtStop
  /\ legs' = Post(legs, leg)
  /\ due' = DueLeft(init)
  /\ UNCHANGED <<path, task, timeoutId, joinedAId, sendVars, dirty, timeouts, term, run>>

MoveOn(init)   == Move(init, <<Road, TRUE>>)
MoveLast(init) == path <= NumStops /\ Move(init, <<StopLoc[path], FALSE>>)

\* MSG_APP_UP_TerminationTimer
TerminationTimer ==
  /\ term > 0
  /\ term' = term - 1
  /\ run' = "over"
  /\ UNCHANGED <<connAttempted, pathVars, sendVars, chunkVars, report, rx, timeouts,
                 mobileVars, joins>>

-----------------------------------------------------------------------------
(* The environment: the mobility model, TCP and the session handlers of    *)
(* this node (module UpSession), the data sites.                           *)

\* An inserted mobility event takes effect; its path timer is due with it.  The
\* clock only gets there when the timers that are due now have been handled.
Mobility(e) ==
  /\ due = 0
  /\ e \in DOMAIN legs
  /\ legs' = Consume(legs, e)
  /\ pos' = e[1]
  /\ moving' = e[2]
  /\ due' = due + 1
  /\ UNCHANGED <<connAttempted, path, task, timeoutId, joinedAId, sendVars, chunkVars,
                 report, rx, timeouts, initDue, term, joins, run>>

DaemonIdle ==
  UNCHANGED <<connAttempted, pathVars, sending, chunkVars, timeouts, mobileVars,
              term, joins, run>>

SessionStep(i, from, to) ==
  /\ sess[<<i, from>>] > 0
  /\ sess' = [sess EXCEPT ![<<i, from>>] = @ - 1, ![<<i, to>>] = @ + 1]
  /\ UNCHANGED <<report, rx>>
  /\ DaemonIdle

SessionReport(i, from, as) ==
  /\ sess[<<i, from>>] > 0
  /\ sess' = [sess EXCEPT ![<<i, from>>] = @ - 1]
  /\ report' = [report EXCEPT ![<<i, as>>] = @ + 1]
  /\ UNCHANGED rx
  /\ DaemonIdle

OpenOk(i)   == SessionStep(i, "opening", "open")
OpenFail(i) == SessionReport(i, "opening", "failed")
DataSent(i) == SessionReport(i, "open", "delivered")
\* The close of a client session is not reported to the daemon.
Drop(i)     == Lossy /\ SessionStep(i, "open", "lost")

RxStep(c, from, to) ==
  /\ rx[c] = from
  /\ rx' = [rx EXCEPT ![c] = to]
  /\ UNCHANGED <<sess, report>>
  /\ DaemonIdle

RxHeader(c) == RxStep(c, "idle", "header")
RxWhole(c)  == RxStep(c, "headed", "whole")
RxBreak(c)  == Lossy /\ RxStep(c, "headed", "broken")

-----------------------------------------------------------------------------
PathTimer ==
  \/ \E init \in BOOLEAN : PathEnd(init) \/ MoveOn(init) \/ MoveLast(init)
  \/ Stay
  \/ PassThrough
  \/ Arrive

DaemonNext ==
  \/ \E i \in Item : Delivered(i) \/ ConnectionFailed(i)
  \/ \E c \in Chunk : HeaderReceived(c) \/ ChunkReceived(c)
  \/ \E m \in DOMAIN timeouts : PathStopTimeout(m)
  \/ PathTimer
  \/ TerminationTimer

EnvNext ==
  \/ \E a \in AP : JoinCompleted(a)
  \/ \E e \in DOMAIN legs : Mobility(e)
  \/ \E i \in Item : OpenOk(i) \/ OpenFail(i) \/ DataSent(i) \/ Drop(i)
  \/ \E c \in Chunk : RxHeader(c) \/ RxWhole(c) \/ RxBreak(c)

\* The first path timer is posted by the initialisation with no delay: nothing
\* else can have happened before it.
Next == /\ run = "on"
        /\ UNCHANGED policy
        /\ DaemonNext \/ (~initDue /\ EnvNext)

Spec == Init /\ [][Next]_vars

\* The simulator handles every pending event, TCP resolves every open and every
\* transfer, and the receiving side of a lossless session completes.  Every step on
\* the road shortens the way by APP_UP_PATH_SIMU_DISTANCE, so a last one comes.
\* Joins, new sessions of data sites and losses need never happen.
Goes(A) == run = "on" /\ UNCHANGED policy /\ A

Fairness ==
  /\ \A i \in Item : /\ WF_vars(Goes(Delivered(i) \/ ConnectionFailed(i)))
                     /\ WF_vars(Goes(OpenOk(i) \/ OpenFail(i)))
                     /\ WF_vars(Goes(DataSent(i) \/ Drop(i)))
  /\ \A c \in Chunk : /\ WF_vars(Goes(HeaderReceived(c) \/ ChunkReceived(c)))
                      /\ WF_vars(Goes(RxWhole(c) \/ RxBreak(c)))
  /\ WF_vars(Goes(\E m \in DOMAIN timeouts : PathStopTimeout(m)))
  /\ WF_vars(Goes(PathTimer \/ \E e \in DOMAIN legs : Mobility(e)))
  /\ SF_vars(Goes(\E init \in BOOLEAN : MoveLast(init)))
  /\ WF_vars(Goes(TerminationTimer))

FairSpec == Spec /\ Fairness

-----------------------------------------------------------------------------
(* Properties.                                                             *)

TypeOK ==
  /\ policy \in Policies
  /\ joinedAId \in AP \cup {None}
  /\ connAttempted \in Nat
  /\ path \in 1..(NumStops + 1)
  /\ task \in [Stop -> [Task -> Status]]
  /\ timeoutId \in Nat
  /\ sending \in Int
  /\ dataChunks \in SUBSET Chunk
  /\ dirty \in [Chunk -> SUBSET {"work", "finish"}]
  /\ sess \in [Session -> Nat]
  /\ report \in [Report -> Nat]
  /\ rx \in [Chunk -> RxPhase]
  /\ IsABag(timeouts) /\ DOMAIN timeouts \subseteq Nat \X Stop
  /\ IsABag(legs) /\ DOMAIN legs \subseteq Loc \X BOOLEAN
  /\ initDue \in BOOLEAN
  /\ due \in Nat
  /\ pos \in Loc
  /\ moving \in BOOLEAN
  /\ term \in Nat
  /\ joins \in Nat
  /\ run \in {"on", "over", "JoinCompleted", "CompAtA", "CheckStop"}

Only(S, u) == [v \in S |-> IF v = u THEN 1 ELSE 0]
Nothing(S) == [v \in S |-> 0]

\* The counter "sending" is exactly the number of client sessions the daemon has
\* not heard of plus the reports on their way, and there is never more than one,
\* whatever the order of joins, failures, deliveries, arrivals and timeouts.
OneTransfer ==
  \/ sending = 0 /\ sess = Nothing(Session) /\ report = Nothing(Report)
  \/ sending = 1 /\ report = Nothing(Report) /\ \E s \in Session : sess = Only(Session, s)
  \/ sending = 1 /\ sess = Nothing(Session) /\ \E r \in Report : report = Only(Report, r)

InTransfer(c) == \/ \E p \in {"opening", "open", "lost"} : sess[<<c, p>>] > 0
                 \/ \E o \in {"delivered", "failed"} : report[<<c, o>>] > 0

\* A chunk is marked "in work" and not finished exactly while it is in transfer:
\* no chunk is stranded by a failure, none is sent twice at once, and a finished
\* chunk is never sent again.
WorkBits ==
  run = "on" => \A c \in Chunk :
    /\ InTransfer(c) <=> "work" \in dirty[c] /\ "finish" \notin dirty[c]
    /\ InTransfer(c) => c \in dataChunks

\* The daemon forgets its access point only when nothing is being sent through it.
NoTransferUnjoined == joinedAId = None => sending = 0

\* A live stop timeout was posted for the stop at the head of the path, or for
\* one separated from it by nothing but stops without tasks: the timeout of a
\* stop left behind never ends the wait at another one.
LiveTimeouts ==
  \A m \in DOMAIN timeouts :
    /\ m[1] <= timeoutId
    /\ m[2] <= path
    /\ m[1] = timeoutId => \A k \in m[2]..(path - 1) : StopTasks[k] = {}

\* While stops remain, something is pending that will move the daemon on, or it
\* waits for a transfer, or for a task it has marked WAIT: it never falls asleep
\* over a task that has not begun.  On the road a path timer is always pending.
Awake ==
  run = "on" =>
    /\ \/ initDue \/ due > 0 \/ legs # EmptyBag
       \/ path <= NumStops /\ pos # Road
          /\ \/ \E m \in DOMAIN timeouts : m[1] = timeoutId
             \/ sending > 0
             \/ \E x \in StopTasks[path] : task[path][x] = "WAIT"
       \/ path > NumStops /\ term > 0

\* What the plan says of a chunk is true: it is complete only if the daemon has
\* the chunk, and awaited only while its session has begun and not ended well.
TaskTruth ==
  \A i \in Stop : \A c \in StopTasks[i] \cap Chunk :
    /\ task[i][c] = "COMP" => c \in dataChunks
    /\ task[i][c] = "WAIT" => rx[c] \in {"headed", "whole", "broken"}

\* Where each chunk is, according to the daemon's list and its client sessions.
custody ==
  [c \in Chunk |-> IF InTransfer(c) THEN "sending"
                   ELSE IF "finish" \in dirty[c] THEN "uploaded"
                   ELSE IF c \in dataChunks THEN "held" ELSE "away"]

\* The daemon keeps the custody promises of UpCustody.
Custody == INSTANCE UpCustody WITH custody <- custody
CustodySpec == Custody!Spec

\* The vehicle never leaves a stop while a chunk planned there is arriving.
NoLeaveDuringReception ==
  [][path' # path => \A c \in StopTasks[path] \cap Chunk : rx'[c] \notin {"headed", "whole"}]_vars

\* The chunks of the list that the policy does not leave behind at AP a.  The
\* policies that estimate may decline any chunk, except at the last AP.
Owed(a) ==
  {c \in dataChunks : \/ policy = "EVERYTHING"
                      \/ policy = "STRICT_PLAN" /\ Plan[c] = a
                      \/ policy \in {"TIMELINE", "CONTROL_TH"} /\ AtLastA(a)}

\* The daemon has done with an access point only when nothing is being sent and
\* all that it owes it is delivered, or the last attempt has failed: a chunk
\* that a failed attempt still holds, or that another handler has in work, is not
\* taken for one that needs no upload.
DoneWhenUploaded ==
  [][\A i \in Stop : \A a \in StopTasks[i] \cap AP :
       task[i][a] # "COMP" /\ task'[i][a] = "COMP" =>
         /\ sending' = 0
         /\ \/ \A c \in Owed(a) : "finish" \in dirty'[c]
            \/ connAttempted >= ConnMax /\ UNCHANGED connAttempted]_vars

\* assert(nextStop) in JoinCompleted and in CompAtA, assert(path) in CheckStop.
JoinFindsStop    == run # "JoinCompleted"
CompAtAFindsStop == run # "CompAtA"
CheckFindsStop   == run # "CheckStop"

\* The vehicle leaves a stop from where the stop is.
LeavesFromStop == [][path' # path => pos = StopLoc[path]]_vars

\* Retries and the choice of ever new chunks come to an end: a daemon that sends
\* has nothing under way later, unless TCP loses a session or the run ends.
TransfersEnd ==
  sending > 0 ~> (sending = 0 \/ run # "on" \/ \E i \in Item : sess[<<i, "lost">>] > 0)

\* What the daemon may wait for in vain: the report of a lost session, the rest of
\* a chunk whose session broke, or an AP task of the head stop that it has marked
\* WAIT although another AP, or none, is joined.
Stuck ==
  \/ \E i \in Item : sess[<<i, "lost">>] > 0
  \/ /\ path <= NumStops
     /\ \E x \in StopTasks[path] :
          /\ task[path][x] = "WAIT"
          /\ IF x \in AP THEN joinedAId # x ELSE rx[x] = "broken"

\* The daemon's run ends, or it is stuck for one of these reasons for ever.
EndsOrStuck == <>(run # "on") \/ <>[]Stuck
=============================================================================
