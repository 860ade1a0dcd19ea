------------------------------ MODULE UpSelect ------------------------------
(***************************************************************************)
(* Which data chunk the UP client daemon sends next: the functions         *)
(* AppUpClientDaemonGNDC... of app_up.cpp, over the daemon's list of       *)
(* chunks, with priorities, deadlines, sizes, estimated rates and time;    *)
(* and the UP statements of the application file (application.cpp) with    *)
(* the part of AppUpClientDaemonInit that decides on the policy and the    *)
(* chunks.  UpDaemon assumes a nondeterministic choice, GetNext: here it   *)
(* is shown to allow for every policy's choice.                            *)
(*                                                                         *)
(* A handler keeps the fields the choice reads; its other effects are      *)
(* UpDaemon's.  Time is in seconds, rates in KB/s, priorities in tenths.   *)
(***************************************************************************)
EXTENDS Integers, Sequences, FiniteSets, SequencesExt

CONSTANTS
  Chunk, Ap,      \* identifiers, integers > 0
  PathAps,        \* the path read from file: each stop's access point, or 0
  Plan,           \* the plan read from file: each chunk's access point, or None
  AppFiles,       \* application files: sequences of UP statements
  Rates,          \* what currentRate may be after a delivery
  ConnMax,        \* APP_UP_OPEN_CONN_ATTEMPT_MAX
  Grace,          \* APP_UP_GNDC_TIMELINE_GRACE_PERIOD
  Clock,          \* BOUND: times the choice is asked at
  MaxJoins        \* BOUND: how many times the MAC completes a join

None == -1        \* "joinedAId = -1", "no chunk"
Probe == 0        \* the test item of a client without a chunk

ASSUME SelectAssumption ==
  /\ Chunk \cup Ap \subseteq Nat \ {0}
  /\ PathAps \in Seq(Ap \cup {0})
  /\ Plan \in [Chunk -> Ap \cup {None}]
  /\ Rates \cup Clock \cup {ConnMax, Grace, MaxJoins} \subseteq Nat

-----------------------------------------------------------------------------
(* The files an MDC's statement names, as [number, lines]: the number of   *)
(* lines they announce, and the lines.  A line of the path file is a stop  *)
(* with the list of its access points and that of its data sites, one of   *)
(* the plan file a chunk with the access point it is for.                  *)

\* The asserts on the path: as many stops as announced, with no data site twice
\* and no access point next to another one or to a data site.
PathAccepted(file) ==
  /\ Len(file.lines) = file.number
  /\ \A i \in DOMAIN file.lines :
       LET stop == file.lines[i]
       IN /\ Len(stop.aps) < 2
          /\ IsInjective(stop.sites)
          /\ Len(stop.aps) < 1 \/ Len(stop.sites) < 1

\* The asserts on the plan: as many chunks as announced, none of them twice.
PlanAccepted(file) ==
  /\ Len(file.lines) = file.number
  /\ IsInjective([i \in DOMAIN file.lines |-> file.lines[i].chunk])

ApsOf(file) ==
  [i \in DOMAIN file.lines |->
     IF file.lines[i].aps = << >> THEN 0 ELSE file.lines[i].aps[1]]

PlanOf(file) ==
  [c \in Chunk |->
     LET its == {i \in DOMAIN file.lines : file.lines[i].chunk = c}
     IN IF its = {} THEN None ELSE file.lines[CHOOSE i \in its : TRUE].ap]

NoFile == [number |-> -1, lines |-> << >>]   \* the name "-"

ValidLine(d) == d.id > 0 /\ d.size > 0 /\ d.deadline >= 0 /\ d.priority \in 1..10

Statements == UNION {ToSet(app) : app \in AppFiles}

\* The chunks a statement gives a data site.
Offers(s) ==
  IF s.type = "DATA" /\ s.words \in {1, 4}
  THEN {d.id : d \in {x \in s.lines : ValidLine(x)}} ELSE {}

\* The files that are accepted are those that were read, data lines have four numbers,
\* and an identifier is that of one chunk, at one data site.
ASSUME FileAssumption ==
  /\ \A s \in Statements : s.type = "MDC" =>
       /\ PathAccepted(s.path) => ApsOf(s.path) = PathAps
       /\ s.plan # NoFile /\ PlanAccepted(s.plan) => PlanOf(s.plan) = Plan
  /\ \A s \in Statements : s.type = "DATA" =>
       s.lines \subseteq [id : Int, size : Int, deadline : Int, priority : Int]
  /\ \A s \in Statements : Offers(s) \subseteq Chunk
  /\ \A app \in AppFiles :
       /\ app \in Seq(Statements)
       /\ \A i, k \in DOMAIN app : i # k => Offers(app[i]) \cap Offers(app[k]) = {}

-----------------------------------------------------------------------------
VARIABLES
  lines,          \* statements of the application file not read yet
  run,            \* "reading", "on", or how it ended: "error", "assert", "crash"
  apps,           \* node |-> what it runs: "server", "daemon"
  coming,         \* chunks the data sites have
  policy, test,   \* the MDC's adaption policy; test mode
  specs,          \* access point |-> its prior specification, [rate, comp]
  dataChunks,     \* the MDC's list of chunks, the last one received first
  joinedAId, connAttempted, currentRate,
  sending,        \* the item of the client session, or None
  uploaded,       \* has anything been uploaded since the last join?
  history,        \* access points with an entry in historyRates
  now, joins

session == <<joinedAId, connAttempted, currentRate, sending, uploaded, history, joins>>
vars == <<lines, run, apps, coming, policy, test, specs, dataChunks, session, now>>

Init ==
  /\ lines \in AppFiles
  /\ run = "reading"
  /\ apps = << >>
  /\ coming = {}
  /\ policy = "" /\ test = FALSE
  /\ specs = << >>
  /\ dataChunks = << >>
  /\ joinedAId = None /\ connAttempted = 0 /\ currentRate = 0
  /\ sending = None /\ uploaded = FALSE
  /\ history = {}
  /\ now \in Clock /\ joins = 0

-----------------------------------------------------------------------------
(* The application file.  A statement has a node and a type; an MDC's says *)
(* how many words follow the type (words), the path file, the plan file,   *)
(* the policy and the specifications; a data site's gives data lines.      *)

Runs(node, what) ==
  apps' = [n \in DOMAIN apps \cup {node} |->
             (IF n \in DOMAIN apps THEN apps[n] ELSE {})
               \cup (IF n = node THEN what ELSE {})]

\* The policy the words name, or "" (policy < 0).
PolicyOf(s) ==
  CASE s.words = 2 -> "STRICT_PLAN"
    [] s.words = 3 /\ s.policy \in {"EVERYTHING", "OPPORTUNITY"} -> "OPPORTUNITY"
    [] s.words = 3 /\ s.policy = "STRICT_PLAN" -> "STRICT_PLAN"
    [] s.words = 4 /\ s.policy \in {"TIMELINE", "ADAPTIVE_GP", "CONTROL_TH"} -> s.policy
    [] OTHER -> ""

\* The asserts on the policy, the path and the plan.
PolicyAccepted(s) ==
  /\ PolicyOf(s) # ""
  /\ PolicyOf(s) = "OPPORTUNITY" => s.plan = NoFile
  /\ s.plan = NoFile => PolicyOf(s) \in {"OPPORTUNITY", "STRICT_PLAN"}
Accepted(s) ==
  /\ PolicyAccepted(s) /\ PathAccepted(s.path)
  /\ s.plan # NoFile => PlanAccepted(s.plan)

\* The specifications with an identifier, a rate and a time.
SpecsOf(s) ==
  LET valid == IF s.words = 4 THEN {r \in s.specs : r.ap > 0 /\ r.rate > 0 /\ r.comp > 0}
               ELSE {}
  IN [a \in {r.ap : r \in valid} |->
        LET r == CHOOSE x \in valid : x.ap = a IN [rate |-> r.rate, comp |-> r.comp]]

\* AppUpUniDist: the size varies by less than half, and is an integer.  The
\* condition on the priority's raise always holds.
Sizes(size) == size \div 2 .. (3 * size - 1) \div 2
Raised(priority) ==
  IF priority < 5 THEN 6 ELSE IF priority < 8 THEN 10 ELSE priority

ChunksOf(d) ==
  {[id |-> d.id, size |-> size, deadline |-> d.deadline,
    priority |-> Raised(d.priority), dirty |-> {}] : size \in Sizes(d.size)}

DrawChunks(ds) ==
  {S \in SUBSET UNION {ChunksOf(d) : d \in ds} :
     /\ \A d \in ds : \E c \in S : c.id = d.id
     /\ \A c, e \in S : c.id = e.id => c = e}

Fail(how) ==
  run' = how /\ UNCHANGED <<apps, coming, policy, test, specs>>

StartCloud(s) ==
  /\ s.type = "CLOUD"
  /\ Runs(s.node, {"server"})
  /\ UNCHANGED <<run, coming, policy, test, specs>>

StartMdc(s) ==
  /\ s.type = "MDC"
  /\ \/ s.words < 2 /\ Fail("error")
     \/ s.words >= 2 /\ ~Accepted(s) /\ Fail("assert")
     \/ /\ s.words >= 2 /\ Accepted(s)
        /\ Runs(s.node, {"daemon", "server"})
        /\ policy' = PolicyOf(s)
        /\ test' = (policy' = "STRICT_PLAN" /\ s.plan = NoFile)
        /\ specs' = SpecsOf(s)
        /\ UNCHANGED <<run, coming>>

StartDataSite(s) ==
  /\ s.type = "DATA"
  /\ \/ s.words \notin {1, 4} /\ Fail("error")
     \/ /\ s.words \in {1, 4}
        /\ Runs(s.node, {"daemon"})
        /\ \E S \in DrawChunks({d \in s.lines : ValidLine(d)}) : coming' = coming \cup S
        /\ UNCHANGED <<run, policy, test, specs>>

Unknown(s) == s.type \notin {"CLOUD", "MDC", "DATA"} /\ Fail("error")

ReadStatement ==
  /\ run = "reading"
  /\ UNCHANGED <<dataChunks, session, now>>
  /\ \/ /\ lines # << >>
        /\ lines' = Tail(lines)
        /\ LET s == Head(lines)
           IN StartCloud(s) \/ StartMdc(s) \/ StartDataSite(s) \/ Unknown(s)
     \/ /\ lines = << >>
        /\ run' = IF policy = "" THEN "idle" ELSE "on"
        /\ UNCHANGED <<lines, apps, coming, policy, test, specs>>

-----------------------------------------------------------------------------
(* The choice, for AP j joined, the rate r and the list ls.                *)

Nothing == [id |-> None]

Urgent(c, best) ==
  \/ c.priority > best.priority
  \/ c.priority = best.priority /\ c.deadline < best.deadline

\* The first of the list's most urgent chunks, of those in C.
MostUrgent(ls, C) ==
  FoldLeft(LAMBDA best, c : IF c \in C /\ (best.id < 1 \/ Urgent(c, best)) THEN c ELSE best,
           Nothing, ls).id

Undone(c) == c.dirty = {}
\* In test mode there is no plan.
PlannedFor(c, j) == ~test /\ j > 0 /\ Plan[c.id] = j

\* The last access point of the path file (lastAId), 0 if it has none.
LastA == LET stops == {i \in DOMAIN PathAps : PathAps[i] > 0}
         IN IF stops = {} THEN 0 ELSE PathAps[Max(stops)]

EstCompTime(j) == IF j \in DOMAIN specs THEN specs[j].comp ELSE 0

\* now + size / rate > limit, in floating point: a rate of 0 makes it infinite,
\* or not a number if the size is 0 too.
Exceeds(c, r, limit) == (now - limit) * r + c.size > 0
Meets(c, r) == r > 0 /\ ~Exceeds(c, r, c.deadline)

GNDCEverything(ls) == MostUrgent(ls, {c \in ToSet(ls) : Undone(c)})

GNDCStrictPlan(ls, j) ==
  MostUrgent(ls, {c \in ToSet(ls) : PlannedFor(c, j) /\ Undone(c)})

\* Slip: a chunk in work is not left.
SlipLeft(ls, j) == \E i \in DOMAIN ls : PlannedFor(ls[i], j) /\ ls[i].dirty = {}

\* Is a chunk planned for j left to be delivered, one in work included?
Left(ls, j) == \E i \in DOMAIN ls : PlannedFor(ls[i], j) /\ "finish" \notin ls[i].dirty

PlannedInTime(ls, j, r, grace) ==
  MostUrgent(ls, {c \in ToSet(ls) : /\ PlannedFor(c, j) /\ Undone(c)
                                    /\ ~Exceeds(c, r, EstCompTime(j) + grace)})

\* Slip: the larger chunk is preferred.
SlipSmaller(c, best) == c.size > best.size

Smaller(c, best) == c.size < best.size

\* The chunks whose upload does not exceed the time at the access point.
Fitting(ls, j, r) == {c \in ToSet(ls) : Undone(c) /\ ~Exceeds(c, r, EstCompTime(j))}

\* "chunkMeetDeadline" stays false, so every chunk in time is preferred.
Opportune(ls, j, r) ==
  FoldLeft(LAMBDA best, c : IF /\ c \in Fitting(ls, j, r)
                               /\ \/ best.id < 1
                                  \/ Meets(c, r)
                                  \/ c.priority > best.priority
                                  \/ c.priority = best.priority /\ Smaller(c, best)
                            THEN c ELSE best,
           Nothing, ls).id

OrAllAtLast(ls, j, chosen) ==
  IF chosen = None /\ j = LastA THEN GNDCEverything(ls) ELSE chosen

GNDCTimeline(ls, j, r, grace) ==
  LET planned == PlannedInTime(ls, j, r, grace)
  IN CASE j < 1                      -> None
       [] j > 0 /\ planned # None    -> planned
       [] j > 0 /\ planned = None    ->
            OrAllAtLast(ls, j, IF Left(ls, j) THEN None ELSE Opportune(ls, j, r))

\* log2(numChunksThisAId + 1) is taken before the chunks are counted: no grace.
GNDCAdaptiveGP(ls, j, r) == GNDCTimeline(ls, j, r, 0)

\* It first reads the last of the differences of the rates in the history from
\* those specified: there may be none.
NoDifference == history # {} /\ history \cap DOMAIN specs = {}

\* The evaluation may be negative, or favour any of the chunks.
GNDCControlTh(ls, j) ==
  IF j < 1 THEN {None}
  ELSE {c.id : c \in {c \in ToSet(ls) : Undone(c)}} \cup {OrAllAtLast(ls, j, None)}

\* getNextDataChunk
GetNextDataChunk(ls, j, r) ==
  CASE policy = "OPPORTUNITY" -> {GNDCEverything(ls)}
    [] policy = "STRICT_PLAN" -> {GNDCStrictPlan(ls, j)}
    [] policy = "TIMELINE"    -> {GNDCTimeline(ls, j, r, Grace)}
    [] policy = "ADAPTIVE_GP" -> {GNDCAdaptiveGP(ls, j, r)}
    [] policy = "CONTROL_TH"  -> GNDCControlTh(ls, j)

-----------------------------------------------------------------------------
(* The daemon's handlers.                                                  *)

\* The bits of chunk id, with some of them reset and some set.
Redirty(ls, id, reset, set) ==
  [i \in DOMAIN ls |->
     IF ls[i].id = id THEN [ls[i] EXCEPT !.dirty = (@ \ reset) \cup set] ELSE ls[i]]

\* AppUpClientDaemonCompAtA
CompAtA(ls, j, done, compInFailure) ==
  /\ dataChunks' = [i \in DOMAIN ls |-> [ls[i] EXCEPT !.dirty = @ \ {"work"}]]
  /\ history' = IF compInFailure \/ done THEN history \cup {j} ELSE history
  /\ sending' = None
  /\ UNCHANGED run

\* AppUpClientDaemonSendNextDataChunk
SendNext(ls, j, r, done) ==
  \/ /\ policy = "ADAPTIVE_GP" /\ NoDifference
     /\ run' = "crash"
     /\ dataChunks' = ls /\ sending' = None
     /\ UNCHANGED history
  \/ \E id \in GetNextDataChunk(ls, j, r) :
       \/ /\ id > 0
          /\ dataChunks' = Redirty(ls, id, {}, {"work"})
          /\ sending' = id
          /\ UNCHANGED <<run, history>>
       \/ /\ id < 1
          /\ CompAtA(ls, j, done, FALSE)

\* MSG_APP_UP_FromMacJoinCompleted
JoinCompleted(a) ==
  /\ joins < MaxJoins
  /\ joins' = joins + 1
  /\ joinedAId' = a /\ connAttempted' = 0 /\ uploaded' = FALSE
  /\ currentRate' = IF a \in DOMAIN specs THEN specs[a].rate ELSE 0
  /\ UNCHANGED <<coming, now>>
  /\ \/ sending # None /\ UNCHANGED <<run, dataChunks, sending, history>>
     \/ sending = None /\ test /\ sending' = Probe /\ UNCHANGED <<run, dataChunks, history>>
     \/ sending = None /\ ~test /\ SendNext(dataChunks, a, currentRate', FALSE)

\* MSG_APP_UP_DataChunkDelivered
Delivered ==
  /\ sending # None
  /\ connAttempted' = 0 /\ uploaded' = TRUE
  /\ currentRate' \in Rates
  /\ UNCHANGED <<coming, joinedAId, now, joins>>
  /\ LET ls == Redirty(dataChunks, sending, {}, {"finish"})
     IN \/ test /\ CompAtA(ls, joinedAId, TRUE, FALSE)
        \/ ~test /\ SendNext(ls, joinedAId, currentRate', TRUE)

\* MSG_APP_UP_TransportConnectionFailed
ConnectionFailed ==
  /\ sending # None
  /\ UNCHANGED <<coming, joinedAId, currentRate, uploaded, now, joins>>
  /\ \/ /\ joinedAId = None
        /\ sending' = None
        /\ UNCHANGED <<run, dataChunks, connAttempted, history>>
     \/ /\ joinedAId # None /\ connAttempted < ConnMax
        /\ connAttempted' = connAttempted + 1
        /\ \/ /\ sending # Probe
              /\ SendNext(Redirty(dataChunks, sending, {"work"}, {}),
                          joinedAId, currentRate, uploaded)
           \/ sending = Probe /\ UNCHANGED <<run, dataChunks, sending, history>>
     \/ /\ joinedAId # None /\ connAttempted >= ConnMax
        /\ CompAtA(dataChunks, joinedAId, uploaded, TRUE)
        /\ UNCHANGED connAttempted

\* MSG_APP_UP_PathTimer: arrived at a stop with an access point.
Arrive ==
  /\ sending = None /\ joinedAId # None
  /\ SendNext(dataChunks, joinedAId, currentRate, uploaded)
  /\ UNCHANGED <<coming, joinedAId, connAttempted, currentRate, uploaded, now, joins>>

\* MSG_APP_UP_DataChunkReceived
ChunkReceived(c) ==
  /\ coming' = coming \ {c}
  /\ dataChunks' = <<[c EXCEPT !.dirty = {}]>> \o dataChunks
  /\ UNCHANGED <<run, session, now>>

\* AppUpClientDaemonCheckStop leaves the access point's stop: UpDaemon says when.
LeaveStop ==
  /\ sending = None
  /\ joinedAId' = None
  /\ UNCHANGED <<run, coming, dataChunks, connAttempted, currentRate, sending,
                 uploaded, history, now, joins>>

Tick ==
  /\ \E t \in Clock : t > now /\ now' = t
  /\ UNCHANGED <<run, coming, dataChunks, session>>

Next ==
  \/ ReadStatement
  \/ /\ run = "on"
     /\ UNCHANGED <<lines, apps, policy, test, specs>>
     /\ \/ \E a \in Ap : JoinCompleted(a)
        \/ \E c \in coming : ChunkReceived(c)
        \/ Delivered \/ ConnectionFailed \/ Arrive \/ LeaveStop \/ Tick

Spec == Init /\ [][Next]_vars

-----------------------------------------------------------------------------
(* Properties.                                                             *)

AssumedPolicy ==
  IF test THEN "TEST"
  ELSE CASE policy = "OPPORTUNITY" -> "EVERYTHING"
         [] policy = "ADAPTIVE_GP" -> "TIMELINE"
         [] OTHER -> policy

\* UpDaemon, for the sake of GetNext: what GetNext does not read is arbitrary.
D == INSTANCE UpDaemon WITH
       AP <- Ap, NumStops <- Len(PathAps),
       StopTasks <- [i \in DOMAIN PathAps |-> {PathAps[i]} \ {0}],
       StopLoc <- PathAps, Road <- -1, InitLoc <- -2,
       Policies <- {}, Lossy <- FALSE,
       policy <- AssumedPolicy,
       dataChunks <- {c.id : c \in ToSet(dataChunks)},
       dirty <- 0, path <- 0, task <- 0, timeoutId <- 0, sess <- 0, report <- 0,
       rx <- 0, timeouts <- 0, initDue <- 0, due <- 0, legs <- 0, pos <- 0,
       moving <- 0, term <- 0

DirtyBits ==
  [c \in Chunk |-> LET of == {e \in ToSet(dataChunks) : e.id = c}
                   IN UNION {e.dirty : e \in of}]

\* Every chunk a policy can choose, whatever the priorities, deadlines, sizes, the
\* measured rate, the time and the state of the list, is one that UpDaemon's choice
\* allows, and a policy finds nothing only where that choice may find nothing: what
\* the daemon's runs and proofs say covers the policies of the code.
ChoiceAsAssumed ==
  run = "on" =>
    GetNextDataChunk(dataChunks, joinedAId, currentRate)
      \subseteq D!GetNext(joinedAId, DirtyBits)

\* When nothing planned for the access point is left, the policies that estimate the
\* upload choose, of the chunks that fit the access point's time, the first one of
\* highest priority and then smallest size -- but only of those from the last one on
\* that meets its deadline: an older chunk in time supersedes every newer one.
LastInTimeWins ==
  LET ls     == dataChunks
      fit    == {i \in DOMAIN ls : ls[i] \in Fitting(ls, joinedAId, currentRate)}
      inTime == {i \in fit : Meets(ls[i], currentRate)}
      from   == {i \in fit : \A k \in inTime : k <= i}
      Worse(d, c) == \/ d.priority < c.priority
                     \/ d.priority = c.priority /\ d.size > c.size
  IN run = "on" /\ policy \in {"TIMELINE", "ADAPTIVE_GP"} /\ joinedAId # None
        /\ ~Left(ls, joinedAId) /\ fit # {} =>
       \E i \in from :
         /\ GetNextDataChunk(ls, joinedAId, currentRate) = {ls[i].id}
         /\ \A k \in from : IF k < i THEN Worse(ls[k], ls[i])
                            ELSE ~Worse(ls[i], ls[k])
=============================================================================
