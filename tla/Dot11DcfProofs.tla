-------------------------- MODULE Dot11DcfProofs --------------------------
(***************************************************************************)
(* Theorems about Dot11Dcf, for every set of stations, whoever hears whom, *)
(* every traffic and all limits: a station that receives is ready to, no   *)
(* wait is without an end, and data is handed up once and in order.        *)
(***************************************************************************)
EXTENDS Dot11Dcf, TLAPS

-----------------------------------------------------------------------------
(* The inductive invariant: types.                                         *)

States == WaitingForResponse \cup Transmitting
          \cup {"IDLE", "CONTENDING", "WFNAV", "HEADER_CHECK_MODE"}

Stations ==
    [state : States, timer : BOOLEAN, nav : BOOLEAN, cut : BOOLEAN,
     currentMessage : Messages \cup {None}, SSRC : 0 .. RetryLimit,
     SLRC : 0 .. RetryLimit, beaconIsDue : BOOLEAN, mgmtSendResponse : BOOLEAN,
     mngmtQueue : Seq(Messages), dataQueue : Seq(Messages),
     lastSeq : [Nodes -> Nat]]

Typed ==
    /\ mac \in [Nodes -> Stations]
    /\ offered \in [Nodes -> Seq(Messages)]
    /\ network \in [Nodes -> Seq(Messages)]
    /\ tx \in [Nodes -> Frames \cup {None}]
    /\ lock \in [Nodes -> Frames \cup {None}]
    /\ hears \in [Nodes -> SUBSET Nodes]
    /\ handed \in [Nodes -> Seq(Frames)]
    /\ fresh \subseteq InRange

-----------------------------------------------------------------------------
(* The inductive invariant: a station and its radio.                       *)

Contending == {"CONTENDING", "WFNAV"}

(* The states of the exchange of the frame in the local buffer.             *)
Exchange == {"X_RTS", "WFCTS", "X_UNICAST", "WFACK", "X_BROADCAST"}

HasToSend(s) == s.currentMessage # None \/ s.mngmtQueue # <<>>

IsData(c) == c # None /\ c.kind = "data"

(* Who waits for the channel has something to send, who waits has a timer,  *)
(* and an exchange is about the frame in the local buffer.                  *)
StationSound(s) ==
    /\ s.state \in Contending => HasToSend(s)
    /\ s.state \in WaitingForResponse \cup Contending => s.timer \/ s.cut
    /\ s.state \in Exchange =>
          /\ s.currentMessage # None
          /\ (s.currentMessage.to = Everyone) <=> (s.state = "X_BROADCAST")

(* A frame of data on the air is the one in the local buffer.               *)
Carries(frame, s) ==
    frame.kind = "data" =>
        /\ s.state \in {"X_UNICAST", "X_BROADCAST"}
        /\ IsData(s.currentMessage)
        /\ s.currentMessage.id = frame.id /\ s.currentMessage.to = frame.to

(* The MAC and the radio agree on who sends, and nobody who receives or     *)
(* senses a signal waits for the channel.                                   *)
RadioSound(n) ==
    /\ (tx[n] # None) <=> (mac[n].state \in Transmitting)
    /\ tx[n] # None => lock[n] = None /\ tx[n].from = n /\ Carries(tx[n], mac[n])
    /\ mac[n].state \in Contending => lock[n] = None /\ hears[n] = {}

-----------------------------------------------------------------------------
(* The inductive invariant: the order of the data.                         *)

Ids(q) == {q[i].id : i \in 1 .. Len(q)}
Ordered(q) == \A i, j \in 1 .. Len(q) : i < j => q[i].id < q[j].id
Below(x, q) == \A y \in Ids(q) : x < y

OnPath(path, q) ==
    \A i \in 1 .. Len(q) :
        /\ q[i].via \in {path, "mgmt"}
        /\ q[i].via = "mgmt" => q[i].kind # "data"

(* What a station has taken from above and what it has yet to take is in    *)
(* order, and data goes one way only.                                       *)
Lined(s, net, off) ==
    /\ Ordered(net) /\ Ordered(s.dataQueue) /\ Ordered(off)
    /\ \A x \in Ids(net) \cup Ids(s.dataQueue) : Below(x, off)
    /\ \/ s.dataQueue = <<>> /\ OnPath("network", off)
       \/ net = <<>> /\ OnPath("data", off)
    /\ \A i \in 1 .. Len(s.mngmtQueue) : s.mngmtQueue[i].kind # "data"
    /\ IsData(s.currentMessage) =>
          /\ Below(s.currentMessage.id, net)
          /\ Below(s.currentMessage.id, s.dataQueue)
          /\ Below(s.currentMessage.id, off)

Waiting(m) == Ids(network[m]) \cup Ids(mac[m].dataQueue) \cup Ids(offered[m])

(* Nothing that m has yet to send comes before number x.                    *)
Reached(m, x) ==
    /\ \A y \in Waiting(m) : x < y
    /\ IsData(mac[m].currentMessage) => x <= mac[m].currentMessage.id

(* The places in n's history that are data of m.                            *)
DataOf(m, n) ==
    {i \in 1 .. Len(handed[n]) : handed[n][i].from = m /\ handed[n][i].kind = "data"}

(* What m has got through to n lies behind it, and if it is what m is still *)
(* busy with, n knows its number.                                           *)
Known1(m, n) ==
    \A i \in DataOf(m, n) :
        /\ Reached(m, handed[n][i].id)
        /\ IsData(mac[m].currentMessage) /\ mac[m].currentMessage.id = handed[n][i].id
           => mac[m].currentMessage.to # Everyone /\ mac[n].lastSeq[m] = handed[n][i].id

(* The data of m that n is receiving is no older than all it has handed up, *)
(* and no newer than what m is busy with.                                   *)
Receives(m, n) ==
    lock[n] # None /\ lock[n].kind = "data" /\ lock[n].from = m =>
        /\ Reached(m, lock[n].id)
        /\ IsData(mac[m].currentMessage) /\ mac[m].currentMessage.id = lock[n].id =>
              /\ lock[n].to = mac[m].currentMessage.to
              /\ lock[n].to = Everyone => mac[m].state = "X_BROADCAST"
        /\ \A i \in DataOf(m, n) :
              /\ handed[n][i].id <= lock[n].id
              /\ handed[n][i].id = lock[n].id =>
                    lock[n].to # Everyone /\ mac[n].lastSeq[m] = handed[n][i].id

IInv ==
    /\ Typed
    /\ \A n \in Nodes : RadioSound(n) /\ StationSound(mac[n])
    /\ \A n \in Nodes : Lined(mac[n], network[n], offered[n])
    /\ \A m, n \in Nodes : Known1(m, n) /\ Receives(m, n)
    /\ HandedOnce

-----------------------------------------------------------------------------
(* Facts about queues.                                                     *)

LEMMA TailFacts ==
    ASSUME NEW q \in Seq(Messages), q # <<>>
    PROVE  /\ Tail(q) \in Seq(Messages) /\ Head(q) \in Messages
           /\ Head(q).id \in Ids(q) /\ Ids(Tail(q)) \subseteq Ids(q)
           /\ Ordered(q) => Ordered(Tail(q)) /\ Below(Head(q).id, Tail(q))
           /\ \A path : OnPath(path, q) => OnPath(path, Tail(q))
<1>1. /\ Tail(q) \in Seq(Messages) /\ Head(q) \in Messages /\ Head(q) = q[1]
      /\ Len(q) \in Nat \ {0} /\ Len(Tail(q)) = Len(q) - 1
      /\ \A i \in 1 .. Len(q) - 1 : Tail(q)[i] = q[i + 1] /\ i + 1 \in 1 .. Len(q)
  OBVIOUS
<1>2. Head(q).id \in Ids(q) /\ Ids(Tail(q)) \subseteq Ids(q)
  BY <1>1 DEF Ids
<1>3. Ordered(q) => Ordered(Tail(q))
  BY <1>1 DEF Ordered
<1>4. Ordered(q) => Below(Head(q).id, Tail(q))
  BY <1>1 DEF Ordered, Below, Ids
<1>5. \A path : OnPath(path, q) => OnPath(path, Tail(q))
  BY <1>1 DEF OnPath
<1> QED
  BY <1>1, <1>2, <1>3, <1>4, <1>5

LEMMA AppendFacts ==
    ASSUME NEW q \in Seq(Messages), NEW e \in Messages
    PROVE  /\ Append(q, e) \in Seq(Messages)
           /\ Append(q, e) # <<>>
           /\ Ids(Append(q, e)) = Ids(q) \cup {e.id}
           /\ Ordered(q) /\ (\A x \in Ids(q) : x < e.id) => Ordered(Append(q, e))
           /\ (\A i \in 1 .. Len(q) : q[i].kind # "data") /\ e.kind # "data"
              => \A i \in 1 .. Len(Append(q, e)) : Append(q, e)[i].kind # "data"
<1>1. /\ Append(q, e) \in Seq(Messages) /\ Len(Append(q, e)) = Len(q) + 1
      /\ Len(q) \in Nat
      /\ \A i \in 1 .. Len(q) : Append(q, e)[i] = q[i] /\ i \in 1 .. Len(q) + 1
      /\ Append(q, e)[Len(q) + 1] = e
      /\ \A i \in 1 .. Len(q) + 1 : i \in 1 .. Len(q) \/ i = Len(q) + 1
  OBVIOUS
<1>2. Ids(Append(q, e)) = Ids(q) \cup {e.id}
  BY <1>1 DEF Ids
<1>3. ASSUME Ordered(q), \A x \in Ids(q) : x < e.id PROVE Ordered(Append(q, e))
  BY <1>1, <1>3 DEF Ordered, Ids
<1>4. Append(q, e) # <<>>
  BY <1>1
<1>5. (\A i \in 1 .. Len(q) : q[i].kind # "data") /\ e.kind # "data"
      => \A i \in 1 .. Len(Append(q, e)) : Append(q, e)[i].kind # "data"
  BY <1>1
<1> QED
  BY <1>1, <1>2, <1>3, <1>4, <1>5

LEMMA IdsAreNumbers ==
    ASSUME NEW q \in Seq(Messages)
    PROVE  Ids(q) \subseteq Nat
<1>1. \A i \in 1 .. Len(q) : q[i] \in Messages
  OBVIOUS
<1>2. \A x \in Messages : x.id \in Nat
  BY DEF Messages
<1> QED
  BY <1>1, <1>2 DEF Ids

-----------------------------------------------------------------------------
(* Outcomes of handlers.                                                   *)

Outcomes ==
    [s : Stations, send : Frames \cup {None}, up : Seq(Frames),
     ok : SUBSET (Nat \X (Nodes \cup {Everyone})), net : Seq(Messages)]

(* The queues and the local buffer are left alone.                          *)
SameLine(o, r) ==
    /\ r.s.currentMessage = o.s.currentMessage
    /\ r.s.mngmtQueue = o.s.mngmtQueue /\ r.s.dataQueue = o.s.dataQueue
    /\ r.net = o.net

(* Nothing is handed up.                                                    *)
Silent(o, r) == r.up = o.up /\ r.s.lastSeq = o.s.lastSeq

(* The station keeps the order, and goes on with the data in its buffer or  *)
(* takes the next of its queues.                                            *)
Follows(o, r) ==
    \A off \in Seq(Messages) : Lined(o.s, o.net, off) =>
        /\ Lined(r.s, r.net, off)
        /\ Ids(r.net) \subseteq Ids(o.net)
        /\ Ids(r.s.dataQueue) \subseteq Ids(o.s.dataQueue)
        /\ IsData(r.s.currentMessage) =>
              \/ /\ r.s.currentMessage = o.s.currentMessage
                 /\ o.s.state = "X_BROADCAST" => r.s.state = "X_BROADCAST"
              \/ r.s.currentMessage.id \in Ids(o.net) \cup Ids(o.s.dataQueue)

(* The exchange of a broadcast does not end before it has been sent.        *)
NotInBroadcast(o) == o.s.state # "X_BROADCAST" \/ o.s.currentMessage = None

(* What a radio is told to send is the station's, with its data.            *)
Sends1(n, r) ==
    /\ (r.send # None) <=> (r.s.state \in Transmitting)
    /\ r.send # None => r.send.from = n /\ Carries(r.send, r.s)

(* A handler of a station that was not sending ends well.                   *)
Ready(n, r, idle) ==
    /\ StationSound(r.s)
    /\ r.s.state \in Contending => idle
    /\ Sends1(n, r)

(* ... and sends nothing.                                                   *)
Calm(r, idle) ==
    /\ r.send = None /\ r.s.state \notin Transmitting
    /\ StationSound(r.s)
    /\ r.s.state \in Contending => idle

LEMMA CalmIsReady ==
    ASSUME NEW n \in Nodes, NEW r \in Outcomes, NEW idle \in BOOLEAN, Calm(r, idle)
    PROVE  Ready(n, r, idle)
BY DEF Calm, Ready, Sends1

LEMMA FollowsSame ==
    ASSUME NEW o \in Outcomes, NEW r \in Outcomes, SameLine(o, r),
           NotInBroadcast(o) \/ r.s.state = o.s.state
    PROVE  Follows(o, r)
<1> SUFFICES ASSUME NEW off \in Seq(Messages), Lined(o.s, o.net, off)
             PROVE  /\ Lined(r.s, r.net, off)
                    /\ IsData(r.s.currentMessage) /\ o.s.state = "X_BROADCAST"
                       => r.s.state = "X_BROADCAST"
  BY DEF Follows, SameLine
<1>1. Lined(r.s, r.net, off)
  BY DEF SameLine, Lined
<1>2. IsData(r.s.currentMessage) /\ o.s.state = "X_BROADCAST" => r.s.state = "X_BROADCAST"
  BY DEF SameLine, NotInBroadcast, IsData
<1> QED
  BY <1>1, <1>2

LEMMA FollowsOn ==
    ASSUME NEW o \in Outcomes, NEW p \in Outcomes, NEW r \in Outcomes,
           Follows(o, p), Follows(p, r)
    PROVE  Follows(o, r)
<1> SUFFICES ASSUME NEW off \in Seq(Messages), Lined(o.s, o.net, off)
             PROVE  /\ Lined(r.s, r.net, off)
                    /\ Ids(r.net) \subseteq Ids(o.net)
                    /\ Ids(r.s.dataQueue) \subseteq Ids(o.s.dataQueue)
                    /\ IsData(r.s.currentMessage) =>
                          \/ /\ r.s.currentMessage = o.s.currentMessage
                             /\ o.s.state = "X_BROADCAST" => r.s.state = "X_BROADCAST"
                          \/ r.s.currentMessage.id \in Ids(o.net) \cup Ids(o.s.dataQueue)
  BY DEF Follows
<1>1. /\ Lined(p.s, p.net, off)
      /\ Ids(p.net) \subseteq Ids(o.net)
      /\ Ids(p.s.dataQueue) \subseteq Ids(o.s.dataQueue)
      /\ IsData(p.s.currentMessage) =>
            \/ /\ p.s.currentMessage = o.s.currentMessage
               /\ o.s.state = "X_BROADCAST" => p.s.state = "X_BROADCAST"
            \/ p.s.currentMessage.id \in Ids(o.net) \cup Ids(o.s.dataQueue)
  BY DEF Follows
<1>2. /\ Lined(r.s, r.net, off)
      /\ Ids(r.net) \subseteq Ids(p.net)
      /\ Ids(r.s.dataQueue) \subseteq Ids(p.s.dataQueue)
      /\ IsData(r.s.currentMessage) =>
            \/ /\ r.s.currentMessage = p.s.currentMessage
               /\ p.s.state = "X_BROADCAST" => r.s.state = "X_BROADCAST"
            \/ r.s.currentMessage.id \in Ids(p.net) \cup Ids(p.s.dataQueue)
  BY <1>1 DEF Follows
<1> QED
  BY <1>1, <1>2

LEMMA SetStateIs ==
    ASSUME NEW o \in Outcomes, NEW x \in States
    PROVE  /\ SetState(o, x) \in Outcomes
           /\ SameLine(o, SetState(o, x)) /\ Silent(o, SetState(o, x))
           /\ SetState(o, x).s.state = x /\ SetState(o, x).send = o.send
           /\ SetState(o, x).s.timer = o.s.timer /\ SetState(o, x).s.cut = o.s.cut
           /\ SetState(o, x).s.nav = o.s.nav /\ SetState(o, x).ok = o.ok
           /\ SetState(o, x).s.beaconIsDue = o.s.beaconIsDue
BY DEF SetState, Outcomes, Stations, SameLine, Silent

LEMMA StartTimerIs ==
    ASSUME NEW o \in Outcomes
    PROVE  /\ StartTimer(o) \in Outcomes
           /\ SameLine(o, StartTimer(o)) /\ Silent(o, StartTimer(o))
           /\ StartTimer(o).s.state = o.s.state /\ StartTimer(o).send = o.send
           /\ StartTimer(o).s.timer
BY DEF StartTimer, Outcomes, Stations, SameLine, Silent

LEMMA CancelTimerIs ==
    ASSUME NEW o \in Outcomes
    PROVE  /\ CancelTimer(o) \in Outcomes
           /\ SameLine(o, CancelTimer(o)) /\ Silent(o, CancelTimer(o))
           /\ CancelTimer(o).s.state = o.s.state /\ CancelTimer(o).send = o.send
           /\ CancelTimer(o).s.nav = o.s.nav /\ CancelTimer(o).s.cut = o.s.cut
           /\ CancelTimer(o).s.SSRC = o.s.SSRC /\ CancelTimer(o).s.SLRC = o.s.SLRC
BY DEF CancelTimer, Outcomes, Stations, SameLine, Silent

LEMMA TransmitIs ==
    ASSUME NEW o \in Outcomes, NEW x \in States, NEW frame \in Frames
    PROVE  /\ Transmit(o, x, frame) \in Outcomes
           /\ SameLine(o, Transmit(o, x, frame)) /\ Silent(o, Transmit(o, x, frame))
           /\ Transmit(o, x, frame).s.state = x /\ Transmit(o, x, frame).send = frame
           /\ Transmit(o, x, frame).s.mgmtSendResponse = o.s.mgmtSendResponse
BY DEF Transmit, Outcomes, Stations, SameLine, Silent

(* A frame is not None.                                                     *)
LEMMA FrameIs ==
    ASSUME NEW k \in Kinds \cup {"rts", "cts", "ack", "beacon"}, NEW from \in Nodes,
           NEW to \in Nodes \cup {Everyone}, NEW id \in Nat,
           k \in Kinds <=> id # 0
    PROVE  /\ Frame(k, from, to, id) \in Frames
           /\ Frame(k, from, to, id).kind = k /\ Frame(k, from, to, id).from = from
           /\ Frame(k, from, to, id).to = to /\ Frame(k, from, to, id).id = id
BY DEF Frame, Frames, Kinds

LEMMA NotNone ==
    /\ \A f \in Frames : f # None
    /\ \A m \in Messages : m # None
BY DcfAssumption DEF DcfAssumption

-----------------------------------------------------------------------------
(* The station's own handlers.                                             *)

LEMMA AttemptToContendIs ==
    ASSUME NEW o \in Outcomes, NEW idle \in BOOLEAN,
           o.send = None, HasToSend(o.s), NotInBroadcast(o)
    PROVE  /\ AttemptToContend(o, idle) \in Outcomes
           /\ Calm(AttemptToContend(o, idle), idle)
           /\ Follows(o, AttemptToContend(o, idle))
           /\ Silent(o, AttemptToContend(o, idle))
<1> DEFINE r == AttemptToContend(o, idle)
<1>1. CASE ~idle
  <2>1. "IDLE" \in States
    BY DEF States
  <2> DEFINE p == SetState(o, "IDLE")
  <2>2. /\ p \in Outcomes /\ SameLine(o, p) /\ Silent(o, p)
        /\ p.s.state = "IDLE" /\ p.send = o.send
    BY <2>1, SetStateIs
  <2>3. r = CancelTimer(p)
    BY <1>1 DEF AttemptToContend
  <2> HIDE DEF p
  <2>4. /\ r \in Outcomes /\ SameLine(p, r) /\ Silent(p, r)
        /\ r.s.state = "IDLE" /\ r.send = None
    BY <2>2, <2>3, CancelTimerIs
  <2> HIDE DEF r
  <2>5. SameLine(o, r) /\ Silent(o, r)
    BY <2>2, <2>4 DEF SameLine, Silent
  <2>6. Follows(o, r)
    BY <2>4, <2>5, FollowsSame
  <2>7. Calm(r, idle)
    BY <2>4 DEF Calm, StationSound, Transmitting, Contending, WaitingForResponse, Exchange
  <2> QED
    BY <2>4, <2>5, <2>6, <2>7 DEF r
<1>2. CASE idle
  <2> DEFINE x == IF o.s.nav THEN "WFNAV" ELSE "CONTENDING"
  <2>1. x \in States /\ x \in Contending
    BY DEF States, Contending
  <2> HIDE DEF x
  <2> DEFINE p == SetState(o, x)
  <2>2. /\ p \in Outcomes /\ SameLine(o, p) /\ Silent(o, p)
        /\ p.s.state = x /\ p.send = o.send
    BY <2>1, SetStateIs
  <2>3. r = StartTimer(p)
    BY <1>2 DEF AttemptToContend, x
  <2> HIDE DEF p
  <2>4. /\ r \in Outcomes /\ SameLine(p, r) /\ Silent(p, r)
        /\ r.s.state = x /\ r.send = None /\ r.s.timer
    BY <2>2, <2>3, StartTimerIs
  <2> HIDE DEF r
  <2>5. SameLine(o, r) /\ Silent(o, r)
    BY <2>2, <2>4 DEF SameLine, Silent
  <2>6. Follows(o, r)
    BY <2>4, <2>5, FollowsSame
  <2>7. HasToSend(r.s)
    BY <2>5 DEF SameLine, HasToSend
  <2>8. Calm(r, idle)
    BY <1>2, <2>1, <2>4, <2>7
    DEF Calm, StationSound, Transmitting, Contending, WaitingForResponse, Exchange
  <2> QED
    BY <2>4, <2>5, <2>6, <2>8 DEF r
<1> QED
  BY <1>1, <1>2

(* A station with an empty local buffer that takes the first of a queue.    *)
LEMMA DataQueueDequeueIs ==
    ASSUME NEW o \in Outcomes, o.s.currentMessage = None, o.s.dataQueue # <<>>
    PROVE  LET r == DataQueueDequeue(o) IN
           /\ r \in Outcomes /\ Silent(o, r) /\ Follows(o, r)
           /\ r.send = o.send /\ r.ok = o.ok
           /\ r.s.state = o.s.state /\ r.s.timer = o.s.timer /\ r.s.cut = o.s.cut
           /\ r.s.currentMessage # None
<1> DEFINE r == DataQueueDequeue(o)
<1> DEFINE q == o.s.dataQueue
<1>1. q \in Seq(Messages)
  BY DEF Outcomes, Stations
<1>2. /\ Tail(q) \in Seq(Messages) /\ Head(q) \in Messages
      /\ Head(q).id \in Ids(q) /\ Ids(Tail(q)) \subseteq Ids(q)
      /\ Ordered(q) => Ordered(Tail(q)) /\ Below(Head(q).id, Tail(q))
  BY <1>1, TailFacts
<1>3. /\ r \in Outcomes /\ Silent(o, r) /\ r.send = o.send /\ r.ok = o.ok
      /\ r.s.state = o.s.state /\ r.s.timer = o.s.timer /\ r.s.cut = o.s.cut
      /\ r.s.currentMessage = Head(q) /\ r.s.mngmtQueue = o.s.mngmtQueue
      /\ r.s.dataQueue = Tail(q) /\ r.net = o.net
  BY <1>2 DEF DataQueueDequeue, Outcomes, Stations, Silent
<1> HIDE DEF r
<1>4. ASSUME NEW off \in Seq(Messages), Lined(o.s, o.net, off)
      PROVE  Lined(r.s, r.net, off)
  <2>1. /\ Ordered(o.net) /\ Ordered(q) /\ Ordered(off)
        /\ \A x \in Ids(o.net) \cup Ids(q) : Below(x, off)
        /\ o.net = <<>> /\ OnPath("data", off)
        /\ \A i \in 1 .. Len(o.s.mngmtQueue) : o.s.mngmtQueue[i].kind # "data"
    BY <1>4 DEF Lined
  <2>2. Below(Head(q).id, o.net)
    BY <2>1 DEF Below, Ids
  <2> QED
    BY <1>2, <1>3, <2>1, <2>2 DEF Lined
<1>5. Follows(o, r)
  BY <1>2, <1>3, <1>4 DEF Follows
<1> QED
  BY <1>2, <1>3, <1>5, NotNone DEF r

LEMMA NetworkDequeueIs ==
    ASSUME NEW o \in Outcomes, o.s.currentMessage = None, o.net # <<>>
    PROVE  LET r == NetworkDequeue(o) IN
           /\ r \in Outcomes /\ Silent(o, r) /\ Follows(o, r)
           /\ r.send = o.send /\ r.ok = o.ok
           /\ r.s.state = o.s.state /\ r.s.timer = o.s.timer /\ r.s.cut = o.s.cut
           /\ r.s.currentMessage # None
<1> DEFINE r == NetworkDequeue(o)
<1> DEFINE q == o.net
<1>1. q \in Seq(Messages)
  BY DEF Outcomes
<1>2. /\ Tail(q) \in Seq(Messages) /\ Head(q) \in Messages
      /\ Head(q).id \in Ids(q) /\ Ids(Tail(q)) \subseteq Ids(q)
      /\ Ordered(q) => Ordered(Tail(q)) /\ Below(Head(q).id, Tail(q))
  BY <1>1, TailFacts
<1>3. /\ r \in Outcomes /\ Silent(o, r) /\ r.send = o.send /\ r.ok = o.ok
      /\ r.s.state = o.s.state /\ r.s.timer = o.s.timer /\ r.s.cut = o.s.cut
      /\ r.s.currentMessage = Head(q) /\ r.s.mngmtQueue = o.s.mngmtQueue
      /\ r.s.dataQueue = o.s.dataQueue /\ r.net = Tail(q)
  BY <1>2 DEF NetworkDequeue, Outcomes, Stations, Silent
<1> HIDE DEF r
<1>4. ASSUME NEW off \in Seq(Messages), Lined(o.s, o.net, off)
      PROVE  Lined(r.s, r.net, off)
  <2>1. /\ Ordered(q) /\ Ordered(o.s.dataQueue) /\ Ordered(off)
        /\ \A x \in Ids(q) \cup Ids(o.s.dataQueue) : Below(x, off)
        /\ o.s.dataQueue = <<>> /\ OnPath("network", off)
        /\ \A i \in 1 .. Len(o.s.mngmtQueue) : o.s.mngmtQueue[i].kind # "data"
    BY <1>4 DEF Lined
  <2>2. Below(Head(q).id, o.s.dataQueue)
    BY <2>1 DEF Below, Ids
  <2> QED
    BY <1>2, <1>3, <2>1, <2>2 DEF Lined
<1>5. Follows(o, r)
  BY <1>2, <1>3, <1>4 DEF Follows
<1> QED
  BY <1>2, <1>3, <1>5, NotNone DEF r

(* The queues are emptied in their order.                                   *)
LEMMA MoveIs ==
    ASSUME NEW o \in Outcomes
    PROVE  LET r == MoveAPacketToTheLocalBuffer(o) IN
           /\ r \in Outcomes /\ Silent(o, r) /\ Follows(o, r)
           /\ r.send = o.send /\ r.ok = o.ok
           /\ r.s.state = o.s.state /\ r.s.timer = o.s.timer /\ r.s.cut = o.s.cut
           /\ HasToSend(o.s) => r.s.currentMessage # None
           /\ o.s.currentMessage # None => r = o
<1> DEFINE r == MoveAPacketToTheLocalBuffer(o)
<1>1. CASE o.s.currentMessage # None
  <2>1. r = o
    BY <1>1 DEF MoveAPacketToTheLocalBuffer
  <2>2. SameLine(o, o) /\ Silent(o, o)
    BY DEF SameLine, Silent
  <2>3. Follows(o, o)
    BY <2>2, FollowsSame
  <2> QED
    BY <1>1, <2>1, <2>2, <2>3
<1>2. CASE o.s.currentMessage = None /\ o.s.mngmtQueue # <<>>
  <2>1. r = MgmtQueueDequeue(o)
    BY <1>2 DEF MoveAPacketToTheLocalBuffer
  <2> HIDE DEF r
  <2>2. o.s.mngmtQueue \in Seq(Messages)
    BY DEF Outcomes, Stations
  <2>3. Tail(o.s.mngmtQueue) \in Seq(Messages) /\ Head(o.s.mngmtQueue) \in Messages
    BY <1>2, <2>2, TailFacts
  <2>4. /\ r \in Outcomes /\ Silent(o, r) /\ r.send = o.send /\ r.ok = o.ok
        /\ r.s.state = o.s.state /\ r.s.timer = o.s.timer /\ r.s.cut = o.s.cut
        /\ r.s.currentMessage = Head(o.s.mngmtQueue)
        /\ r.s.mngmtQueue = Tail(o.s.mngmtQueue)
        /\ r.s.dataQueue = o.s.dataQueue /\ r.net = o.net
    BY <2>1, <2>3 DEF MgmtQueueDequeue, Outcomes, Stations, Silent
  <2>5. ASSUME NEW off \in Seq(Messages), Lined(o.s, o.net, off)
        PROVE  Lined(r.s, r.net, off) /\ ~IsData(r.s.currentMessage)
    <3>1. \A i \in 1 .. Len(o.s.mngmtQueue) : o.s.mngmtQueue[i].kind # "data"
      BY <2>5 DEF Lined
    <3>2. \A i \in 1 .. Len(Tail(o.s.mngmtQueue)) : Tail(o.s.mngmtQueue)[i].kind # "data"
      BY <1>2, <2>2, <3>1
    <3>3. Head(o.s.mngmtQueue).kind # "data"
      BY <1>2, <2>2, <3>1
    <3>4. ~IsData(r.s.currentMessage)
      BY <2>4, <3>3 DEF IsData
    <3> QED
      BY <2>4, <2>5, <3>2, <3>4 DEF Lined
  <2>6. Follows(o, r)
    BY <2>4, <2>5 DEF Follows
  <2>7. r.s.currentMessage # None
    BY <2>3, <2>4, NotNone
  <2> QED
    BY <1>2, <2>4, <2>6, <2>7 DEF r
<1>3. CASE o.s.currentMessage = None /\ o.s.mngmtQueue = <<>> /\ o.s.dataQueue # <<>>
  <2>1. r = DataQueueDequeue(o)
    BY <1>3 DEF MoveAPacketToTheLocalBuffer
  <2> QED
    BY <1>3, <2>1, DataQueueDequeueIs
<1>4. CASE /\ o.s.currentMessage = None /\ o.s.mngmtQueue = <<>>
           /\ o.s.dataQueue = <<>> /\ o.net # <<>>
  <2>1. r = NetworkDequeue(o)
    BY <1>4 DEF MoveAPacketToTheLocalBuffer
  <2> QED
    BY <1>4, <2>1, NetworkDequeueIs
<1>5. CASE /\ o.s.currentMessage = None /\ o.s.mngmtQueue = <<>>
           /\ o.s.dataQueue = <<>> /\ o.net = <<>>
  <2>1. r = o
    BY <1>5 DEF MoveAPacketToTheLocalBuffer
  <2>2. SameLine(o, o) /\ Silent(o, o)
    BY DEF SameLine, Silent
  <2>3. Follows(o, o)
    BY <2>2, FollowsSame
  <2> QED
    BY <1>5, <2>1, <2>2, <2>3 DEF HasToSend
<1> QED
  BY <1>1, <1>2, <1>3, <1>4, <1>5

(* Back to idle, without a timer.                                           *)
LEMMA GoIdleIs ==
    ASSUME NEW o \in Outcomes, o.send = None, NotInBroadcast(o)
    PROVE  LET r == CancelTimer(SetState(o, "IDLE")) IN
           /\ r \in Outcomes /\ r.send = None /\ r.s.state = "IDLE"
           /\ Silent(o, r) /\ SameLine(o, r) /\ Follows(o, r)
           /\ Calm(r, FALSE)
<1> DEFINE p == SetState(o, "IDLE")
<1> DEFINE r == CancelTimer(p)
<1>1. "IDLE" \in States
  BY DEF States
<1>2. /\ p \in Outcomes /\ SameLine(o, p) /\ Silent(o, p)
      /\ p.s.state = "IDLE" /\ p.send = None
  BY <1>1, SetStateIs
<1> HIDE DEF p
<1>3. /\ r \in Outcomes /\ SameLine(p, r) /\ Silent(p, r)
      /\ r.s.state = "IDLE" /\ r.send = None
  BY <1>2, CancelTimerIs
<1> HIDE DEF r
<1>4. SameLine(o, r) /\ Silent(o, r)
  BY <1>2, <1>3 DEF SameLine, Silent
<1>5. Follows(o, r)
  BY <1>3, <1>4, FollowsSame
<1>6. Calm(r, FALSE)
  BY <1>3 DEF Calm, StationSound, Transmitting, Contending, WaitingForResponse, Exchange
<1> QED
  BY <1>3, <1>4, <1>5, <1>6 DEF p, r

LEMMA WaitForBeaconIs ==
    ASSUME NEW o \in Outcomes, NEW idle \in BOOLEAN, o.send = None, NotInBroadcast(o)
    PROVE  LET r == WaitForBeacon(o) IN
           r \in Outcomes /\ Silent(o, r) /\ Follows(o, r) /\ Calm(r, idle)
<1> DEFINE p == SetState(o, "WFBEACON")
<1> DEFINE r == StartTimer(p)
<1>1. "WFBEACON" \in States
  BY DEF States, WaitingForResponse
<1>2. /\ p \in Outcomes /\ SameLine(o, p) /\ Silent(o, p)
      /\ p.s.state = "WFBEACON" /\ p.send = None
  BY <1>1, SetStateIs
<1> HIDE DEF p
<1>3. /\ r \in Outcomes /\ SameLine(p, r) /\ Silent(p, r)
      /\ r.s.state = "WFBEACON" /\ r.send = None /\ r.s.timer
  BY <1>2, StartTimerIs
<1> HIDE DEF r
<1>4. SameLine(o, r) /\ Silent(o, r)
  BY <1>2, <1>3 DEF SameLine, Silent
<1>5. Follows(o, r)
  BY <1>3, <1>4, FollowsSame
<1>6. Calm(r, idle)
  BY <1>3 DEF Calm, StationSound, Transmitting, Contending, WaitingForResponse, Exchange
<1> QED
  BY <1>3, <1>4, <1>5, <1>6 DEF p, r, WaitForBeacon

LEMMA SilentOn ==
    ASSUME NEW o, NEW p, NEW r, Silent(o, p), Silent(p, r)
    PROVE  Silent(o, r)
BY DEF Silent

LEMMA CheckForOutgoingPacketIs ==
    ASSUME NEW o \in Outcomes, NEW idle \in BOOLEAN, o.send = None, NotInBroadcast(o)
    PROVE  LET r == CheckForOutgoingPacket(o, idle) IN
           r \in Outcomes /\ Silent(o, r) /\ Follows(o, r) /\ Calm(r, idle)
<1> DEFINE p == CancelTimer(SetState(o, "IDLE"))
<1> DEFINE q == MoveAPacketToTheLocalBuffer(p)
<1> DEFINE r == CheckForOutgoingPacket(o, idle)
<1>1. /\ p \in Outcomes /\ p.send = None /\ p.s.state = "IDLE"
      /\ Silent(o, p) /\ Follows(o, p)
  BY GoIdleIs
<1>2. r = IF CanHandleDueBeacon(q.s, idle) THEN WaitForBeacon(q)
          ELSE IF q.s.currentMessage = None THEN q ELSE AttemptToContend(q, idle)
  BY Zenon DEF CheckForOutgoingPacket
<1> HIDE DEF p
<1>3. /\ q \in Outcomes /\ Silent(p, q) /\ Follows(p, q)
      /\ q.send = None /\ q.s.state = "IDLE"
  BY <1>1, MoveIs
<1> HIDE DEF q, r
<1>4. Silent(o, q) /\ Follows(o, q)
  BY <1>1, <1>3, SilentOn, FollowsOn
<1>5. NotInBroadcast(q) /\ Calm(q, idle)
  BY <1>3 DEF NotInBroadcast, Calm, StationSound, Transmitting, Contending,
              WaitingForResponse, Exchange
<1>6. CASE CanHandleDueBeacon(q.s, idle)
  <2>1. r = WaitForBeacon(q)
    BY <1>2, <1>6
  <2>2. r \in Outcomes /\ Silent(q, r) /\ Follows(q, r) /\ Calm(r, idle)
    BY <2>1, <1>3, <1>5, WaitForBeaconIs
  <2> QED
    BY <2>2, <1>3, <1>4, SilentOn, FollowsOn DEF r
<1>7. CASE ~CanHandleDueBeacon(q.s, idle) /\ q.s.currentMessage = None
  <2>1. r = q
    BY <1>2, <1>7
  <2> QED
    BY <2>1, <1>3, <1>4, <1>5 DEF r
<1>8. CASE ~CanHandleDueBeacon(q.s, idle) /\ q.s.currentMessage # None
  <2>1. r = AttemptToContend(q, idle)
    BY <1>2, <1>8
  <2>2. HasToSend(q.s)
    BY <1>8 DEF HasToSend
  <2>3. r \in Outcomes /\ Silent(q, r) /\ Follows(q, r) /\ Calm(r, idle)
    BY <2>1, <2>2, <1>3, <1>5, AttemptToContendIs
  <2> QED
    BY <2>3, <1>3, <1>4, SilentOn, FollowsOn DEF r
<1> QED
  BY <1>6, <1>7, <1>8

(* A station that is idle when its radio is looks for something to send.    *)
LEMMA StartSendTimersIs ==
    ASSUME NEW n \in Nodes, NEW o \in Outcomes, Ready(n, o, TRUE)
    PROVE  LET r == StartSendTimers(o) IN
           r \in Outcomes /\ Silent(o, r) /\ Follows(o, r) /\ Ready(n, r, TRUE)
<1>1. CASE o.s.state = "IDLE"
  <2>1. o.send = None /\ NotInBroadcast(o)
    BY <1>1 DEF Ready, Sends1, Transmitting, NotInBroadcast
  <2>2. PICK yes \in BOOLEAN : yes = TRUE
    OBVIOUS
  <2>3. StartSendTimers(o) = CheckForOutgoingPacket(o, yes)
    BY Zenon, <1>1, <2>2 DEF StartSendTimers
  <2>4. LET r == CheckForOutgoingPacket(o, yes) IN
        r \in Outcomes /\ Silent(o, r) /\ Follows(o, r) /\ Calm(r, yes)
    BY <2>1, CheckForOutgoingPacketIs
  <2>5. LET r == CheckForOutgoingPacket(o, yes) IN Ready(n, r, yes)
    BY <2>4, CalmIsReady
  <2>6. Ready(n, CheckForOutgoingPacket(o, yes), TRUE)
    BY Zenon, <2>5, <2>2
  <2> QED
    BY <2>3, <2>4, <2>6
<1>2. CASE o.s.state # "IDLE"
  <2>1. StartSendTimers(o) = o
    BY Zenon, <1>2 DEF StartSendTimers
  <2>2. SameLine(o, o) /\ Silent(o, o)
    BY DEF SameLine, Silent
  <2>3. Follows(o, o)
    BY <2>2, FollowsSame
  <2> QED
    BY <2>1, <2>2, <2>3
<1> QED
  BY <1>1, <1>2

LEMMA CancelSomeTimersIs ==
    ASSUME NEW o \in Outcomes, o.send = None, o.s.state \notin Transmitting,
           StationSound(o.s)
    PROVE  LET r == CancelSomeTimers(o) IN
           r \in Outcomes /\ Silent(o, r) /\ Follows(o, r) /\ Calm(r, FALSE)
<1>1. NotInBroadcast(o)
  BY DEF NotInBroadcast, Transmitting
<1>2. CASE o.s.state \in {"CONTENDING", "WFNAV", "WFBEACON"}
  <2>1. CancelSomeTimers(o) = CancelTimer(SetState(o, "IDLE"))
    BY Zenon, <1>2 DEF CancelSomeTimers
  <2> QED
    BY <2>1, <1>1, GoIdleIs
<1>3. CASE o.s.state \notin {"CONTENDING", "WFNAV", "WFBEACON"}
  <2>1. CancelSomeTimers(o) = o
    BY Zenon, <1>3 DEF CancelSomeTimers
  <2>2. SameLine(o, o) /\ Silent(o, o)
    BY DEF SameLine, Silent
  <2>3. Follows(o, o)
    BY <2>2, FollowsSame
  <2>4. Calm(o, FALSE)
    BY <1>3 DEF Calm, Contending
  <2> QED
    BY <2>1, <2>2, <2>3, <2>4
<1> QED
  BY <1>2, <1>3

LEMMA RetryLimitIs ==
    RetryLimit \in Nat /\ RetryLimit > 0 /\ 0 \in 0 .. RetryLimit
<1>1. RetryLimit \in Nat \ {0}
  BY DcfAssumption DEF DcfAssumption
<1> QED
  BY <1>1

(* What is finished leaves the local buffer.                                *)
LEMMA FinishedIs ==
    ASSUME NEW o \in Outcomes
    PROVE  LET r == Finished(o) IN
           /\ r \in Outcomes /\ Silent(o, r) /\ Follows(o, r)
           /\ r.send = o.send /\ r.ok = o.ok /\ NotInBroadcast(r)
<1> DEFINE r == Finished(o)
<1>1. /\ r \in Outcomes /\ Silent(o, r) /\ r.send = o.send /\ r.ok = o.ok
      /\ r.s.currentMessage = None /\ r.s.mngmtQueue = o.s.mngmtQueue
      /\ r.s.dataQueue = o.s.dataQueue /\ r.net = o.net
  BY RetryLimitIs DEF Finished, Outcomes, Stations, Silent
<1> HIDE DEF r
<1>2. ~IsData(r.s.currentMessage) /\ NotInBroadcast(r)
  BY <1>1 DEF IsData, NotInBroadcast
<1>3. Follows(o, r)
  BY <1>1, <1>2 DEF Follows, Lined
<1> QED
  BY <1>1, <1>2, <1>3 DEF r

LEMMA ProcessAckIs ==
    ASSUME NEW o \in Outcomes, NEW idle \in BOOLEAN, o.send = None,
           o.s.currentMessage # None
    PROVE  LET r == ProcessAck(o, idle) IN
           r \in Outcomes /\ Silent(o, r) /\ Follows(o, r) /\ Calm(r, idle)
<1> DEFINE c == o.s.currentMessage
<1> DEFINE p == [o EXCEPT !.ok = {<<c.id, c.to>>}]
<1> DEFINE q == Finished(p)
<1> DEFINE r == CheckForOutgoingPacket(q, idle)
<1>1. <<c.id, c.to>> \in Nat \X (Nodes \cup {Everyone})
  BY DEF Outcomes, Stations, Messages
<1>2. ProcessAck(o, idle) = r
  BY Zenon DEF ProcessAck
<1>3. /\ p \in Outcomes /\ SameLine(o, p) /\ Silent(o, p)
      /\ p.s.state = o.s.state /\ p.send = None
  BY <1>1 DEF Outcomes, SameLine, Silent
<1> HIDE DEF p
<1>4. Follows(o, p)
  BY <1>3, FollowsSame
<1>5. /\ q \in Outcomes /\ Silent(p, q) /\ Follows(p, q)
      /\ q.send = None /\ NotInBroadcast(q)
  BY <1>3, FinishedIs
<1> HIDE DEF q
<1>6. r \in Outcomes /\ Silent(q, r) /\ Follows(q, r) /\ Calm(r, idle)
  BY <1>5, CheckForOutgoingPacketIs
<1> HIDE DEF r
<1>7. Silent(o, r)
  BY <1>3, <1>5, <1>6, SilentOn
<1>8. Follows(o, r)
  BY <1>3, <1>4, <1>5, <1>6, FollowsOn
<1> QED
  BY <1>2, <1>6, <1>7, <1>8

(* A counter of retries that is below the limit stays within it.            *)
LEMMA RetransmitIs ==
    ASSUME NEW o \in Outcomes, NEW idle \in BOOLEAN, o.send = None,
           o.s.state \in {"WFCTS", "WFACK"}, o.s.currentMessage # None
    PROVE  LET r == Retransmit(o, idle) IN
           r \in Outcomes /\ Silent(o, r) /\ Follows(o, r) /\ Calm(r, idle)
<1> DEFINE tried == IF o.s.state = "WFCTS" THEN o.s.SSRC ELSE o.s.SLRC
<1> DEFINE p == IF o.s.state = "WFCTS" THEN [o EXCEPT !.s.SSRC = @ + 1]
                ELSE [o EXCEPT !.s.SLRC = @ + 1]
<1> DEFINE r == Retransmit(o, idle)
<1>1. r = IF tried < RetryLimit THEN AttemptToContend(p, idle)
          ELSE CheckForOutgoingPacket(Finished(o), idle)
  BY Zenon DEF Retransmit
<1> HIDE DEF r
<1>2. CASE tried < RetryLimit
  <2>1. r = AttemptToContend(p, idle)
    BY <1>1, <1>2
  <2> HIDE DEF p
  <2>2. /\ p \in Outcomes /\ SameLine(o, p) /\ Silent(o, p)
        /\ p.s.state = o.s.state /\ p.send = None
    <3>1. CASE o.s.state = "WFCTS"
      <4>1. o.s.SSRC + 1 \in 0 .. RetryLimit
        BY <1>2, <3>1, RetryLimitIs DEF Outcomes, Stations
      <4>2. p = [o EXCEPT !.s.SSRC = @ + 1]
        BY <3>1 DEF p
      <4> QED
        BY <4>1, <4>2 DEF Outcomes, Stations, SameLine, Silent
    <3>2. CASE o.s.state # "WFCTS"
      <4>1. o.s.SLRC + 1 \in 0 .. RetryLimit
        BY <1>2, <3>2, RetryLimitIs DEF Outcomes, Stations
      <4>2. p = [o EXCEPT !.s.SLRC = @ + 1]
        BY <3>2 DEF p
      <4> QED
        BY <4>1, <4>2 DEF Outcomes, Stations, SameLine, Silent
    <3> QED
      BY <3>1, <3>2
  <2>3. HasToSend(p.s) /\ NotInBroadcast(p) /\ Follows(o, p)
    BY <2>2, FollowsSame DEF SameLine, HasToSend, NotInBroadcast
  <2>4. r \in Outcomes /\ Silent(p, r) /\ Follows(p, r) /\ Calm(r, idle)
    BY <2>1, <2>2, <2>3, AttemptToContendIs
  <2> QED
    BY <2>2, <2>3, <2>4, SilentOn, FollowsOn DEF r
<1>3. CASE ~(tried < RetryLimit)
  <2> DEFINE q == Finished(o)
  <2>1. r = CheckForOutgoingPacket(q, idle)
    BY <1>1, <1>3
  <2>2. /\ q \in Outcomes /\ Silent(o, q) /\ Follows(o, q)
        /\ q.send = None /\ NotInBroadcast(q)
    BY FinishedIs
  <2> HIDE DEF q
  <2>3. r \in Outcomes /\ Silent(q, r) /\ Follows(q, r) /\ Calm(r, idle)
    BY <2>1, <2>2, CheckForOutgoingPacketIs
  <2> QED
    BY <2>2, <2>3, SilentOn, FollowsOn DEF r
<1> QED
  BY <1>2, <1>3

-----------------------------------------------------------------------------
(* Frames received by a station that is neither sending nor waiting for the *)
(* channel.                                                                 *)

Listening(o) ==
    /\ o.send = None /\ o.up = <<>> /\ o.s.state \notin Transmitting \cup Contending
    /\ StationSound(o.s)

(* What is handed up of a frame received: nothing, or the frame, which if   *)
(* it is a data frame for this station alone has a new number.              *)
Takes(o, f, r) ==
    \/ r.up = <<>> /\ r.s.lastSeq = o.s.lastSeq
    \/ /\ r.up = <<f>>
       /\ IF f.kind = "data" /\ f.to # Everyone
          THEN /\ o.s.lastSeq[f.from] # f.id
               /\ r.s.lastSeq = [o.s.lastSeq EXCEPT ![f.from] = f.id]
          ELSE r.s.lastSeq = o.s.lastSeq

(* Both: the handler of a frame ends well.                                  *)
Answers(n, o, f, r, idle) ==
    r \in Outcomes /\ Follows(o, r) /\ Takes(o, f, r) /\ Ready(n, r, idle)

LEMMA ListeningIs ==
    ASSUME NEW n \in Nodes, NEW o \in Outcomes, NEW f \in Frames,
           NEW idle \in BOOLEAN, Listening(o)
    PROVE  NotInBroadcast(o) /\ Calm(o, idle) /\ Answers(n, o, f, o, idle)
<1>1. NotInBroadcast(o) /\ Calm(o, idle)
  BY DEF Listening, NotInBroadcast, Transmitting, Calm
<1>2. SameLine(o, o)
  BY DEF SameLine
<1>3. Follows(o, o) /\ Ready(n, o, idle)
  BY <1>1, <1>2, FollowsSame, CalmIsReady
<1>4. Takes(o, f, o)
  BY DEF Takes, Listening
<1> QED
  BY <1>1, <1>3, <1>4 DEF Answers

(* A station that acknowledges.                                             *)
LEMMA TransmitAckIs ==
    ASSUME NEW n \in Nodes, NEW o \in Outcomes, NEW to \in Nodes \cup {Everyone},
           NEW idle \in BOOLEAN, NotInBroadcast(o)
    PROVE  LET r == TransmitAck(o, n, to) IN
           /\ r \in Outcomes /\ SameLine(o, r) /\ Silent(o, r) /\ Follows(o, r)
           /\ Ready(n, r, idle) /\ r.s.state = "X_ACK"
           /\ r.s.mgmtSendResponse = o.s.mgmtSendResponse
<1> DEFINE frame == Frame("ack", n, to, 0)
<1> DEFINE r == Transmit(o, "X_ACK", frame)
<1>1. TransmitAck(o, n, to) = r
  BY DEF TransmitAck
<1>2. frame \in Frames /\ frame.kind = "ack" /\ frame.from = n
  BY DEF Frame, Frames
<1> HIDE DEF frame
<1>3. "X_ACK" \in States
  BY DEF States, Transmitting
<1>4. /\ r \in Outcomes /\ SameLine(o, r) /\ Silent(o, r)
      /\ r.s.state = "X_ACK" /\ r.send = frame
      /\ r.s.mgmtSendResponse = o.s.mgmtSendResponse
  BY <1>2, <1>3, TransmitIs
<1> HIDE DEF r
<1>5. Follows(o, r)
  BY <1>4, FollowsSame
<1>6. Ready(n, r, idle)
  BY <1>2, <1>4, NotNone
  DEF Ready, StationSound, Sends1, Carries, Contending, WaitingForResponse, Exchange,
      Transmitting
<1> QED
  BY <1>1, <1>4, <1>5, <1>6

LEMMA HandOffIs ==
    ASSUME NEW o \in Outcomes, NEW f \in Frames
    PROVE  LET r == HandOff(o, f) IN
           /\ r \in Outcomes /\ SameLine(o, r) /\ r.s = o.s /\ r.send = o.send
           /\ r.up = <<f>> /\ Follows(o, r)
<1> DEFINE r == HandOff(o, f)
<1>1. <<f>> \in Seq(Frames)
  OBVIOUS
<1>2. /\ r \in Outcomes /\ SameLine(o, r) /\ r.s = o.s /\ r.send = o.send
      /\ r.up = <<f>>
  BY <1>1 DEF HandOff, Outcomes, SameLine
<1> HIDE DEF r
<1>3. Follows(o, r)
  BY <1>2, FollowsSame
<1> QED
  BY <1>2, <1>3 DEF r

LEMMA ProcessBroadcastIs ==
    ASSUME NEW n \in Nodes, NEW o \in Outcomes, NEW f \in Frames,
           NEW idle \in BOOLEAN, Listening(o), f.to = Everyone
    PROVE  Answers(n, o, f, ProcessBroadcast(o, f, idle), idle)
<1> DEFINE p == HandOff(o, f)
<1> DEFINE r == ProcessBroadcast(o, f, idle)
<1>1. /\ p \in Outcomes /\ SameLine(o, p) /\ p.s = o.s /\ p.send = o.send
      /\ p.up = <<f>> /\ Follows(o, p)
  BY HandOffIs
<1>2. r = IF o.s.state = "IDLE" THEN CheckForOutgoingPacket(p, idle) ELSE p
  BY Zenon DEF ProcessBroadcast
<1> HIDE DEF p, r
<1>3. p.send = None /\ NotInBroadcast(p) /\ Calm(p, idle)
  BY <1>1 DEF Listening, NotInBroadcast, Transmitting, Calm
<1>4. CASE o.s.state = "IDLE"
  <2>1. r = CheckForOutgoingPacket(p, idle)
    BY <1>2, <1>4
  <2>2. r \in Outcomes /\ Silent(p, r) /\ Follows(p, r) /\ Calm(r, idle)
    BY <2>1, <1>1, <1>3, CheckForOutgoingPacketIs
  <2>3. Ready(n, r, idle) /\ Follows(o, r)
    BY <2>2, <1>1, CalmIsReady, FollowsOn
  <2>4. Takes(o, f, r)
    BY <2>2, <1>1 DEF Takes, Silent
  <2> QED
    BY <2>2, <2>3, <2>4 DEF Answers, r
<1>5. CASE o.s.state # "IDLE"
  <2>1. r = p
    BY <1>2, <1>5
  <2>2. Ready(n, p, idle)
    BY <1>1, <1>3, CalmIsReady
  <2>3. Takes(o, f, p)
    BY <1>1 DEF Takes
  <2> QED
    BY <2>1, <2>2, <2>3, <1>1 DEF Answers, r
<1> QED
  BY <1>4, <1>5

LEMMA ProcessUnicastIs ==
    ASSUME NEW n \in Nodes, NEW o \in Outcomes, NEW f \in Frames,
           NEW idle \in BOOLEAN, Listening(o), f.to = n, f.kind = "data"
    PROVE  Answers(n, o, f, ProcessUnicast(o, f), idle)
<1> DEFINE p == CancelTimer(o)
<1> DEFINE a == TransmitAck(p, n, f.from)
<1>1. f.from \in Nodes \cup {Everyone} /\ f.id \in Nat /\ f.to # Everyone
  BY DcfAssumption DEF Frames, DcfAssumption
<1>2. /\ p \in Outcomes /\ SameLine(o, p) /\ Silent(o, p) /\ p.s.state = o.s.state
  BY CancelTimerIs
<1>3. NotInBroadcast(o)
  BY ListeningIs
<1>4. ProcessUnicast(o, f) = IF CorrectSequenceNumber(o.s, f)
                             THEN HandOff([a EXCEPT !.s.lastSeq[f.from] = f.id], f)
                             ELSE a
  BY DEF ProcessUnicast
<1> HIDE DEF p
<1>5. NotInBroadcast(p) /\ Follows(o, p)
  BY <1>2, <1>3, FollowsSame DEF NotInBroadcast, SameLine
<1>6. /\ a \in Outcomes /\ SameLine(p, a) /\ Silent(p, a) /\ Follows(p, a)
      /\ Ready(n, a, idle) /\ a.s.state = "X_ACK"
  BY <1>1, <1>2, <1>5, TransmitAckIs
<1> HIDE DEF a
<1>7. Follows(o, a) /\ Silent(o, a)
  BY <1>2, <1>5, <1>6, FollowsOn, SilentOn
<1>8. CASE CorrectSequenceNumber(o.s, f)
  <2> DEFINE c == [a EXCEPT !.s.lastSeq[f.from] = f.id]
  <2> DEFINE r == HandOff(c, f)
  <2>1. ProcessUnicast(o, f) = r
    BY <1>4, <1>8
  <2>2. [a.s.lastSeq EXCEPT ![f.from] = f.id] \in [Nodes -> Nat]
    BY <1>1, <1>6 DEF Outcomes, Stations
  <2>3. c = [a EXCEPT !.s.lastSeq = [a.s.lastSeq EXCEPT ![f.from] = f.id]]
    BY <1>6 DEF Outcomes, Stations
  <2> HIDE DEF c
  <2>4. /\ c \in Outcomes /\ SameLine(a, c) /\ c.s.state = a.s.state
        /\ c.s.timer = a.s.timer /\ c.s.cut = a.s.cut /\ c.send = a.send
        /\ c.s.lastSeq = [a.s.lastSeq EXCEPT ![f.from] = f.id]
    BY <1>6, <2>2, <2>3 DEF Outcomes, Stations, SameLine
  <2>5. Follows(a, c)
    BY <1>6, <2>4, FollowsSame
  <2>6. Ready(n, c, idle)
    BY <1>6, <2>4 DEF Ready, StationSound, Sends1, Carries, SameLine, HasToSend
  <2>7. /\ r \in Outcomes /\ SameLine(c, r) /\ r.s = c.s /\ r.send = c.send
        /\ r.up = <<f>> /\ Follows(c, r)
    BY <2>4, HandOffIs
  <2> HIDE DEF r
  <2>8. Ready(n, r, idle)
    BY <2>6, <2>7 DEF Ready, Sends1
  <2>9. Follows(o, r)
    BY <1>6, <1>7, <2>4, <2>5, <2>7, FollowsOn
  <2>10. Takes(o, f, r)
    BY <1>1, <1>7, <1>8, <2>4, <2>7 DEF Takes, Silent, CorrectSequenceNumber
  <2> QED
    BY <2>1, <2>7, <2>8, <2>9, <2>10 DEF Answers
<1>9. CASE ~CorrectSequenceNumber(o.s, f)
  <2>1. Takes(o, f, a)
    BY <1>7 DEF Takes, Silent, Listening
  <2> QED
    BY <1>4, <1>6, <1>7, <1>9, <2>1 DEF Answers
<1> QED
  BY <1>8, <1>9

LEMMA ProcessFrameIs ==
    ASSUME NEW n \in Nodes, NEW o \in Outcomes, NEW f \in Frames,
           NEW idle \in BOOLEAN, Listening(o),
           f.to = Everyone \/ (f.to = n /\ f.kind = "data")
    PROVE  Answers(n, o, f, ProcessFrame(o, f, idle), idle)
<1>1. ProcessFrame(o, f, idle) =
        IF o.s.state # "WFDATA" /\ o.s.state \in WaitingForResponse THEN o
        ELSE IF f.to = Everyone THEN ProcessBroadcast(o, f, idle)
        ELSE ProcessUnicast(o, f)
  BY Zenon DEF ProcessFrame
<1>2. Answers(n, o, f, o, idle)
  BY ListeningIs
<1>3. f.to = Everyone => Answers(n, o, f, ProcessBroadcast(o, f, idle), idle)
  BY ProcessBroadcastIs
<1>4. f.to = n /\ f.kind = "data" => Answers(n, o, f, ProcessUnicast(o, f), idle)
  BY ProcessUnicastIs
<1> QED
  BY Zenon, <1>1, <1>2, <1>3, <1>4

(* What is for another station: only the wait for the NAV may begin.        *)
LEMMA ProcessNotMyFrameIs ==
    ASSUME NEW o \in Outcomes, NEW idle \in BOOLEAN, NEW later \in BOOLEAN,
           Listening(o)
    PROVE  LET r == ProcessNotMyFrame(o, idle, later) IN
           r \in Outcomes /\ Follows(o, r) /\ Silent(o, r) /\ Calm(r, idle)
<1> DEFINE p == [o EXCEPT !.s.nav = TRUE]
<1> DEFINE r == ProcessNotMyFrame(o, idle, later)
<1>1. /\ p \in Outcomes /\ SameLine(o, p) /\ Silent(o, p) /\ p.send = None
      /\ p.s.state = o.s.state /\ p.s.timer = o.s.timer /\ p.s.cut = o.s.cut
  BY DEF Outcomes, Stations, SameLine, Silent, Listening
<1>2. r = IF (~o.s.nav \/ later) /\ idle /\ HasToSend(o.s)
          THEN StartTimer(SetState(p, "WFNAV")) ELSE p
  BY Zenon DEF ProcessNotMyFrame, HasToSend
<1> HIDE DEF p, r
<1>3. NotInBroadcast(o) /\ Calm(o, idle)
  BY DEF Listening, NotInBroadcast, Transmitting, Calm
<1>4. Calm(p, idle) /\ Follows(o, p) /\ NotInBroadcast(p)
  BY <1>1, <1>3, FollowsSame DEF Calm, StationSound, HasToSend, SameLine, NotInBroadcast
<1>5. CASE (~o.s.nav \/ later) /\ idle /\ HasToSend(o.s)
  <2> DEFINE q == SetState(p, "WFNAV")
  <2>1. "WFNAV" \in States
    BY DEF States
  <2>2. /\ q \in Outcomes /\ SameLine(p, q) /\ Silent(p, q)
        /\ q.s.state = "WFNAV" /\ q.send = None
    BY <1>1, <2>1, SetStateIs
  <2>3. r = StartTimer(q)
    BY <1>2, <1>5
  <2> HIDE DEF q
  <2>4. /\ r \in Outcomes /\ SameLine(q, r) /\ Silent(q, r)
        /\ r.s.state = "WFNAV" /\ r.send = None /\ r.s.timer
    BY <2>2, <2>3, StartTimerIs
  <2>5. SameLine(o, r) /\ Silent(o, r)
    BY <1>1, <2>2, <2>4 DEF SameLine, Silent
  <2>6. Follows(o, r) /\ HasToSend(r.s)
    BY <1>3, <1>5, <2>4, <2>5, FollowsSame DEF SameLine, HasToSend
  <2>7. Calm(r, idle)
    BY <1>5, <2>4, <2>6
    DEF Calm, StationSound, Transmitting, Contending, WaitingForResponse, Exchange
  <2> QED
    BY <2>4, <2>5, <2>6, <2>7 DEF r
<1>6. CASE ~((~o.s.nav \/ later) /\ idle /\ HasToSend(o.s))
  <2>1. r = p
    BY Zenon, <1>2, <1>6
  <2> QED
    BY <2>1, <1>1, <1>4 DEF r
<1> QED
  BY <1>5, <1>6

(* A beacon stops the timer of a wait, and leaves it in the state.          *)
LEMMA ProcessBeaconIs ==
    ASSUME NEW o \in Outcomes, NEW idle \in BOOLEAN, Listening(o)
    PROVE  LET r == ProcessBeacon(o) IN
           r \in Outcomes /\ Follows(o, r) /\ Silent(o, r) /\ Calm(r, idle)
<1>1. NotInBroadcast(o) /\ Calm(o, idle)
  BY DEF Listening, NotInBroadcast, Transmitting, Calm
<1>2. CASE o.s.nav
  <2>1. ProcessBeacon(o) = o
    BY <1>2 DEF ProcessBeacon
  <2>2. SameLine(o, o) /\ Silent(o, o)
    BY DEF SameLine, Silent
  <2> QED
    BY <1>1, <2>1, <2>2, FollowsSame
<1>3. CASE ~o.s.nav
  <2> DEFINE p == CancelTimer(o)
  <2> DEFINE r == ProcessBeacon(o)
  <2>0. (o.s.state \in WaitingForResponse) \in BOOLEAN
    BY SMT
  <2>1. PICK b \in BOOLEAN : b = (o.s.state \in WaitingForResponse)
    BY Zenon, <2>0
  <2>2. r = [p EXCEPT !.s.cut = b]
    BY Zenon, <1>3, <2>1 DEF ProcessBeacon
  <2>3. /\ p \in Outcomes /\ SameLine(o, p) /\ Silent(o, p)
        /\ p.s.state = o.s.state /\ p.send = None
    BY CancelTimerIs DEF Listening
  <2> HIDE DEF p, r
  <2>4. /\ r \in Outcomes /\ SameLine(p, r) /\ Silent(p, r)
        /\ r.s.state = p.s.state /\ r.send = None /\ r.s.cut = b
    <3>1. r \in Outcomes
      BY <2>2, <2>3 DEF Outcomes, Stations
    <3>2. SameLine(p, r) /\ Silent(p, r) /\ r.s.state = p.s.state /\ r.send = None
      BY <2>2, <2>3 DEF Outcomes, Stations, SameLine, Silent
    <3>3. r.s.cut = b
      BY <2>2, <2>3 DEF Outcomes, Stations
    <3> QED
      BY <3>1, <3>2, <3>3
  <2>5. SameLine(o, r) /\ Silent(o, r)
    BY <2>3, <2>4 DEF SameLine, Silent
  <2>6. Follows(o, r)
    BY <1>1, <2>4, <2>5, FollowsSame
  <2>7. o.s.state \in WaitingForResponse => r.s.cut
    BY <2>1, <2>4
  <2>8. Calm(r, idle)
    BY <2>3, <2>4, <2>5, <2>7 DEF Calm, StationSound, Listening, SameLine
  <2> QED
    BY <2>4, <2>5, <2>6, <2>8 DEF r
<1> QED
  BY <1>2, <1>3

LEMMA CtsIs ==
    ASSUME NEW n \in Nodes, NEW to \in Nodes \cup {Everyone}
    PROVE  LET c == Frame("cts", n, to, 0) IN
           c \in Frames /\ c.kind = "cts" /\ c.from = n
BY DEF Frame, Frames

LEMMA ProcessRtsIs ==
    ASSUME NEW n \in Nodes, NEW o \in Outcomes, NEW f \in Frames,
           NEW idle \in BOOLEAN, Listening(o), f.to = n
    PROVE  Answers(n, o, f, ProcessRts(o, f, idle), idle)
<1> DEFINE p == CancelTimer(o)
<1> DEFINE c == Frame("cts", n, f.from, 0)
<1> DEFINE r == Transmit(p, "X_CTS", c)
<1>1. ProcessRts(o, f, idle) =
        IF o.s.state \notin WaitingForResponse /\ ~o.s.nav /\ idle THEN r ELSE o
  BY Zenon DEF ProcessRts
<1>2. /\ p \in Outcomes /\ SameLine(o, p) /\ Silent(o, p) /\ p.s.state = o.s.state
  BY CancelTimerIs
<1>3. f.from \in Nodes \cup {Everyone}
  BY DEF Frames
<1>4. c \in Frames /\ c.kind = "cts" /\ c.from = n
  BY <1>3, CtsIs
<1>5. "X_CTS" \in States
  BY DEF States, Transmitting
<1> HIDE DEF p, c
<1>6. /\ r \in Outcomes /\ SameLine(p, r) /\ Silent(p, r)
      /\ r.s.state = "X_CTS" /\ r.send = c
  BY <1>2, <1>4, <1>5, TransmitIs
<1> HIDE DEF r
<1>7. SameLine(o, r) /\ Silent(o, r)
  BY <1>2, <1>6 DEF SameLine, Silent
<1>8. Follows(o, r)
  BY <1>6, <1>7, FollowsSame, ListeningIs
<1>9. Ready(n, r, idle)
  BY <1>4, <1>6, NotNone
  DEF Ready, StationSound, Sends1, Carries, Contending, WaitingForResponse, Exchange,
      Transmitting
<1>10. Takes(o, f, r)
  BY <1>7 DEF Takes, Silent, Listening
<1>11. Answers(n, o, f, r, idle)
  BY <1>6, <1>8, <1>9, <1>10 DEF Answers
<1>12. Answers(n, o, f, o, idle)
  BY ListeningIs
<1> QED
  BY Zenon, <1>1, <1>11, <1>12

(* The frame an RTS was for is sent.                                        *)
LEMMA ProcessCtsIs ==
    ASSUME NEW n \in Nodes, NEW o \in Outcomes, NEW f \in Frames,
           NEW idle \in BOOLEAN, Listening(o), f.to = n
    PROVE  Answers(n, o, f, ProcessCts(o, f, idle), idle)
<1>0. Answers(n, o, f, o, idle)
  BY ListeningIs
<1>1. CASE o.s.state = "WFCTS" /\ idle
  <2> DEFINE m == o.s.currentMessage
  <2> DEFINE p == CancelTimer(o)
  <2> DEFINE q == [p EXCEPT !.s.SSRC = 0]
  <2> DEFINE c == Frame(m.kind, n, m.to, m.id)
  <2> DEFINE r == Transmit(q, "X_UNICAST", c)
  <2>1. ProcessCts(o, f, idle) = r
    BY Zenon, <1>1 DEF ProcessCts
  <2>2. m \in Messages /\ m.to # Everyone
    BY <1>1 DEF Listening, StationSound, Exchange, Outcomes, Stations
  <2>3. /\ m.kind \in Kinds /\ m.to \in Nodes \cup {Everyone} /\ m.id \in Nat \ {0}
    BY <2>2 DEF Messages
  <2>4. /\ c \in Frames /\ c.kind = m.kind /\ c.from = n /\ c.to = m.to /\ c.id = m.id
    BY <2>3, FrameIs
  <2>5. /\ p \in Outcomes /\ SameLine(o, p) /\ Silent(o, p) /\ p.s.state = o.s.state
    BY CancelTimerIs
  <2> HIDE DEF p, c
  <2>6. /\ q \in Outcomes /\ SameLine(p, q) /\ Silent(p, q)
    BY <2>5, RetryLimitIs DEF Outcomes, Stations, SameLine, Silent
  <2> HIDE DEF q
  <2>7. "X_UNICAST" \in States
    BY DEF States, Transmitting
  <2>8. /\ r \in Outcomes /\ SameLine(q, r) /\ Silent(q, r)
        /\ r.s.state = "X_UNICAST" /\ r.send = c
    BY <2>4, <2>6, <2>7, TransmitIs
  <2> HIDE DEF r
  <2>9. SameLine(o, r) /\ Silent(o, r)
    BY <2>5, <2>6, <2>8 DEF SameLine, Silent
  <2>10. Follows(o, r)
    BY <2>8, <2>9, FollowsSame, ListeningIs
  <2>11. r.s.currentMessage = m /\ m # None
    BY <2>2, <2>9, NotNone DEF SameLine
  <2>12. Ready(n, r, idle)
    BY <2>2, <2>4, <2>8, <2>11, NotNone
    DEF Ready, StationSound, Sends1, Carries, IsData, Contending, WaitingForResponse,
        Exchange, Transmitting
  <2>13. Takes(o, f, r)
    BY <2>9 DEF Takes, Silent, Listening
  <2> QED
    BY <2>1, <2>8, <2>10, <2>12, <2>13 DEF Answers
<1>2. CASE ~(o.s.state = "WFCTS" /\ idle)
  <2>1. ProcessCts(o, f, idle) = o
    BY Zenon, <1>2 DEF ProcessCts
  <2> QED
    BY <1>0, <2>1
<1> QED
  BY <1>1, <1>2

LEMMA ProcessAckFrameIs ==
    ASSUME NEW n \in Nodes, NEW o \in Outcomes, NEW f \in Frames,
           NEW idle \in BOOLEAN, Listening(o)
    PROVE  Answers(n, o, f, ProcessAckFrame(o, idle), idle)
<1>1. CASE o.s.state = "WFACK"
  <2> DEFINE p == CancelTimer(o)
  <2> DEFINE r == ProcessAck(p, idle)
  <2>1. ProcessAckFrame(o, idle) = r
    BY Zenon, <1>1 DEF ProcessAckFrame
  <2>2. o.s.currentMessage # None
    BY <1>1 DEF Listening, StationSound, Exchange
  <2>3. /\ p \in Outcomes /\ SameLine(o, p) /\ Silent(o, p) /\ p.send = None
        /\ p.s.state = o.s.state
    BY CancelTimerIs DEF Listening
  <2> HIDE DEF p
  <2>4. p.s.currentMessage # None /\ Follows(o, p)
    BY <2>2, <2>3, FollowsSame DEF SameLine
  <2>5. r \in Outcomes /\ Silent(p, r) /\ Follows(p, r) /\ Calm(r, idle)
    BY <2>3, <2>4, ProcessAckIs
  <2> HIDE DEF r
  <2>6. Silent(o, r) /\ Follows(o, r) /\ Ready(n, r, idle)
    BY <2>3, <2>4, <2>5, SilentOn, FollowsOn, CalmIsReady
  <2>7. Takes(o, f, r)
    BY <2>6 DEF Takes, Silent, Listening
  <2> QED
    BY <2>1, <2>5, <2>6, <2>7 DEF Answers
<1>2. CASE o.s.state # "WFACK"
  <2>1. ProcessAckFrame(o, idle) = o
    BY Zenon, <1>2 DEF ProcessAckFrame
  <2> QED
    BY <2>1, ListeningIs
<1> QED
  BY <1>1, <1>2

-----------------------------------------------------------------------------
(* Requests and answers.                                                    *)

(* A station goes on as it was, but for its queues and an empty buffer.     *)
Rests(o, r) ==
    /\ r.s.state = o.s.state
    /\ o.s.currentMessage \in {None, r.s.currentMessage}
    /\ r.s.timer = o.s.timer /\ r.s.cut = o.s.cut /\ r.send = None
    /\ HasToSend(o.s) => HasToSend(r.s)

(* A handler that a station may run while it sends.                         *)
Turns(n, o, r, idle) ==
    \/ Rests(o, r)
    \/ o.s.state \notin Transmitting /\ Ready(n, r, idle)

LEMMA QueuedIs ==
    ASSUME NEW o \in Outcomes, NEW frame \in Messages, frame.kind # "data",
           o.send = None
    PROVE  LET r == [o EXCEPT !.s.mngmtQueue = Append(@, frame)] IN
           /\ r \in Outcomes /\ Silent(o, r) /\ Follows(o, r) /\ Rests(o, r)
           /\ r.s.mgmtSendResponse = o.s.mgmtSendResponse
<1> DEFINE r == [o EXCEPT !.s.mngmtQueue = Append(@, frame)]
<1> DEFINE q == o.s.mngmtQueue
<1>1. q \in Seq(Messages)
  BY DEF Outcomes, Stations
<1>2. /\ Append(q, frame) \in Seq(Messages) /\ Append(q, frame) # <<>>
      /\ (\A i \in 1 .. Len(q) : q[i].kind # "data")
         => \A i \in 1 .. Len(Append(q, frame)) : Append(q, frame)[i].kind # "data"
  BY <1>1, AppendFacts
<1>3. /\ r \in Outcomes /\ Silent(o, r) /\ r.send = None
      /\ r.s.state = o.s.state /\ r.s.currentMessage = o.s.currentMessage
      /\ r.s.timer = o.s.timer /\ r.s.cut = o.s.cut
      /\ r.s.mgmtSendResponse = o.s.mgmtSendResponse
      /\ r.s.mngmtQueue = Append(q, frame)
      /\ r.s.dataQueue = o.s.dataQueue /\ r.net = o.net
  BY <1>2 DEF Outcomes, Stations, Silent
<1> HIDE DEF r
<1>4. Rests(o, r)
  BY <1>2, <1>3 DEF Rests, HasToSend
<1>5. Follows(o, r)
  BY <1>2, <1>3 DEF Follows, Lined
<1> QED
  BY <1>3, <1>4, <1>5 DEF r

LEMMA MgmtQueueEnqueueIs ==
    ASSUME NEW n \in Nodes, NEW o \in Outcomes, NEW frame \in Messages,
           NEW idle \in BOOLEAN, frame.kind # "data", o.send = None,
           o.s.mgmtSendResponse => o.s.state \notin Transmitting
    PROVE  LET r == MgmtQueueEnqueue(o, n, frame, idle) IN
           /\ r \in Outcomes /\ Silent(o, r) /\ Follows(o, r)
           /\ Turns(n, o, r, idle)
           /\ o.s.mgmtSendResponse => Ready(n, r, idle)
<1> DEFINE q == [o EXCEPT !.s.mngmtQueue = Append(@, frame)]
<1> DEFINE t == IF q.s.mgmtSendResponse THEN TransmitAck(q, n, frame.to) ELSE q
<1> DEFINE r == MgmtQueueEnqueue(o, n, frame, idle)
<1>1. r = IF Len(t.s.mngmtQueue) = 1 THEN MngmtQueueHasPacketToSend(t, idle) ELSE t
  BY Zenon DEF MgmtQueueEnqueue
<1>2. /\ q \in Outcomes /\ Silent(o, q) /\ Follows(o, q) /\ Rests(o, q)
      /\ q.s.mgmtSendResponse = o.s.mgmtSendResponse
  BY QueuedIs
<1>3. frame.to \in Nodes \cup {Everyone}
  BY DEF Messages
<1> HIDE DEF q, r
<1>4. CASE o.s.mgmtSendResponse
  <2> DEFINE a == TransmitAck(q, n, frame.to)
  <2>1. t = a
    BY <1>2, <1>4
  <2>2. NotInBroadcast(q)
    BY <1>2, <1>4 DEF NotInBroadcast, Rests, Transmitting
  <2>3. /\ a \in Outcomes /\ Silent(q, a) /\ Follows(q, a) /\ Ready(n, a, idle)
        /\ a.s.state = "X_ACK"
    BY <1>2, <1>3, <2>2, TransmitAckIs
  <2>4. r = a
    BY <1>1, <2>1, <2>3 DEF MngmtQueueHasPacketToSend
  <2>5. Silent(o, a) /\ Follows(o, a)
    BY <1>2, <2>3, SilentOn, FollowsOn
  <2> QED
    BY <1>4, <2>3, <2>4, <2>5 DEF Turns, r
<1>5. CASE ~o.s.mgmtSendResponse
  <2>1. t = q
    BY <1>2, <1>5
  <2>2. r = IF Len(q.s.mngmtQueue) = 1 /\ q.s.state = "IDLE"
            THEN CheckForOutgoingPacket(q, idle) ELSE q
    BY <1>1, <2>1 DEF MngmtQueueHasPacketToSend
  <2>3. CASE Len(q.s.mngmtQueue) = 1 /\ q.s.state = "IDLE"
    <3> DEFINE c == CheckForOutgoingPacket(q, idle)
    <3>1. q.send = None /\ NotInBroadcast(q) /\ o.s.state \notin Transmitting
      BY <1>2, <2>3 DEF NotInBroadcast, Rests, Transmitting
    <3>2. c \in Outcomes /\ Silent(q, c) /\ Follows(q, c) /\ Calm(c, idle)
      BY <1>2, <3>1, CheckForOutgoingPacketIs
    <3>3. r = c
      BY <2>2, <2>3
    <3> HIDE DEF c
    <3>4. Silent(o, c) /\ Follows(o, c) /\ Ready(n, c, idle)
      BY <1>2, <3>2, SilentOn, FollowsOn, CalmIsReady
    <3> QED
      BY <1>5, <3>1, <3>2, <3>3, <3>4 DEF Turns, r
  <2>4. CASE ~(Len(q.s.mngmtQueue) = 1 /\ q.s.state = "IDLE")
    <3>1. r = q
      BY <2>2, <2>4
    <3> QED
      BY <1>2, <1>5, <3>1 DEF Turns, r
  <2> QED
    BY <2>3, <2>4
<1> QED
  BY <1>4, <1>5

LEMMA AnswerIs ==
    ASSUME NEW f \in Frames, f.kind = "mgmt"
    PROVE  Answer(f) \in Messages /\ Answer(f).kind # "data"
BY DEF Answer, Messages, Frames, Kinds

LEMMA HandOffManagementIs ==
    ASSUME NEW n \in Nodes, NEW o \in Outcomes, NEW p \in Outcomes, NEW f \in Frames,
           NEW idle \in BOOLEAN, Listening(o), f.kind # "data",
           Follows(o, p), Silent(o, p), Ready(n, p, idle)
    PROVE  Answers(n, o, f, HandOffManagement(p, n, f), idle)
<1> DEFINE r == HandOff(p, f)
<1>1. HandOffManagement(p, n, f) = IF Known(n, f) THEN p ELSE r
  BY DEF HandOffManagement
<1>2. Takes(o, f, p)
  BY DEF Takes, Silent, Listening
<1>3. /\ r \in Outcomes /\ r.s = p.s /\ r.send = p.send /\ r.up = <<f>>
      /\ Follows(p, r)
  BY HandOffIs
<1> HIDE DEF r
<1>4. Takes(o, f, r) /\ Ready(n, r, idle)
  BY <1>3 DEF Takes, Silent, Ready, Sends1
<1>5. Follows(o, r)
  BY <1>3, FollowsOn
<1>6. Answers(n, o, f, p, idle) /\ Answers(n, o, f, r, idle)
  BY <1>2, <1>3, <1>4, <1>5 DEF Answers
<1> QED
  BY Zenon, <1>1, <1>6

LEMMA ProcessManagementIs ==
    ASSUME NEW n \in Nodes, NEW o \in Outcomes, NEW f \in Frames,
           NEW idle \in BOOLEAN, Listening(o), f.kind # "data"
    PROVE  Answers(n, o, f, ProcessManagement(o, n, f, idle), idle)
<1>1. NotInBroadcast(o) /\ o.send = None /\ o.s.state \notin Transmitting
  BY ListeningIs DEF Listening
<1>2. CASE f.kind = "mgmt"
  <2> DEFINE p == [o EXCEPT !.s.mgmtSendResponse = TRUE]
  <2> DEFINE q == MgmtQueueEnqueue(p, n, Answer(f), idle)
  <2>1. ProcessManagement(o, n, f, idle) = HandOffManagement(q, n, f)
    BY Zenon, <1>2 DEF ProcessManagement
  <2>2. /\ p \in Outcomes /\ SameLine(o, p) /\ Silent(o, p) /\ p.send = None
        /\ p.s.mgmtSendResponse /\ p.s.state = o.s.state
    BY <1>1 DEF Outcomes, Stations, SameLine, Silent
  <2> HIDE DEF p
  <2>3. Follows(o, p)
    BY <1>1, <2>2, FollowsSame
  <2>4. q \in Outcomes /\ Silent(p, q) /\ Follows(p, q) /\ Ready(n, q, idle)
    BY <1>1, <1>2, <2>2, AnswerIs, MgmtQueueEnqueueIs
  <2> HIDE DEF q
  <2>5. Silent(o, q) /\ Follows(o, q)
    BY <2>2, <2>3, <2>4, SilentOn, FollowsOn
  <2> QED
    BY <2>1, <2>4, <2>5, HandOffManagementIs
<1>3. CASE f.kind # "mgmt"
  <2> DEFINE q == TransmitAck(o, n, f.from)
  <2>1. ProcessManagement(o, n, f, idle) = HandOffManagement(q, n, f)
    BY Zenon, <1>3 DEF ProcessManagement
  <2>2. f.from \in Nodes \cup {Everyone}
    BY DEF Frames
  <2>3. q \in Outcomes /\ Silent(o, q) /\ Follows(o, q) /\ Ready(n, q, idle)
    BY <1>1, <2>2, TransmitAckIs
  <2> HIDE DEF q
  <2> QED
    BY <2>1, <2>3, HandOffManagementIs
<1> QED
  BY <1>2, <1>3

-----------------------------------------------------------------------------
(* A frame received without error.                                          *)

LEMMA ProcessAnyFrameIs ==
    ASSUME NEW n \in Nodes, NEW o \in Outcomes, NEW f \in Frames,
           NEW idle \in BOOLEAN, Listening(o), f.to = Everyone
    PROVE  Answers(n, o, f, ProcessAnyFrame(o, f, idle), idle)
<1>1. ProcessAnyFrame(o, f, idle) =
        IF f.kind = "beacon" THEN ProcessBeacon(o) ELSE ProcessFrame(o, f, idle)
  BY Zenon DEF ProcessAnyFrame
<1>2. Answers(n, o, f, ProcessFrame(o, f, idle), idle)
  BY ProcessFrameIs
<1> DEFINE r == ProcessBeacon(o)
<1>3. r \in Outcomes /\ Follows(o, r) /\ Silent(o, r) /\ Calm(r, idle)
  BY ProcessBeaconIs
<1> HIDE DEF r
<1>4. Ready(n, r, idle) /\ Takes(o, f, r)
  BY <1>3, CalmIsReady DEF Takes, Silent, Listening
<1>5. Answers(n, o, f, r, idle)
  BY <1>3, <1>4 DEF Answers
<1> QED
  BY Zenon, <1>1, <1>2, <1>5 DEF r

LEMMA ProcessMyFrameIs ==
    ASSUME NEW n \in Nodes, NEW o \in Outcomes, NEW f \in Frames,
           NEW idle \in BOOLEAN, Listening(o), f.to = n
    PROVE  Answers(n, o, f, ProcessMyFrame(o, n, f, idle), idle)
<1> DEFINE r == ProcessMyFrame(o, n, f, idle)
<1>1. CASE f.kind = "rts"
  <2>1. r = ProcessRts(o, f, idle)
    BY Zenon, <1>1 DEF ProcessMyFrame
  <2> QED
    BY <2>1, ProcessRtsIs
<1>2. CASE f.kind = "cts"
  <2>1. r = ProcessCts(o, f, idle)
    BY <1>2 DEF ProcessMyFrame
  <2> QED
    BY <2>1, ProcessCtsIs
<1>3. CASE f.kind = "ack"
  <2>1. r = ProcessAckFrame(o, idle)
    BY <1>3 DEF ProcessMyFrame
  <2> QED
    BY <2>1, ProcessAckFrameIs
<1>4. CASE f.kind = "data"
  <2>1. r = ProcessFrame(o, f, idle)
    BY <1>4 DEF ProcessMyFrame, ProcessDataFrame
  <2> QED
    BY <1>4, <2>1, ProcessFrameIs
<1>5. CASE f.kind \notin {"rts", "cts", "ack", "data"}
  <2>1. r = ProcessManagement(o, n, f, idle)
    BY <1>5 DEF ProcessMyFrame
  <2> QED
    BY <1>5, <2>1, ProcessManagementIs
<1> QED
  BY <1>1, <1>2, <1>3, <1>4, <1>5

LEMMA ReceivePacketFromPhyIs ==
    ASSUME NEW n \in Nodes, NEW o \in Outcomes, NEW f \in Frames,
           NEW idle \in BOOLEAN, NEW later \in BOOLEAN, Listening(o)
    PROVE  Answers(n, o, f, ReceivePacketFromPhy(o, n, f, idle, later), idle)
<1> DEFINE p == IF f.to = n THEN ProcessMyFrame(o, n, f, idle)
                ELSE IF f.to = Everyone THEN ProcessAnyFrame(o, f, idle)
                ELSE ProcessNotMyFrame(o, idle, later)
<1> DEFINE r == ReceivePacketFromPhy(o, n, f, idle, later)
<1>1. r = IF idle THEN StartSendTimers(p) ELSE p
  BY Zenon DEF ReceivePacketFromPhy, AfterReception
<1> DEFINE m == ProcessMyFrame(o, n, f, idle)
<1> DEFINE a == ProcessAnyFrame(o, f, idle)
<1> DEFINE x == ProcessNotMyFrame(o, idle, later)
<1>2. f.to = n => Answers(n, o, f, m, idle)
  BY ProcessMyFrameIs
<1>3. f.to = Everyone => Answers(n, o, f, a, idle)
  BY ProcessAnyFrameIs
<1>4. Answers(n, o, f, x, idle)
  <2>1. x \in Outcomes /\ Follows(o, x) /\ Silent(o, x) /\ Calm(x, idle)
    BY ProcessNotMyFrameIs
  <2> HIDE DEF x
  <2>2. Ready(n, x, idle) /\ Takes(o, f, x)
    BY <2>1, CalmIsReady DEF Takes, Silent, Listening
  <2> QED
    BY <2>1, <2>2 DEF Answers
<1>5. Answers(n, o, f, p, idle)
  BY Zenon, <1>2, <1>3, <1>4
<1> HIDE DEF p, r
<1>6. CASE idle
  <2> DEFINE s == StartSendTimers(p)
  <2>1. r = s
    BY <1>1, <1>6
  <2>2. p \in Outcomes /\ Ready(n, p, TRUE) /\ Follows(o, p) /\ Takes(o, f, p)
    BY <1>5, <1>6 DEF Answers, Ready
  <2>3. s \in Outcomes /\ Silent(p, s) /\ Follows(p, s) /\ Ready(n, s, TRUE)
    BY <2>2, StartSendTimersIs
  <2> HIDE DEF s
  <2>4. Ready(n, s, idle) /\ Follows(o, s) /\ Takes(o, f, s)
    BY <1>6, <2>2, <2>3, FollowsOn DEF Ready, Takes, Silent
  <2> QED
    BY <2>1, <2>3, <2>4 DEF Answers, r
<1>7. CASE ~idle
  BY <1>1, <1>5, <1>7 DEF r
<1> QED
  BY <1>6, <1>7

-----------------------------------------------------------------------------
(* Changes of the radio's status.                                           *)

LEMMA ExamineIs ==
    ASSUME NEW o \in Outcomes, NEW f, Calm(o, FALSE)
    PROVE  LET r == Examine(o, f) IN
           r \in Outcomes /\ Silent(o, r) /\ Follows(o, r) /\ Calm(r, FALSE)
<1>1. NotInBroadcast(o) /\ o.send = None
  BY DEF Calm, NotInBroadcast, Transmitting
<1>2. Examine(o, f) \in {o, StartTimer(SetState(o, "HEADER_CHECK_MODE")),
                         CancelTimer(SetState(o, "IDLE"))}
  BY Zenon DEF Examine
<1>3. CASE Examine(o, f) = o
  <2>1. SameLine(o, o) /\ Silent(o, o)
    BY DEF SameLine, Silent
  <2> QED
    BY <1>3, <2>1, FollowsSame
<1>4. CASE Examine(o, f) = CancelTimer(SetState(o, "IDLE"))
  BY <1>1, <1>4, GoIdleIs
<1>5. CASE Examine(o, f) = StartTimer(SetState(o, "HEADER_CHECK_MODE"))
  <2> DEFINE p == SetState(o, "HEADER_CHECK_MODE")
  <2> DEFINE r == StartTimer(p)
  <2>1. "HEADER_CHECK_MODE" \in States
    BY DEF States
  <2>2. /\ p \in Outcomes /\ SameLine(o, p) /\ Silent(o, p)
        /\ p.s.state = "HEADER_CHECK_MODE" /\ p.send = None
    BY <1>1, <2>1, SetStateIs
  <2> HIDE DEF p
  <2>3. /\ r \in Outcomes /\ SameLine(p, r) /\ Silent(p, r)
        /\ r.s.state = "HEADER_CHECK_MODE" /\ r.send = None
    BY <2>2, StartTimerIs
  <2> HIDE DEF r
  <2>4. SameLine(o, r) /\ Silent(o, r)
    BY <2>2, <2>3 DEF SameLine, Silent
  <2>5. Follows(o, r)
    BY <1>1, <2>3, <2>4, FollowsSame
  <2>6. Calm(r, FALSE)
    BY <2>3 DEF Calm, StationSound, Transmitting, Contending, WaitingForResponse, Exchange
  <2> QED
    BY <1>5, <2>3, <2>4, <2>5, <2>6 DEF p, r
<1> QED
  BY <1>2, <1>3, <1>4, <1>5

LEMMA StatusToReceivingIs ==
    ASSUME NEW o \in Outcomes, NEW f, NEW old \in {"IDLE", "SENSING", "RECEIVING"},
           o.send = None, o.s.state \notin Transmitting, StationSound(o.s),
           old # "IDLE" => o.s.state \notin Contending
    PROVE  LET r == StatusChange(o, old, "RECEIVING", f) IN
           r \in Outcomes /\ Silent(o, r) /\ Follows(o, r) /\ Calm(r, FALSE)
<1>1. CASE old = "IDLE"
  <2> DEFINE p == CancelSomeTimers(o)
  <2> DEFINE r == Examine(p, f)
  <2>1. StatusChange(o, old, "RECEIVING", f) = r
    BY <1>1 DEF StatusChange
  <2>2. p \in Outcomes /\ Silent(o, p) /\ Follows(o, p) /\ Calm(p, FALSE)
    BY CancelSomeTimersIs
  <2> HIDE DEF p
  <2>3. r \in Outcomes /\ Silent(p, r) /\ Follows(p, r) /\ Calm(r, FALSE)
    BY <2>2, ExamineIs
  <2> HIDE DEF r
  <2>4. Silent(o, r) /\ Follows(o, r)
    BY <2>2, <2>3, SilentOn, FollowsOn
  <2> QED
    BY <2>1, <2>3, <2>4
<1>2. CASE old # "IDLE"
  <2>1. StatusChange(o, old, "RECEIVING", f) = Examine(o, f)
    BY <1>2 DEF StatusChange
  <2>2. Calm(o, FALSE)
    BY <1>2 DEF Calm
  <2> QED
    BY <2>1, <2>2, ExamineIs
<1> QED
  BY <1>1, <1>2

LEMMA StatusToSensingIs ==
    ASSUME NEW o \in Outcomes, NEW f, NEW old \in {"IDLE", "RECEIVING"},
           o.send = None, o.s.state \notin Transmitting, StationSound(o.s),
           old # "IDLE" => o.s.state \notin Contending
    PROVE  LET r == StatusChange(o, old, "SENSING", f) IN
           r \in Outcomes /\ Silent(o, r) /\ Follows(o, r) /\ Calm(r, FALSE)
<1>1. CASE old = "IDLE"
  <2>1. StatusChange(o, old, "SENSING", f) = CancelSomeTimers(o)
    BY <1>1 DEF StatusChange
  <2> QED
    BY <2>1, CancelSomeTimersIs
<1>2. CASE old # "IDLE" /\ o.s.state = "HEADER_CHECK_MODE"
  <2>1. StatusChange(o, old, "SENSING", f) = CancelTimer(SetState(o, "IDLE"))
    BY <1>2 DEF StatusChange
  <2>2. NotInBroadcast(o)
    BY DEF NotInBroadcast, Transmitting
  <2> QED
    BY <2>1, <2>2, GoIdleIs
<1>3. CASE old # "IDLE" /\ o.s.state # "HEADER_CHECK_MODE"
  <2>1. StatusChange(o, old, "SENSING", f) = o
    BY <1>3 DEF StatusChange
  <2>2. SameLine(o, o) /\ Silent(o, o) /\ Calm(o, FALSE)
    BY <1>3 DEF SameLine, Silent, Calm
  <2> QED
    BY <2>1, <2>2, FollowsSame
<1> QED
  BY <1>1, <1>2, <1>3

LEMMA StatusToIdleIs ==
    ASSUME NEW n \in Nodes, NEW o \in Outcomes, NEW f,
           NEW old \in {"SENSING", "RECEIVING"}, Ready(n, o, TRUE)
    PROVE  LET r == StatusChange(o, old, "IDLE", f) IN
           r \in Outcomes /\ Silent(o, r) /\ Follows(o, r) /\ Ready(n, r, TRUE)
<1>1. StatusChange(o, old, "IDLE", f) = StartSendTimers(o)
  BY DEF StatusChange
<1> QED
  BY <1>1, StartSendTimersIs

(* The wait for an answer begins, or what comes next is taken up.           *)
LEMMA TransmissionHasFinishedIs ==
    ASSUME NEW o \in Outcomes, NEW idle \in BOOLEAN, o.send = None,
           o.s.state \in Transmitting, StationSound(o.s)
    PROVE  LET r == TransmissionHasFinished(o, idle) IN
           r \in Outcomes /\ Silent(o, r) /\ Follows(o, r) /\ Calm(r, idle)
<1>1. ASSUME NEW x \in {"WFCTS", "WFDATA", "WFACK"}, o.s.state # "X_BROADCAST",
             x # "WFDATA" => o.s.state \in {"X_RTS", "X_UNICAST"}
      PROVE  LET r == StartTimer(SetState(o, x)) IN
             r \in Outcomes /\ Silent(o, r) /\ Follows(o, r) /\ Calm(r, idle)
  <2> DEFINE p == SetState(o, x)
  <2> DEFINE r == StartTimer(p)
  <2>1. x \in States
    BY DEF States, WaitingForResponse
  <2>2. /\ p \in Outcomes /\ SameLine(o, p) /\ Silent(o, p)
        /\ p.s.state = x /\ p.send = None
    BY <2>1, SetStateIs
  <2> HIDE DEF p
  <2>3. /\ r \in Outcomes /\ SameLine(p, r) /\ Silent(p, r)
        /\ r.s.state = x /\ r.send = None /\ r.s.timer
    BY <2>2, StartTimerIs
  <2> HIDE DEF r
  <2>4. SameLine(o, r) /\ Silent(o, r)
    BY <2>2, <2>3 DEF SameLine, Silent
  <2>5. Follows(o, r)
    BY <1>1, <2>3, <2>4, FollowsSame DEF NotInBroadcast
  <2>6. x # "WFDATA" => o.s.currentMessage # None /\ o.s.currentMessage.to # Everyone
    BY <1>1 DEF StationSound, Exchange
  <2>7. Calm(r, idle)
    BY <2>3, <2>4, <2>6
    DEF Calm, StationSound, Transmitting, Contending, WaitingForResponse, Exchange, SameLine
  <2> QED
    BY <2>3, <2>4, <2>5, <2>7 DEF p, r
<1>2. CASE o.s.state = "X_RTS"
  <2>1. TransmissionHasFinished(o, idle) = StartTimer(SetState(o, "WFCTS"))
    BY <1>2 DEF TransmissionHasFinished
  <2> QED
    BY <1>1, <1>2, <2>1
<1>3. CASE o.s.state = "X_CTS"
  <2>1. TransmissionHasFinished(o, idle) = StartTimer(SetState(o, "WFDATA"))
    BY <1>3 DEF TransmissionHasFinished
  <2> QED
    BY <1>1, <1>3, <2>1
<1>4. CASE o.s.state = "X_UNICAST"
  <2>1. TransmissionHasFinished(o, idle) = StartTimer(SetState(o, "WFACK"))
    BY <1>4 DEF TransmissionHasFinished
  <2> QED
    BY <1>1, <1>4, <2>1
<1>5. CASE o.s.state = "X_BROADCAST"
  <2> DEFINE p == Finished(o)
  <2> DEFINE r == CheckForOutgoingPacket(p, idle)
  <2>1. TransmissionHasFinished(o, idle) = r
    BY <1>5 DEF TransmissionHasFinished
  <2>2. /\ p \in Outcomes /\ Silent(o, p) /\ Follows(o, p)
        /\ p.send = None /\ NotInBroadcast(p)
    BY FinishedIs
  <2> HIDE DEF p
  <2>3. r \in Outcomes /\ Silent(p, r) /\ Follows(p, r) /\ Calm(r, idle)
    BY <2>2, CheckForOutgoingPacketIs
  <2> HIDE DEF r
  <2>4. Silent(o, r) /\ Follows(o, r)
    BY <2>2, <2>3, SilentOn, FollowsOn
  <2> QED
    BY <2>1, <2>3, <2>4
<1>6. CASE o.s.state \notin {"X_RTS", "X_CTS", "X_UNICAST", "X_BROADCAST"}
  <2>1. TransmissionHasFinished(o, idle) = CheckForOutgoingPacket(o, idle)
    BY <1>6 DEF TransmissionHasFinished
  <2>2. NotInBroadcast(o)
    BY <1>6 DEF NotInBroadcast
  <2> QED
    BY <2>1, <2>2, CheckForOutgoingPacketIs
<1> QED
  BY <1>2, <1>3, <1>4, <1>5, <1>6

-----------------------------------------------------------------------------
(* What comes from the layers above.                                        *)

(* Taken into an empty local buffer, a frame is contended for at once or    *)
(* when the station comes to it.                                            *)
LEMMA TakenUpIs ==
    ASSUME NEW n \in Nodes, NEW o \in Outcomes, NEW p \in Outcomes,
           NEW idle \in BOOLEAN, o.send = None, o.s.currentMessage = None,
           Silent(o, p), Follows(o, p), p.send = o.send,
           p.s.state = o.s.state, p.s.timer = o.s.timer, p.s.cut = o.s.cut,
           p.s.currentMessage # None
    PROVE  LET r == IF o.s.state = "IDLE" THEN AttemptToContend(p, idle) ELSE p IN
           r \in Outcomes /\ Silent(o, r) /\ Follows(o, r) /\ Turns(n, o, r, idle)
<1>1. HasToSend(p.s)
  BY DEF HasToSend
<1>2. CASE o.s.state = "IDLE"
  <2> DEFINE r == AttemptToContend(p, idle)
  <2>1. NotInBroadcast(p) /\ o.s.state \notin Transmitting
    BY <1>2 DEF NotInBroadcast, Transmitting
  <2>2. r \in Outcomes /\ Silent(p, r) /\ Follows(p, r) /\ Calm(r, idle)
    BY <1>1, <2>1, AttemptToContendIs
  <2> HIDE DEF r
  <2>3. Silent(o, r) /\ Follows(o, r) /\ Ready(n, r, idle)
    BY <2>2, SilentOn, FollowsOn, CalmIsReady
  <2> QED
    BY <1>2, <2>1, <2>2, <2>3 DEF Turns, r
<1>3. CASE o.s.state # "IDLE"
  <2>1. Rests(o, p)
    BY <1>1 DEF Rests
  <2> QED
    BY <1>3, <2>1 DEF Turns
<1> QED
  BY <1>2, <1>3

LEMMA UnchangedIs ==
    ASSUME NEW n \in Nodes, NEW o \in Outcomes, NEW idle \in BOOLEAN, o.send = None
    PROVE  Silent(o, o) /\ Follows(o, o) /\ Turns(n, o, o, idle)
<1>1. SameLine(o, o) /\ Silent(o, o) /\ Rests(o, o)
  BY DEF SameLine, Silent, Rests
<1> QED
  BY <1>1, FollowsSame DEF Turns

LEMMA MoveFromTheNetworkLayerIs ==
    ASSUME NEW n \in Nodes, NEW o \in Outcomes, NEW idle \in BOOLEAN,
           o.send = None, o.net # <<>>
    PROVE  LET r == MoveFromTheNetworkLayer(o, idle) IN
           r \in Outcomes /\ Silent(o, r) /\ Follows(o, r) /\ Turns(n, o, r, idle)
<1>1. CASE o.s.currentMessage # None
  <2>1. MoveFromTheNetworkLayer(o, idle) = o
    BY Zenon, <1>1 DEF MoveFromTheNetworkLayer
  <2> QED
    BY <2>1, UnchangedIs
<1>2. CASE o.s.currentMessage = None
  <2> DEFINE p == NetworkDequeue(o)
  <2>1. MoveFromTheNetworkLayer(o, idle) =
          IF o.s.state = "IDLE" THEN AttemptToContend(p, idle) ELSE p
    BY Zenon, <1>2 DEF MoveFromTheNetworkLayer
  <2>2. /\ p \in Outcomes /\ Silent(o, p) /\ Follows(o, p) /\ p.send = o.send
        /\ p.s.state = o.s.state /\ p.s.timer = o.s.timer /\ p.s.cut = o.s.cut
        /\ p.s.currentMessage # None
    BY <1>2, NetworkDequeueIs
  <2> HIDE DEF p
  <2> QED
    BY <1>2, <2>1, <2>2, TakenUpIs
<1> QED
  BY <1>1, <1>2

LEMMA DataQueueHasPacketToSendIs ==
    ASSUME NEW n \in Nodes, NEW o \in Outcomes, NEW idle \in BOOLEAN,
           o.send = None, o.s.dataQueue # <<>>
    PROVE  LET r == DataQueueHasPacketToSend(o, idle) IN
           r \in Outcomes /\ Silent(o, r) /\ Follows(o, r) /\ Turns(n, o, r, idle)
<1>1. CASE o.s.currentMessage # None
  <2>1. DataQueueHasPacketToSend(o, idle) = o
    BY Zenon, <1>1 DEF DataQueueHasPacketToSend
  <2> QED
    BY <2>1, UnchangedIs
<1>2. CASE o.s.currentMessage = None
  <2> DEFINE p == DataQueueDequeue(o)
  <2>1. DataQueueHasPacketToSend(o, idle) =
          IF o.s.state = "IDLE" THEN AttemptToContend(p, idle) ELSE p
    BY Zenon, <1>2 DEF DataQueueHasPacketToSend
  <2>2. /\ p \in Outcomes /\ Silent(o, p) /\ Follows(o, p) /\ p.send = o.send
        /\ p.s.state = o.s.state /\ p.s.timer = o.s.timer /\ p.s.cut = o.s.cut
        /\ p.s.currentMessage # None
    BY <1>2, DataQueueDequeueIs
  <2> HIDE DEF p
  <2> QED
    BY <1>2, <2>1, <2>2, TakenUpIs
<1> QED
  BY <1>1, <1>2

-----------------------------------------------------------------------------
(* Steps: what a station that sends and one that receives may do so that    *)
(* the order of the data is kept.                                           *)

(* As a sender, a station goes on with the data in its buffer or takes the  *)
(* next.                                                                    *)
Advances(m) ==
    /\ Lined(mac'[m], network'[m], offered'[m])
    /\ Waiting(m)' \subseteq Waiting(m)
    /\ IsData(mac'[m].currentMessage) =>
          \/ /\ mac'[m].currentMessage = mac[m].currentMessage
             /\ mac[m].state = "X_BROADCAST" => mac'[m].state = "X_BROADCAST"
          \/ mac'[m].currentMessage.id \in Waiting(m)

(* As a receiver, it begins with a frame that is being sent, or hands up    *)
(* what it has received when that is over, or does neither.                 *)
Ignores(n) ==
    /\ handed'[n] = handed[n] /\ mac'[n].lastSeq = mac[n].lastSeq
    /\ lock'[n] \in {lock[n], None}
Begins(n) ==
    /\ handed'[n] = handed[n] /\ mac'[n].lastSeq = mac[n].lastSeq
    /\ \E m \in Nodes :
          /\ tx[m] # None /\ lock'[n] = tx[m]
          /\ mac'[m] = mac[m] /\ network'[m] = network[m] /\ offered'[m] = offered[m]
Ends(n) ==
    /\ lock[n] \in Frames /\ lock'[n] = None /\ tx[lock[n].from] = None
    /\ handed'[n] = Append(handed[n], lock[n])
    /\ IF lock[n].kind = "data" /\ lock[n].to # Everyone
       THEN /\ mac[n].lastSeq[lock[n].from] # lock[n].id
            /\ mac'[n].lastSeq = [mac[n].lastSeq EXCEPT ![lock[n].from] = lock[n].id]
       ELSE mac'[n].lastSeq = mac[n].lastSeq
Hears(n) == Ignores(n) \/ Begins(n) \/ Ends(n)

LEMMA WaitingIsNat ==
    ASSUME Typed, NEW m \in Nodes
    PROVE  Waiting(m) \subseteq Nat
<1>1. /\ network[m] \in Seq(Messages) /\ mac[m].dataQueue \in Seq(Messages)
      /\ offered[m] \in Seq(Messages)
  BY DEF Typed, Stations
<1> QED
  BY <1>1, IdsAreNumbers DEF Waiting

LEMMA ReachedOn ==
    ASSUME Typed, NEW m \in Nodes, NEW x \in Nat, Advances(m), Reached(m, x)
    PROVE  /\ Reached(m, x)'
           /\ IsData(mac'[m].currentMessage) /\ mac'[m].currentMessage.id = x =>
                 /\ mac'[m].currentMessage = mac[m].currentMessage
                 /\ mac[m].state = "X_BROADCAST" => mac'[m].state = "X_BROADCAST"
<1>1. \A y \in Waiting(m) : y \in Nat /\ x < y
  BY WaitingIsNat DEF Reached
<1>2. \A y \in Waiting(m)' : x < y
  BY <1>1 DEF Advances
<1>3. IsData(mac'[m].currentMessage) =>
        \/ /\ mac'[m].currentMessage = mac[m].currentMessage
           /\ mac[m].state = "X_BROADCAST" => mac'[m].state = "X_BROADCAST"
           /\ x <= mac'[m].currentMessage.id
        \/ x < mac'[m].currentMessage.id /\ mac'[m].currentMessage.id \in Nat
  BY <1>1 DEF Advances, Reached
<1>4. IsData(mac[m].currentMessage)' => x <= mac'[m].currentMessage.id
  BY <1>3 DEF IsData
<1>5. Reached(m, x)'
  BY <1>2, <1>4 DEF Reached
<1> QED
  BY <1>3, <1>5

LEMMA HandedTypes ==
    ASSUME Typed, NEW m \in Nodes, NEW n \in Nodes, NEW i \in DataOf(m, n)
    PROVE  /\ handed[n][i] \in Frames /\ handed[n][i].id \in Nat
           /\ handed[n][i].from = m /\ handed[n][i].kind = "data"
           /\ i \in 1 .. Len(handed[n])
<1>1. handed[n] \in Seq(Frames)
  BY DEF Typed
<1>2. \A f \in Frames : f.id \in Nat
  BY DEF Frames
<1> QED
  BY <1>1, <1>2 DEF DataOf

(* What is handed up at the end of a frame comes last.                      *)
LEMMA HandedAppend ==
    ASSUME NEW h \in Seq(Frames), NEW f \in Frames
    PROVE  /\ Append(h, f) \in Seq(Frames) /\ Len(Append(h, f)) = Len(h) + 1
           /\ Len(h) \in Nat
           /\ \A i \in 1 .. Len(h) : Append(h, f)[i] = h[i] /\ i < Len(h) + 1
           /\ Append(h, f)[Len(h) + 1] = f
           /\ \A i \in 1 .. Len(Append(h, f)) : i \in 1 .. Len(h) \/ i = Len(h) + 1
OBVIOUS

LEMMA EndsFrames ==
    ASSUME Typed, NEW m \in Nodes, NEW n \in Nodes, Ends(n), NEW i \in DataOf(m, n)'
    PROVE  \/ i \in DataOf(m, n) /\ handed'[n][i] = handed[n][i]
           \/ handed'[n][i] = lock[n] /\ lock[n].kind = "data" /\ lock[n].from = m
<1> DEFINE h == handed[n]
<1>1. h \in Seq(Frames) /\ lock[n] \in Frames /\ handed'[n] = Append(h, lock[n])
  BY DEF Typed, Ends
<1>2. i \in 1 .. Len(handed'[n]) /\ handed'[n][i].from = m /\ handed'[n][i].kind = "data"
  BY DEF DataOf
<1>3. CASE i \in 1 .. Len(h)
  <2>1. handed'[n][i] = h[i]
    BY <1>1, <1>3, HandedAppend
  <2> QED
    BY <1>2, <1>3, <2>1 DEF DataOf
<1>4. CASE i = Len(h) + 1
  <2>1. handed'[n][i] = lock[n]
    BY <1>1, <1>4, HandedAppend
  <2> QED
    BY <1>2, <2>1
<1> QED
  BY <1>1, <1>2, <1>3, <1>4, HandedAppend

(* The frame that ended was not a broadcast that is still in the buffer.    *)
LEMMA EndedIsUnicast ==
    ASSUME Typed, NEW n \in Nodes, Ends(n), lock[n].kind = "data",
           \A m \in Nodes : RadioSound(m) /\ Receives(m, n),
           IsData(mac[lock[n].from].currentMessage),
           mac[lock[n].from].currentMessage.id = lock[n].id
    PROVE  /\ lock[n].to = mac[lock[n].from].currentMessage.to
           /\ lock[n].to # Everyone
<1> DEFINE m == lock[n].from
<1>1. m \in Nodes /\ tx[m] = None /\ lock[n] # None
  BY NotNone DEF Ends, Frames
<1>2. /\ lock[n].to = mac[m].currentMessage.to
      /\ lock[n].to = Everyone => mac[m].state = "X_BROADCAST"
  BY <1>1 DEF Receives
<1>3. mac[m].state \notin Transmitting
  BY <1>1 DEF RadioSound
<1> QED
  BY <1>2, <1>3 DEF Transmitting

LEMMA KnownOn ==
    ASSUME Typed, NEW m \in Nodes, NEW n \in Nodes, Known1(m, n),
           \A k \in Nodes : RadioSound(k) /\ Receives(k, n),
           Advances(m), Hears(n)
    PROVE  Known1(m, n)'
<1> DEFINE c == mac[m].currentMessage
<1> DEFINE d == mac'[m].currentMessage
<1> SUFFICES ASSUME NEW i \in DataOf(m, n)'
             PROVE  /\ Reached(m, handed[n][i].id)'
                    /\ IsData(d) /\ d.id = handed'[n][i].id
                       => d.to # Everyone /\ mac'[n].lastSeq[m] = handed'[n][i].id
  BY DEF Known1
(* What was handed up before, with its number kept.                         *)
<1>1. ASSUME i \in DataOf(m, n), handed'[n][i] = handed[n][i],
             IsData(c) /\ c.id = handed[n][i].id =>
                mac'[n].lastSeq[m] = mac[n].lastSeq[m]
      PROVE  /\ Reached(m, handed[n][i].id)'
             /\ IsData(d) /\ d.id = handed'[n][i].id
                => d.to # Everyone /\ mac'[n].lastSeq[m] = handed'[n][i].id
  <2>1. PICK x \in Nat : x = handed[n][i].id
    BY <1>1, HandedTypes
  <2>2. /\ Reached(m, x)
        /\ IsData(c) /\ c.id = x => c.to # Everyone /\ mac[n].lastSeq[m] = x
    BY <1>1, <2>1 DEF Known1
  <2>3. /\ Reached(m, x)'
        /\ IsData(d) /\ d.id = x => d = c
    BY <2>2, ReachedOn
  <2>4. handed'[n][i].id = x
    BY <1>1, <2>1
  <2>5. Reached(m, handed[n][i].id)'
    BY <2>3, <2>4
  <2> QED
    BY <1>1, <2>1, <2>2, <2>3, <2>4, <2>5
<1>2. CASE Ignores(n) \/ Begins(n)
  <2>1. handed'[n] = handed[n] /\ mac'[n].lastSeq = mac[n].lastSeq
    BY <1>2 DEF Ignores, Begins
  <2>2. i \in DataOf(m, n)
    BY <2>1 DEF DataOf
  <2> QED
    BY <1>1, <2>1, <2>2
<1>3. CASE Ends(n)
  <2> DEFINE f == lock[n]
  <2>1. /\ f \in Frames /\ f.id \in Nat /\ f.from \in Nodes /\ f # None
        /\ mac[n].lastSeq \in [Nodes -> Nat]
    <3>1. f \in Frames
      BY <1>3 DEF Ends
    <3>2. mac[n].lastSeq \in [Nodes -> Nat]
      BY DEF Typed, Stations
    <3> QED
      BY <3>1, <3>2, NotNone DEF Frames
  <2>2. CASE i \in DataOf(m, n) /\ handed'[n][i] = handed[n][i]
    <3>1. ASSUME IsData(c), c.id = handed[n][i].id,
                 mac'[n].lastSeq[m] # mac[n].lastSeq[m]
          PROVE  FALSE
      <4>1. f.kind = "data" /\ f.to # Everyone /\ f.from = m /\ mac'[n].lastSeq[m] = f.id
        BY <1>3, <2>1, <3>1 DEF Ends
      <4>2. Reached(m, f.id) /\ handed[n][i].id <= f.id
        BY <2>1, <2>2, <4>1 DEF Receives
      <4>3. handed[n][i].id \in Nat /\ f.id <= c.id
        BY <2>2, <3>1, <4>2, HandedTypes DEF Reached
      <4>4. c.id = f.id
        BY <2>1, <3>1, <4>2, <4>3
      <4>5. mac[n].lastSeq[m] = f.id
        BY <2>2, <3>1, <4>4 DEF Known1
      <4> QED
        BY <3>1, <4>1, <4>5
    <3> QED
      BY <1>1, <2>2, <3>1
  <2>3. CASE handed'[n][i] = f /\ f.kind = "data" /\ f.from = m
    <3>1. Reached(m, f.id)
      BY <2>1, <2>3 DEF Receives
    <3>2. PICK x \in Nat : x = f.id
      BY <2>1
    <3>3. /\ Reached(m, x)'
          /\ IsData(d) /\ d.id = x => d = c
      BY <3>1, <3>2, ReachedOn
    <3>4. handed'[n][i].id = x
      BY <2>3, <3>2
    <3>5. Reached(m, handed[n][i].id)'
      BY <3>3, <3>4
    <3>6. IsData(d) /\ d.id = x => d.to # Everyone /\ mac'[n].lastSeq[m] = x
      <4> SUFFICES ASSUME IsData(d), d.id = x
                   PROVE  d.to # Everyone /\ mac'[n].lastSeq[m] = x
        OBVIOUS
      <4>1. d = c
        BY <3>3
      <4>2. f.to = c.to /\ f.to # Everyone
        BY <1>3, <2>3, <3>2, <4>1, EndedIsUnicast
      <4>3. mac'[n].lastSeq = [mac[n].lastSeq EXCEPT ![m] = f.id]
        BY <1>3, <2>3, <4>2 DEF Ends
      <4> QED
        BY <2>1, <3>2, <4>1, <4>2, <4>3
    <3> QED
      BY <3>4, <3>5, <3>6
  <2> QED
    BY <1>3, <2>2, <2>3, EndsFrames
<1> QED
  BY <1>2, <1>3 DEF Hears

LEMMA CurrentIs ==
    ASSUME Typed, NEW m \in Nodes, IsData(mac[m].currentMessage)
    PROVE  mac[m].currentMessage \in Messages /\ mac[m].currentMessage.id \in Nat
<1>1. mac[m].currentMessage \in Messages \cup {None}
  BY DEF Typed, Stations
<1>2. \A c \in Messages : c.id \in Nat
  BY DEF Messages
<1> QED
  BY <1>1, <1>2 DEF IsData

(* The data on the air is the data in the sender's buffer, the oldest it    *)
(* has.                                                                     *)
LEMMA OnTheAir ==
    ASSUME Typed, NEW m \in Nodes, tx[m] # None, tx[m].kind = "data",
           RadioSound(m), StationSound(mac[m]),
           Lined(mac[m], network[m], offered[m])
    PROVE  /\ IsData(mac[m].currentMessage) /\ tx[m].id \in Nat /\ tx[m].from = m
           /\ mac[m].currentMessage.id = tx[m].id /\ mac[m].currentMessage.to = tx[m].to
           /\ tx[m].to = Everyone => mac[m].state = "X_BROADCAST"
           /\ Reached(m, tx[m].id)
<1>1. /\ tx[m].from = m /\ mac[m].state \in {"X_UNICAST", "X_BROADCAST"}
      /\ IsData(mac[m].currentMessage)
      /\ mac[m].currentMessage.id = tx[m].id /\ mac[m].currentMessage.to = tx[m].to
  BY DEF RadioSound, Carries
<1>2. tx[m].id \in Nat
  BY <1>1, CurrentIs
<1>3. tx[m].to = Everyone => mac[m].state = "X_BROADCAST"
  BY <1>1 DEF StationSound, Exchange
<1>4. /\ Below(tx[m].id, network[m]) /\ Below(tx[m].id, mac[m].dataQueue)
      /\ Below(tx[m].id, offered[m])
  BY <1>1 DEF Lined
<1>5. Reached(m, tx[m].id)
  BY <1>1, <1>2, <1>4 DEF Reached, Waiting, Below
<1> QED
  BY <1>1, <1>2, <1>3, <1>5

LEMMA ReceivesOn ==
    ASSUME Typed, NEW m \in Nodes, NEW n \in Nodes, Known1(m, n), Receives(m, n),
           \A k \in Nodes : /\ RadioSound(k) /\ StationSound(mac[k])
                            /\ Lined(mac[k], network[k], offered[k]),
           Advances(m), Hears(n)
    PROVE  Receives(m, n)'
<1> DEFINE c == mac[m].currentMessage
<1> DEFINE d == mac'[m].currentMessage
<1> DEFINE f == lock'[n]
<1> SUFFICES ASSUME f # None, f.kind = "data", f.from = m
             PROVE  /\ Reached(m, lock[n].id)'
                    /\ IsData(d) /\ d.id = f.id =>
                          /\ f.to = d.to
                          /\ f.to = Everyone => mac'[m].state = "X_BROADCAST"
                    /\ \A i \in DataOf(m, n)' :
                          /\ handed'[n][i].id <= f.id
                          /\ handed'[n][i].id = f.id =>
                                f.to # Everyone /\ mac'[n].lastSeq[m] = f.id
  BY DEF Receives
<1>1. /\ handed'[n] = handed[n] /\ mac'[n].lastSeq = mac[n].lastSeq
      /\ Ignores(n) \/ Begins(n)
  BY DEF Hears, Ignores, Begins, Ends
<1>2. DataOf(m, n)' = DataOf(m, n)
  BY <1>1 DEF DataOf
<1>3. CASE Ignores(n)
  <2>1. f = lock[n]
    BY <1>3 DEF Ignores
  <2>2. lock[n] \in Frames
    BY <2>1 DEF Typed
  <2>3. PICK x \in Nat : x = lock[n].id
    BY <2>2 DEF Frames
  <2>4. /\ Reached(m, x)
        /\ IsData(c) /\ c.id = x =>
              /\ f.to = c.to
              /\ f.to = Everyone => mac[m].state = "X_BROADCAST"
        /\ \A i \in DataOf(m, n) :
              /\ handed[n][i].id <= f.id
              /\ handed[n][i].id = f.id =>
                    f.to # Everyone /\ mac[n].lastSeq[m] = f.id
    BY <2>1, <2>3 DEF Receives
  <2>5. /\ Reached(m, x)'
        /\ IsData(d) /\ d.id = x =>
              /\ d = c
              /\ mac[m].state = "X_BROADCAST" => mac'[m].state = "X_BROADCAST"
    BY <2>4, ReachedOn
  <2>6. Reached(m, lock[n].id)'
    BY <2>1, <2>3, <2>5
  <2> QED
    BY <1>1, <1>2, <2>1, <2>3, <2>4, <2>5, <2>6
<1>4. CASE Begins(n)
  <2>1. PICK k \in Nodes :
          /\ tx[k] # None /\ f = tx[k] /\ mac'[k] = mac[k]
          /\ network'[k] = network[k] /\ offered'[k] = offered[k]
    BY <1>4 DEF Begins
  <2>2. k = m
    BY <2>1 DEF RadioSound
  <2>3. /\ IsData(c) /\ f.id \in Nat /\ c.id = f.id /\ c.to = f.to
        /\ f.to = Everyone => mac[m].state = "X_BROADCAST"
        /\ Reached(m, f.id)
    BY <2>1, <2>2, OnTheAir
  <2>4. PICK x \in Nat : x = f.id
    BY <2>3
  <2>5. Reached(m, x)'
    BY <2>3, <2>4, ReachedOn
  <2>6. Reached(m, lock[n].id)'
    BY <2>4, <2>5
  <2>7. ASSUME NEW i \in DataOf(m, n)
        PROVE  /\ handed[n][i].id <= f.id
               /\ handed[n][i].id = f.id =>
                     f.to # Everyone /\ mac[n].lastSeq[m] = f.id
    BY <2>3 DEF Known1, Reached
  <2> QED
    BY <1>1, <1>2, <2>1, <2>2, <2>3, <2>6, <2>7
<1> QED
  BY <1>1, <1>3, <1>4

LEMMA HandedOnceOn ==
    ASSUME Typed, HandedOnce, \A m, n \in Nodes : Receives(m, n),
           \A n \in Nodes : Hears(n)
    PROVE  HandedOnce'
<1> SUFFICES ASSUME NEW n \in Nodes, NEW i \in 1 .. Len(handed'[n]),
                    NEW j \in 1 .. Len(handed'[n]), i < j,
                    handed'[n][i].from = handed'[n][j].from,
                    handed'[n][i].kind = "data", handed'[n][j].kind = "data"
             PROVE  handed'[n][i].id < handed'[n][j].id
  BY DEF HandedOnce
<1>1. CASE handed'[n] = handed[n]
  BY <1>1 DEF HandedOnce
<1>2. CASE Ends(n)
  <2> DEFINE f == lock[n]
  <2> DEFINE h == handed[n]
  <2>1. /\ h \in Seq(Frames) /\ f \in Frames /\ handed'[n] = Append(h, f)
        /\ f.from \in Nodes /\ f.id \in Nat /\ f # None
    BY <1>2, NotNone DEF Typed, Ends, Frames
  <2>2. i \in 1 .. Len(h) /\ handed'[n][i] = h[i]
    BY <2>1, HandedAppend
  <2>3. CASE j \in 1 .. Len(h)
    <3>1. handed'[n][j] = h[j]
      BY <2>1, <2>3, HandedAppend
    <3> QED
      BY <2>2, <2>3, <3>1 DEF HandedOnce
  <2>4. CASE j = Len(h) + 1
    <3>1. handed'[n][j] = f
      BY <2>1, <2>4, HandedAppend
    <3>2. i \in DataOf(f.from, n) /\ f.kind = "data"
      BY <2>2, <3>1 DEF DataOf
    <3>3. /\ h[i].id <= f.id /\ h[i].id \in Nat
          /\ h[i].id = f.id => f.to # Everyone /\ mac[n].lastSeq[f.from] = f.id
      BY <2>1, <3>2, HandedTypes DEF Receives
    <3>4. h[i].id # f.id
      BY <1>2, <3>2, <3>3 DEF Ends
    <3> QED
      BY <2>1, <2>2, <3>1, <3>3, <3>4
  <2> QED
    BY <2>1, <2>3, <2>4, HandedAppend
<1> QED
  BY <1>1, <1>2 DEF Hears, Ignores, Begins

(* A step of one station that keeps its radio, its own fields and the order *)
(* of the data keeps the invariant.                                         *)
Still(k) ==
    /\ mac'[k] = mac[k] /\ network'[k] = network[k] /\ offered'[k] = offered[k]
    /\ tx'[k] = tx[k] /\ lock'[k] = lock[k] /\ hears'[k] = hears[k]
    /\ handed'[k] = handed[k]

LEMMA StillIs ==
    ASSUME Typed, NEW k \in Nodes, Still(k), RadioSound(k), StationSound(mac[k]),
           Lined(mac[k], network[k], offered[k])
    PROVE  /\ RadioSound(k)' /\ StationSound(mac[k])'
           /\ Advances(k) /\ Hears(k)
<1>1. RadioSound(k)'
  BY DEF Still, RadioSound
<1>2. StationSound(mac[k])'
  BY DEF Still
<1>3. Waiting(k)' = Waiting(k)
  BY DEF Still, Waiting
<1>4. Advances(k)
  BY <1>3 DEF Still, Advances
<1>5. Hears(k)
  BY DEF Still, Hears, Ignores
<1> QED
  BY <1>1, <1>2, <1>4, <1>5

LEMMA StepKeeps ==
    ASSUME IInv, Typed', NEW n \in Nodes, \A k \in Nodes \ {n} : Still(k),
           RadioSound(n)', StationSound(mac[n])', Advances(n), Hears(n)
    PROVE  IInv'
<1>1. /\ Typed /\ HandedOnce
      /\ \A k \in Nodes : /\ RadioSound(k) /\ StationSound(mac[k])
                          /\ Lined(mac[k], network[k], offered[k])
      /\ \A m, k \in Nodes : Known1(m, k) /\ Receives(m, k)
  BY DEF IInv
<1>2. ASSUME NEW k \in Nodes
      PROVE  /\ RadioSound(k)' /\ StationSound(mac[k])'
             /\ Advances(k) /\ Hears(k)
  BY <1>1, StillIs
<1>3. ASSUME NEW k \in Nodes
      PROVE  Lined(mac[k], network[k], offered[k])'
  BY <1>2 DEF Advances
<1>4. ASSUME NEW m \in Nodes, NEW k \in Nodes
      PROVE  Known1(m, k)' /\ Receives(m, k)'
  BY <1>1, <1>2, KnownOn, ReceivesOn
<1>5. HandedOnce'
  BY <1>1, <1>2, HandedOnceOn
<1> QED
  BY <1>2, <1>3, <1>4, <1>5 DEF IInv

-----------------------------------------------------------------------------
(* Handlers as steps.                                                       *)

LEMMA OutcomeIs ==
    ASSUME Typed, NEW n \in Nodes
    PROVE  /\ Outcome(n) \in Outcomes /\ Outcome(n).s = mac[n]
           /\ Outcome(n).net = network[n] /\ Outcome(n).send = None
           /\ Outcome(n).up = <<>>
<1>1. mac[n] \in Stations /\ network[n] \in Seq(Messages)
  BY DEF Typed
<1>2. <<>> \in Seq(Frames) /\ {} \in SUBSET (Nat \X (Nodes \cup {Everyone}))
  OBVIOUS
<1> QED
  BY <1>1, <1>2 DEF Outcome, Outcomes

LEMMA SpentIs ==
    ASSUME Typed, NEW n \in Nodes
    PROVE  /\ Spent(n) \in Outcomes /\ SameLine(Outcome(n), Spent(n))
           /\ Silent(Outcome(n), Spent(n)) /\ Follows(Outcome(n), Spent(n))
           /\ Spent(n).s.state = mac[n].state /\ Spent(n).send = None
           /\ Spent(n).s.currentMessage = mac[n].currentMessage
<1> DEFINE o == Outcome(n)
<1>1. o \in Outcomes /\ o.s = mac[n] /\ o.send = None
  BY OutcomeIs
<1>2. Spent(n) = CancelTimer(o)
  BY DEF Spent
<1> HIDE DEF o
<1>3. /\ CancelTimer(o) \in Outcomes
      /\ SameLine(o, CancelTimer(o)) /\ Silent(o, CancelTimer(o))
      /\ CancelTimer(o).s.state = o.s.state /\ CancelTimer(o).send = o.send
  BY <1>1, CancelTimerIs
<1>4. Follows(o, CancelTimer(o))
  BY <1>1, <1>3, FollowsSame
<1> QED
  BY <1>1, <1>2, <1>3, <1>4 DEF o, SameLine

LEMMA DoneIs ==
    ASSUME Typed, NEW n \in Nodes, NEW r \in Outcomes, Done(n, r)
    PROVE  /\ mac' \in [Nodes -> Stations] /\ network' \in [Nodes -> Seq(Messages)]
           /\ handed' \in [Nodes -> Seq(Frames)]
           /\ mac'[n] = r.s /\ network'[n] = r.net
           /\ handed'[n] = handed[n] \o r.up
           /\ r.up = <<>> => handed'[n] = handed[n]
           /\ \A k \in Nodes \ {n} : /\ mac'[k] = mac[k] /\ network'[k] = network[k]
                                     /\ handed'[k] = handed[k]
<1>1. r.s \in Stations /\ r.net \in Seq(Messages) /\ r.up \in Seq(Frames)
  BY DEF Outcomes
<1>2. /\ mac \in [Nodes -> Stations] /\ network \in [Nodes -> Seq(Messages)]
      /\ handed \in [Nodes -> Seq(Frames)]
  BY DEF Typed
<1>3. handed[n] \in Seq(Frames) /\ handed[n] \o r.up \in Seq(Frames)
  BY <1>1, <1>2
<1>4. r.up = <<>> => handed[n] \o r.up = handed[n]
  BY <1>3
<1>5. /\ mac' = [mac EXCEPT ![n] = r.s]
      /\ network' = [network EXCEPT ![n] = r.net]
      /\ handed' = [handed EXCEPT ![n] = handed[n] \o r.up]
  BY DEF Done
<1> QED
  BY <1>1, <1>2, <1>3, <1>4, <1>5

LEMMA PhyIdleIs ==
    ASSUME NEW n \in Nodes, PhyIdle(n)
    PROVE  tx[n] = None /\ lock[n] = None /\ hears[n] = {}
BY DEF PhyIdle, PhyStatus

LEMMA AdvancesIs ==
    ASSUME Typed, NEW n \in Nodes, NEW p \in Outcomes, NEW r \in Outcomes,
           Follows(p, r), Done(n, r), offered'[n] \in Seq(Messages),
           p.s.currentMessage = mac[n].currentMessage, p.s.state = mac[n].state,
           Lined(p.s, p.net, offered'[n]),
           Ids(p.net) \cup Ids(p.s.dataQueue) \cup Ids(offered'[n]) \subseteq Waiting(n)
    PROVE  Advances(n)
<1>1. mac'[n] = r.s /\ network'[n] = r.net
  BY DoneIs
<1>2. /\ Lined(r.s, r.net, offered'[n])
      /\ Ids(r.net) \subseteq Ids(p.net)
      /\ Ids(r.s.dataQueue) \subseteq Ids(p.s.dataQueue)
      /\ IsData(r.s.currentMessage) =>
            \/ /\ r.s.currentMessage = p.s.currentMessage
               /\ p.s.state = "X_BROADCAST" => r.s.state = "X_BROADCAST"
            \/ r.s.currentMessage.id \in Ids(p.net) \cup Ids(p.s.dataQueue)
  BY DEF Follows
<1>3. Waiting(n)' \subseteq Waiting(n)
  BY <1>1, <1>2 DEF Waiting
<1> QED
  BY <1>1, <1>2, <1>3 DEF Advances

LEMMA AdvancesAlone ==
    ASSUME Typed, NEW n \in Nodes, NEW r \in Outcomes, Follows(Outcome(n), r),
           Done(n, r), offered' = offered, Lined(mac[n], network[n], offered[n])
    PROVE  Advances(n)
<1> DEFINE p == Outcome(n)
<1>1. p \in Outcomes /\ p.s = mac[n] /\ p.net = network[n]
  BY OutcomeIs
<1>2. offered'[n] = offered[n] /\ offered[n] \in Seq(Messages)
  BY DEF Typed
<1> HIDE DEF p
<1>3. Follows(p, r)
  BY DEF p
<1>4. Ids(p.net) \cup Ids(p.s.dataQueue) \cup Ids(offered'[n]) \subseteq Waiting(n)
  BY <1>1, <1>2 DEF Waiting
<1> QED
  BY <1>1, <1>2, <1>3, <1>4, AdvancesIs

(* The radio and the station agree after a handler.                         *)
LEMMA RadioKept ==
    ASSUME Typed, NEW n \in Nodes, NEW r \in Outcomes, NEW idle \in BOOLEAN,
           RadioSound(n), StationSound(mac[n]), Turns(n, Outcome(n), r, idle),
           mac'[n] = r.s, tx'[n] = IF r.send = None THEN tx[n] ELSE r.send,
           lock'[n] \in {lock[n], None}, r.send # None => lock'[n] = None,
           hears'[n] \subseteq hears[n],
           idle => lock'[n] = None /\ hears'[n] = {}
    PROVE  RadioSound(n)' /\ StationSound(mac[n])'
<1>0. Outcome(n).s = mac[n]
  BY OutcomeIs
<1>1. CASE Rests(Outcome(n), r)
  <2>1. /\ r.s.state = mac[n].state /\ r.s.timer = mac[n].timer /\ r.s.cut = mac[n].cut
        /\ mac[n].currentMessage \in {None, r.s.currentMessage}
        /\ HasToSend(mac[n]) => HasToSend(r.s)
        /\ tx'[n] = tx[n]
    BY <1>0, <1>1 DEF Rests
  <2>2. StationSound(r.s)
    BY <2>1 DEF StationSound
  <2>3. tx[n] # None => Carries(tx[n], r.s)
    BY <2>1 DEF RadioSound, Carries, IsData
  <2> QED
    BY <2>1, <2>2, <2>3 DEF RadioSound
<1>2. CASE mac[n].state \notin Transmitting /\ Ready(n, r, idle)
  <2>1. tx[n] = None
    BY <1>2 DEF RadioSound
  <2>2. tx'[n] = r.send
    BY <2>1
  <2> QED
    BY <1>2, <2>2 DEF RadioSound, Ready, Sends1
<1> QED
  BY <1>0, <1>1, <1>2 DEF Turns

LEMMA TxTyped ==
    ASSUME Typed, NEW n \in Nodes, NEW r \in Outcomes, Sends(n, r)
    PROVE  /\ tx' \in [Nodes -> Frames \cup {None}]
           /\ tx'[n] = IF r.send = None THEN tx[n] ELSE r.send
           /\ \A k \in Nodes \ {n} : tx'[k] = tx[k]
<1>1. r.send \in Frames \cup {None}
  BY DEF Outcomes
<1>2. tx' = IF r.send = None THEN tx ELSE [tx EXCEPT ![n] = r.send]
  BY DEF Sends
<1> QED
  BY <1>1, <1>2 DEF Typed

LEMMA ReachesIs ==
    ASSUME NEW n \in Nodes
    PROVE  Reaches(n) \subseteq InRange
BY DEF Reaches

LEMMA HandledKeeps ==
    ASSUME IInv, NEW n \in Nodes, NEW r \in Outcomes, NEW idle \in BOOLEAN,
           Handled(n, r), offered' \in [Nodes -> Seq(Messages)],
           \A k \in Nodes \ {n} : offered'[k] = offered[k],
           Silent(Outcome(n), r), Turns(n, Outcome(n), r, idle),
           idle => PhyIdle(n), Advances(n)
    PROVE  IInv'
<1>1. Typed /\ RadioSound(n) /\ StationSound(mac[n])
  BY DEF IInv
<1>2. Done(n, r) /\ Sends(n, r) /\ hears' = hears
  BY DEF Handled
<1>3. /\ mac' \in [Nodes -> Stations] /\ network' \in [Nodes -> Seq(Messages)]
      /\ handed' \in [Nodes -> Seq(Frames)]
      /\ mac'[n] = r.s
      /\ r.up = <<>> => handed'[n] = handed[n]
      /\ \A k \in Nodes \ {n} : /\ mac'[k] = mac[k] /\ network'[k] = network[k]
                                /\ handed'[k] = handed[k]
  BY <1>1, <1>2, DoneIs
<1>4. /\ tx' \in [Nodes -> Frames \cup {None}]
      /\ tx'[n] = IF r.send = None THEN tx[n] ELSE r.send
      /\ \A k \in Nodes \ {n} : tx'[k] = tx[k]
  BY <1>1, <1>2, TxTyped
<1>5. /\ lock' \in [Nodes -> Frames \cup {None}]
      /\ lock'[n] = IF r.send = None THEN lock[n] ELSE None
      /\ \A k \in Nodes \ {n} : lock'[k] = lock[k]
  <2>1. lock' = IF r.send = None THEN lock ELSE [lock EXCEPT ![n] = None]
    BY DEF Handled
  <2> QED
    BY <1>1, <2>1 DEF Typed
<1>6. fresh' \subseteq InRange
  <2>1. fresh' = IF r.send = None THEN fresh ELSE fresh \cup Reaches(n)
    BY DEF Handled
  <2> QED
    BY <1>1, <2>1, ReachesIs DEF Typed
<1>7. Typed'
  BY <1>1, <1>2, <1>3, <1>4, <1>5, <1>6 DEF Typed
<1>8. RadioSound(n)' /\ StationSound(mac[n])'
  <2>1. idle => lock'[n] = None /\ hears'[n] = {}
    BY <1>2, <1>5, PhyIdleIs
  <2> QED
    BY <1>1, <1>2, <1>3, <1>4, <1>5, <2>1, RadioKept
<1>9. Hears(n)
  <2>1. Outcome(n).s = mac[n] /\ Outcome(n).up = <<>>
    BY <1>1, OutcomeIs
  <2>2. handed'[n] = handed[n] /\ mac'[n].lastSeq = mac[n].lastSeq
    BY <1>3, <2>1 DEF Silent
  <2> QED
    BY <1>5, <2>2 DEF Hears, Ignores
<1>10. \A k \in Nodes \ {n} : Still(k)
  BY <1>2, <1>3, <1>4, <1>5 DEF Still
<1> QED
  BY <1>7, <1>8, <1>9, <1>10, StepKeeps

-----------------------------------------------------------------------------
(* The steps of the layers above.                                           *)

LEMMA OfferIs ==
    ASSUME Typed, NEW n \in Nodes, NEW via, Offer(n, via)
    PROVE  LET off == offered[n] IN
           /\ off \in Seq(Messages) /\ off # <<>> /\ Head(off).via = via
           /\ Head(off) \in Messages /\ Tail(off) \in Seq(Messages)
           /\ Ids(Tail(off)) \subseteq Ids(off) /\ Head(off).id \in Ids(off)
           /\ offered' \in [Nodes -> Seq(Messages)] /\ offered'[n] = Tail(off)
           /\ \A k \in Nodes \ {n} : offered'[k] = offered[k]
<1>1. /\ offered \in [Nodes -> Seq(Messages)] /\ offered[n] \in Seq(Messages)
      /\ offered[n] # <<>>
  BY DEF Typed, Offer
<1>2. /\ Tail(offered[n]) \in Seq(Messages) /\ Head(offered[n]) \in Messages
      /\ Ids(Tail(offered[n])) \subseteq Ids(offered[n])
      /\ Head(offered[n]).id \in Ids(offered[n])
  BY <1>1, TailFacts
<1>3. offered' = [offered EXCEPT ![n] = Tail(offered[n])] /\ Head(offered[n]).via = via
  BY DEF Offer
<1> QED
  BY <1>1, <1>2, <1>3

(* What is first in order may go on to the end of its queue.                *)
LEMMA FirstOffered ==
    ASSUME NEW s \in Stations, NEW net \in Seq(Messages), NEW off \in Seq(Messages),
           off # <<>>, Lined(s, net, off)
    PROVE  /\ Ordered(Tail(off)) /\ Below(Head(off).id, Tail(off))
           /\ \A x \in Ids(net) \cup Ids(s.dataQueue) :
                 x < Head(off).id /\ Below(x, Tail(off))
           /\ IsData(s.currentMessage) =>
                 /\ s.currentMessage.id < Head(off).id
                 /\ Below(s.currentMessage.id, Tail(off))
           /\ \A path : OnPath(path, off) =>
                 /\ OnPath(path, Tail(off)) /\ Head(off).via \in {path, "mgmt"}
                 /\ Head(off).via = "mgmt" => Head(off).kind # "data"
<1>1. /\ Head(off) \in Messages /\ Head(off).id \in Ids(off)
      /\ Ids(Tail(off)) \subseteq Ids(off)
      /\ Ordered(off) => Ordered(Tail(off)) /\ Below(Head(off).id, Tail(off))
      /\ \A path : OnPath(path, off) => OnPath(path, Tail(off))
  BY TailFacts
<1>2. Head(off) = off[1] /\ 1 \in 1 .. Len(off)
  OBVIOUS
<1>3. \A path : OnPath(path, off) =>
                 /\ Head(off).via \in {path, "mgmt"}
                 /\ Head(off).via = "mgmt" => Head(off).kind # "data"
  BY <1>2 DEF OnPath
<1> QED
  BY <1>1, <1>3 DEF Lined, Below

LEMMA NetworkHasPacketKeeps ==
    ASSUME IInv, NEW n \in Nodes, NetworkLayerHasPacketToSend(n)
    PROVE  IInv'
<1> DEFINE off == offered[n]
<1> DEFINE o == Outcome(n)
<1> DEFINE p == [o EXCEPT !.net = Append(@, Head(off))]
<1>1. Typed /\ Lined(mac[n], network[n], off)
  BY DEF IInv
<1>2. /\ off \in Seq(Messages) /\ off # <<>> /\ Head(off).via = "network"
      /\ Head(off) \in Messages /\ Tail(off) \in Seq(Messages)
      /\ Ids(Tail(off)) \subseteq Ids(off) /\ Head(off).id \in Ids(off)
      /\ offered' \in [Nodes -> Seq(Messages)] /\ offered'[n] = Tail(off)
      /\ \A k \in Nodes \ {n} : offered'[k] = offered[k]
  BY <1>1, OfferIs DEF NetworkLayerHasPacketToSend
<1>3. PICK idle \in BOOLEAN : idle = PhyIdle(n)
  <2>1. PhyIdle(n) \in BOOLEAN
    BY SMT DEF PhyIdle
  <2> QED
    BY Zenon, <2>1
<1> DEFINE r == MoveFromTheNetworkLayer(p, idle)
<1>4. Handled(n, r)
  BY Zenon, <1>3 DEF NetworkLayerHasPacketToSend
<1>5. /\ o \in Outcomes /\ o.s = mac[n] /\ o.net = network[n] /\ o.send = None
      /\ o.up = <<>>
  BY <1>1, OutcomeIs
<1>6. /\ mac[n] \in Stations /\ network[n] \in Seq(Messages)
  BY <1>1 DEF Typed
<1>7. /\ Append(network[n], Head(off)) \in Seq(Messages)
      /\ Append(network[n], Head(off)) # <<>>
      /\ Ids(Append(network[n], Head(off))) = Ids(network[n]) \cup {Head(off).id}
      /\ Ordered(network[n]) /\ (\A x \in Ids(network[n]) : x < Head(off).id)
         => Ordered(Append(network[n], Head(off)))
  BY <1>2, <1>6, AppendFacts
<1> HIDE DEF o
<1>8. /\ p \in Outcomes /\ Silent(o, p) /\ p.send = None /\ p.s = mac[n]
      /\ p.net = Append(network[n], Head(off))
  BY <1>5, <1>7 DEF Outcomes, Silent
<1> HIDE DEF p
<1>9. r \in Outcomes /\ Silent(p, r) /\ Follows(p, r) /\ Turns(n, p, r, idle)
  BY <1>7, <1>8, MoveFromTheNetworkLayerIs
<1> HIDE DEF r
<1>10. Lined(p.s, p.net, Tail(off))
  <2>1. /\ Ordered(Tail(off)) /\ Below(Head(off).id, Tail(off))
        /\ \A x \in Ids(network[n]) \cup Ids(mac[n].dataQueue) :
              x < Head(off).id /\ Below(x, Tail(off))
        /\ IsData(mac[n].currentMessage) =>
              /\ mac[n].currentMessage.id < Head(off).id
              /\ Below(mac[n].currentMessage.id, Tail(off))
        /\ \A path : OnPath(path, off) =>
              OnPath(path, Tail(off)) /\ Head(off).via \in {path, "mgmt"}
    BY <1>1, <1>2, <1>6, FirstOffered
  <2>2. ~OnPath("data", off)
    BY <1>2, <2>1
  <2>3. mac[n].dataQueue = <<>> /\ OnPath("network", Tail(off))
    BY <1>1, <2>1, <2>2 DEF Lined
  <2>4. Ordered(p.net)
    BY <1>1, <1>7, <1>8, <2>1 DEF Lined
  <2>5. IsData(mac[n].currentMessage) => Below(mac[n].currentMessage.id, p.net)
    BY <1>1, <1>7, <1>8, <2>1 DEF Lined, Below
  <2>6. \A x \in Ids(p.net) \cup Ids(mac[n].dataQueue) : Below(x, Tail(off))
    BY <1>7, <1>8, <2>1
  <2> QED
    BY <1>1, <1>8, <2>1, <2>3, <2>4, <2>5, <2>6 DEF Lined
<1>11. Advances(n)
  <2>1. Ids(p.net) \cup Ids(p.s.dataQueue) \cup Ids(offered'[n]) \subseteq Waiting(n)
    BY <1>2, <1>7, <1>8 DEF Waiting
  <2>2. Done(n, r)
    BY <1>4 DEF Handled
  <2> QED
    BY <1>1, <1>2, <1>8, <1>9, <1>10, <2>1, <2>2, AdvancesIs
<1>12. Silent(o, r) /\ Turns(n, o, r, idle)
  BY <1>5, <1>8, <1>9, SilentOn DEF Turns, Rests, HasToSend
<1> QED
  BY <1>2, <1>3, <1>4, <1>9, <1>11, <1>12, HandledKeeps DEF o

LEMMA DataQueueEnqueueKeeps ==
    ASSUME IInv, NEW n \in Nodes, DataQueueEnqueue(n)
    PROVE  IInv'
<1> DEFINE off == offered[n]
<1> DEFINE o == Outcome(n)
<1> DEFINE q == mac[n].dataQueue
<1> DEFINE p == [o EXCEPT !.s.dataQueue = Append(@, Head(off))]
<1>1. Typed /\ Lined(mac[n], network[n], off)
  BY DEF IInv
<1>2. /\ off \in Seq(Messages) /\ off # <<>> /\ Head(off).via = "data"
      /\ Head(off) \in Messages /\ Tail(off) \in Seq(Messages)
      /\ Ids(Tail(off)) \subseteq Ids(off) /\ Head(off).id \in Ids(off)
      /\ offered' \in [Nodes -> Seq(Messages)] /\ offered'[n] = Tail(off)
      /\ \A k \in Nodes \ {n} : offered'[k] = offered[k]
  BY <1>1, OfferIs DEF DataQueueEnqueue
<1>3. PICK idle \in BOOLEAN : idle = PhyIdle(n)
  <2>1. PhyIdle(n) \in BOOLEAN
    BY SMT DEF PhyIdle
  <2> QED
    BY Zenon, <2>1
<1> DEFINE r == IF Len(p.s.dataQueue) = 1 THEN DataQueueHasPacketToSend(p, idle) ELSE p
<1>4. Handled(n, r)
  BY Zenon, <1>3 DEF DataQueueEnqueue
<1>5. /\ o \in Outcomes /\ o.s = mac[n] /\ o.net = network[n] /\ o.send = None
      /\ o.up = <<>>
  BY <1>1, OutcomeIs
<1>6. /\ mac[n] \in Stations /\ q \in Seq(Messages) /\ network[n] \in Seq(Messages)
  BY <1>1 DEF Typed, Stations
<1>7. /\ Append(q, Head(off)) \in Seq(Messages) /\ Append(q, Head(off)) # <<>>
      /\ Ids(Append(q, Head(off))) = Ids(q) \cup {Head(off).id}
      /\ Ordered(q) /\ (\A x \in Ids(q) : x < Head(off).id)
         => Ordered(Append(q, Head(off)))
  BY <1>2, <1>6, AppendFacts
<1> HIDE DEF o
<1>8. /\ p \in Outcomes /\ Silent(o, p) /\ p.send = None
      /\ p.s.dataQueue = Append(q, Head(off)) /\ p.net = network[n]
      /\ p.s.state = mac[n].state /\ p.s.currentMessage = mac[n].currentMessage
      /\ p.s.timer = mac[n].timer /\ p.s.cut = mac[n].cut
      /\ p.s.mngmtQueue = mac[n].mngmtQueue
  BY <1>5, <1>7 DEF Outcomes, Stations, Silent
<1> HIDE DEF p
<1>9. r \in Outcomes /\ Silent(p, r) /\ Follows(p, r) /\ Turns(n, p, r, idle)
  BY <1>7, <1>8, DataQueueHasPacketToSendIs, UnchangedIs
<1> HIDE DEF r
<1>10. Lined(p.s, p.net, Tail(off))
  <2>1. /\ Ordered(Tail(off)) /\ Below(Head(off).id, Tail(off))
        /\ \A x \in Ids(network[n]) \cup Ids(q) :
              x < Head(off).id /\ Below(x, Tail(off))
        /\ IsData(mac[n].currentMessage) =>
              /\ mac[n].currentMessage.id < Head(off).id
              /\ Below(mac[n].currentMessage.id, Tail(off))
        /\ \A path : OnPath(path, off) =>
              OnPath(path, Tail(off)) /\ Head(off).via \in {path, "mgmt"}
    BY <1>1, <1>2, <1>6, FirstOffered
  <2>2. ~OnPath("network", off)
    BY <1>2, <2>1
  <2>3. network[n] = <<>> /\ OnPath("data", Tail(off))
    BY <1>1, <2>1, <2>2 DEF Lined
  <2>4. Ordered(p.s.dataQueue)
    BY <1>1, <1>7, <1>8, <2>1 DEF Lined
  <2>5. IsData(mac[n].currentMessage) => Below(mac[n].currentMessage.id, p.s.dataQueue)
    BY <1>1, <1>7, <1>8, <2>1 DEF Lined, Below
  <2>6. \A x \in Ids(p.net) \cup Ids(p.s.dataQueue) : Below(x, Tail(off))
    BY <1>7, <1>8, <2>1
  <2> QED
    BY <1>1, <1>8, <2>1, <2>3, <2>4, <2>5, <2>6 DEF Lined
<1>11. Advances(n)
  <2>1. Ids(p.net) \cup Ids(p.s.dataQueue) \cup Ids(offered'[n]) \subseteq Waiting(n)
    BY <1>2, <1>7, <1>8 DEF Waiting
  <2>2. Done(n, r)
    BY <1>4 DEF Handled
  <2> QED
    BY <1>1, <1>2, <1>8, <1>9, <1>10, <2>1, <2>2, AdvancesIs
<1>12. Silent(o, r) /\ Turns(n, o, r, idle)
  BY <1>5, <1>8, <1>9, SilentOn DEF Turns, Rests, HasToSend
<1> QED
  BY <1>2, <1>3, <1>4, <1>9, <1>11, <1>12, HandledKeeps DEF o

LEMMA ManagementRequestKeeps ==
    ASSUME IInv, NEW n \in Nodes, ManagementRequest(n)
    PROVE  IInv'
<1> DEFINE off == offered[n]
<1> DEFINE o == Outcome(n)
<1> DEFINE p == [o EXCEPT !.s.mgmtSendResponse = FALSE]
<1>1. Typed /\ Lined(mac[n], network[n], off)
  BY DEF IInv
<1>2. /\ off \in Seq(Messages) /\ off # <<>> /\ Head(off).via = "mgmt"
      /\ Head(off) \in Messages /\ Tail(off) \in Seq(Messages)
      /\ Ids(Tail(off)) \subseteq Ids(off)
      /\ offered' \in [Nodes -> Seq(Messages)] /\ offered'[n] = Tail(off)
      /\ \A k \in Nodes \ {n} : offered'[k] = offered[k]
  BY <1>1, OfferIs DEF ManagementRequest
<1>3. PICK idle \in BOOLEAN : idle = PhyIdle(n)
  <2>1. PhyIdle(n) \in BOOLEAN
    BY SMT DEF PhyIdle
  <2> QED
    BY Zenon, <2>1
<1> DEFINE r == MgmtQueueEnqueue(p, n, Head(off), idle)
<1>4. Handled(n, r)
  BY Zenon, <1>3 DEF ManagementRequest
<1>5. /\ o \in Outcomes /\ o.s = mac[n] /\ o.net = network[n] /\ o.send = None
      /\ o.up = <<>>
  BY <1>1, OutcomeIs
<1>6. mac[n] \in Stations /\ network[n] \in Seq(Messages)
  BY <1>1 DEF Typed
<1> HIDE DEF o
<1>7. /\ p \in Outcomes /\ Silent(o, p) /\ SameLine(o, p) /\ p.send = None
      /\ p.s.state = mac[n].state /\ p.s.timer = mac[n].timer
      /\ p.s.cut = mac[n].cut /\ ~p.s.mgmtSendResponse
  <2>1. p \in Outcomes /\ p.s.mgmtSendResponse = FALSE
    BY <1>5 DEF Outcomes, Stations
  <2>2. Silent(o, p) /\ SameLine(o, p) /\ p.send = o.send
    BY <1>5 DEF Outcomes, Stations, Silent, SameLine
  <2>3. /\ p.s.state = o.s.state /\ p.s.timer = o.s.timer /\ p.s.cut = o.s.cut
    BY <1>5 DEF Outcomes, Stations
  <2> HIDE DEF p
  <2> QED
    BY <1>5, <2>1, <2>2, <2>3
<1> HIDE DEF p
<1>8. /\ Ordered(Tail(off)) /\ Head(off).kind # "data"
      /\ \A x \in Ids(network[n]) \cup Ids(mac[n].dataQueue) : Below(x, Tail(off))
      /\ IsData(mac[n].currentMessage) => Below(mac[n].currentMessage.id, Tail(off))
      /\ \A path : OnPath(path, off) => OnPath(path, Tail(off))
  <2>1. /\ Ordered(Tail(off))
        /\ \A x \in Ids(network[n]) \cup Ids(mac[n].dataQueue) : Below(x, Tail(off))
        /\ IsData(mac[n].currentMessage) => Below(mac[n].currentMessage.id, Tail(off))
        /\ \A path : OnPath(path, off) =>
              /\ OnPath(path, Tail(off))
              /\ Head(off).via = "mgmt" => Head(off).kind # "data"
    BY <1>1, <1>2, <1>6, FirstOffered
  <2>2. OnPath("network", off) \/ OnPath("data", off)
    BY <1>1 DEF Lined
  <2> QED
    BY <1>2, <2>1, <2>2
<1>9. r \in Outcomes /\ Silent(p, r) /\ Follows(p, r) /\ Turns(n, p, r, idle)
  BY <1>2, <1>7, <1>8, MgmtQueueEnqueueIs
<1> HIDE DEF r
<1>10. Lined(p.s, p.net, Tail(off))
  BY <1>1, <1>5, <1>7, <1>8 DEF Lined, SameLine
<1>11. Advances(n)
  <2>1. Ids(p.net) \cup Ids(p.s.dataQueue) \cup Ids(offered'[n]) \subseteq Waiting(n)
    BY <1>2, <1>5, <1>7 DEF Waiting, SameLine
  <2>2. Done(n, r)
    BY <1>4 DEF Handled
  <2>3. p.s.currentMessage = mac[n].currentMessage
    BY <1>5, <1>7 DEF SameLine
  <2> QED
    BY <1>1, <1>2, <1>7, <1>9, <1>10, <2>1, <2>2, <2>3, AdvancesIs
<1>12. Silent(o, r) /\ Turns(n, o, r, idle)
  BY <1>5, <1>7, <1>9, SilentOn DEF Turns, Rests, HasToSend, SameLine
<1> QED
  BY <1>2, <1>3, <1>4, <1>9, <1>11, <1>12, HandledKeeps DEF o

-----------------------------------------------------------------------------
(* The steps of the timer.                                                  *)

LEMMA PhyIdleBoolean ==
    ASSUME NEW n \in Nodes
    PROVE  \E idle \in BOOLEAN : idle = PhyIdle(n)
<1>1. PhyIdle(n) \in BOOLEAN
  BY SMT DEF PhyIdle
<1> QED
  BY Zenon, <1>1

LEMMA HandledAlone ==
    ASSUME IInv, NEW n \in Nodes, NEW r \in Outcomes, NEW idle \in BOOLEAN,
           Handled(n, r), offered' = offered, mac[n].state \notin Transmitting,
           Silent(Outcome(n), r), Follows(Outcome(n), r), Ready(n, r, idle),
           idle => PhyIdle(n)
    PROVE  IInv'
<1>1. Typed /\ Lined(mac[n], network[n], offered[n])
  BY DEF IInv
<1>2. Done(n, r)
  BY DEF Handled
<1>3. Advances(n)
  BY <1>1, <1>2, AdvancesAlone
<1>4. offered' \in [Nodes -> Seq(Messages)]
  BY <1>1 DEF Typed
<1>5. Turns(n, Outcome(n), r, idle)
  BY <1>1, OutcomeIs DEF Turns
<1> QED
  BY <1>3, <1>4, <1>5, HandledKeeps

(* A timer that fires first looks for a beacon that is due.                 *)
LEMMA TimeoutKeeps ==
    ASSUME IInv, NEW n \in Nodes, NEW r \in Outcomes, NEW idle \in BOOLEAN,
           Timeout(n, r), offered' = offered, mac[n].state \notin Transmitting,
           Silent(Outcome(n), r), Follows(Outcome(n), r), Ready(n, r, idle),
           idle => PhyIdle(n)
    PROVE  IInv'
<1> DEFINE o == Outcome(n)
<1> DEFINE w == WaitForBeacon(o)
<1>1. CASE CanHandleDueBeacon(mac[n], PhyIdle(n))
  <2>1. Typed
    BY DEF IInv
  <2>2. o \in Outcomes /\ o.s = mac[n] /\ o.send = None
    BY <2>1, OutcomeIs
  <2>3. Handled(n, w)
    BY Zenon, <1>1 DEF Timeout
  <2> HIDE DEF o
  <2>4. NotInBroadcast(o)
    BY <2>2 DEF NotInBroadcast, Transmitting
  <2>5. w \in Outcomes /\ Silent(o, w) /\ Follows(o, w) /\ Calm(w, idle)
    BY <2>2, <2>4, WaitForBeaconIs
  <2> HIDE DEF w
  <2>6. Ready(n, w, idle)
    BY <2>5, CalmIsReady
  <2> QED
    BY <2>3, <2>5, <2>6, HandledAlone DEF o
<1>2. CASE ~CanHandleDueBeacon(mac[n], PhyIdle(n))
  <2>1. Handled(n, r)
    BY Zenon, <1>2 DEF Timeout
  <2> QED
    BY <2>1, HandledAlone
<1> QED
  BY <1>1, <1>2

(* The frame in the local buffer, or the first of the queues, is sent.      *)
LEMMA StartSendingIs ==
    ASSUME Typed, NEW n \in Nodes, NEW idle \in BOOLEAN,
           mac[n].state = "CONTENDING", StationSound(mac[n])
    PROVE  LET r == StartSending(n) IN
           /\ r \in Outcomes /\ Silent(Outcome(n), r) /\ Follows(Outcome(n), r)
           /\ Ready(n, r, idle)
<1> DEFINE e == Outcome(n)
<1> DEFINE p == Spent(n)
<1> DEFINE o == MoveAPacketToTheLocalBuffer(p)
<1> DEFINE m == o.s.currentMessage
<1> DEFINE r == StartSending(n)
<1>1. /\ p \in Outcomes /\ SameLine(e, p) /\ Silent(e, p) /\ Follows(e, p)
      /\ p.s.state = "CONTENDING" /\ p.send = None
  BY SpentIs
<1>2. e \in Outcomes /\ e.s = mac[n]
  BY OutcomeIs
<1>3. r = IF m.to = Everyone
          THEN Transmit(o, "X_BROADCAST", Frame(m.kind, n, m.to, m.id))
          ELSE IF m.rts THEN Transmit(o, "X_RTS", Frame("rts", n, m.to, 0))
          ELSE Transmit(o, "X_UNICAST", Frame(m.kind, n, m.to, m.id))
  BY Zenon DEF StartSending
<1> HIDE DEF e, p, r
<1>4. HasToSend(p.s)
  <2>1. HasToSend(mac[n])
    BY DEF StationSound, Contending
  <2> QED
    BY <1>1, <1>2, <2>1 DEF HasToSend, SameLine
<1>5. /\ o \in Outcomes /\ Silent(p, o) /\ Follows(p, o)
      /\ o.s.state = "CONTENDING" /\ m # None
  BY <1>1, <1>4, MoveIs
<1> HIDE DEF o
<1>6. Silent(e, o) /\ Follows(e, o) /\ NotInBroadcast(o)
  BY <1>1, <1>2, <1>5, SilentOn, FollowsOn DEF NotInBroadcast
<1>7. m \in Messages
  BY <1>5 DEF Outcomes, Stations
<1>8. m.kind \in Kinds /\ m.to \in Nodes \cup {Everyone} /\ m.id \in Nat \ {0}
  BY <1>7 DEF Messages
<1>9. ASSUME NEW x \in {"X_BROADCAST", "X_RTS", "X_UNICAST"}, NEW f \in Frames,
             f.from = n, x = "X_BROADCAST" <=> m.to = Everyone,
             f.kind = "data" => /\ x # "X_RTS" /\ m.kind = "data"
                                /\ f.id = m.id /\ f.to = m.to,
             r = Transmit(o, x, f)
      PROVE  r \in Outcomes /\ Silent(e, r) /\ Follows(e, r) /\ Ready(n, r, idle)
  <2>1. x \in States
    BY DEF States, Transmitting
  <2>2. /\ r \in Outcomes /\ SameLine(o, r) /\ Silent(o, r)
        /\ r.s.state = x /\ r.send = f
    BY <1>5, <1>9, <2>1, TransmitIs
  <2>3. Follows(o, r)
    BY <1>5, <1>6, <2>2, FollowsSame
  <2>4. Silent(e, r) /\ Follows(e, r)
    BY <1>2, <1>5, <1>6, <2>2, <2>3, SilentOn, FollowsOn
  <2>5. r.s.currentMessage = m
    BY <2>2 DEF SameLine
  <2>6. StationSound(r.s)
    BY <1>5, <1>9, <2>2, <2>5 DEF StationSound, Contending, WaitingForResponse, Exchange
  <2>7. Carries(f, r.s)
    BY <1>5, <1>9, <2>2, <2>5 DEF Carries, IsData
  <2>8. Sends1(n, r)
    BY <1>9, <2>2, <2>7, NotNone DEF Sends1, Transmitting
  <2>9. Ready(n, r, idle)
    BY <2>2, <2>6, <2>8 DEF Ready, Contending
  <2> QED
    BY <2>2, <2>4, <2>9
<1>10. CASE m.to = Everyone
  <2> DEFINE f == Frame(m.kind, n, m.to, m.id)
  <2>1. f \in Frames /\ f.kind = m.kind /\ f.from = n /\ f.to = m.to /\ f.id = m.id
    BY <1>8, FrameIs
  <2>2. r = Transmit(o, "X_BROADCAST", f)
    BY <1>3, <1>10
  <2> HIDE DEF f
  <2> QED
    BY <1>9, <1>10, <2>1, <2>2 DEF e, r
<1>11. CASE m.to # Everyone /\ m.rts
  <2> DEFINE f == Frame("rts", n, m.to, 0)
  <2>1. f \in Frames /\ f.kind = "rts" /\ f.from = n
    BY <1>8 DEF Frame, Frames
  <2>2. r = Transmit(o, "X_RTS", f)
    BY <1>3, <1>11
  <2> HIDE DEF f
  <2> QED
    BY <1>9, <1>11, <2>1, <2>2 DEF e, r
<1>12. CASE m.to # Everyone /\ ~m.rts
  <2> DEFINE f == Frame(m.kind, n, m.to, m.id)
  <2>1. f \in Frames /\ f.kind = m.kind /\ f.from = n /\ f.to = m.to /\ f.id = m.id
    BY <1>8, FrameIs
  <2>2. r = Transmit(o, "X_UNICAST", f)
    BY <1>3, <1>12
  <2> HIDE DEF f
  <2> QED
    BY <1>9, <1>12, <2>1, <2>2 DEF e, r
<1> QED
  BY <1>10, <1>11, <1>12

LEMMA ContentionEndsKeeps ==
    ASSUME IInv, NEW n \in Nodes, ContentionEnds(n)
    PROVE  IInv'
<1>1. PICK idle \in BOOLEAN : idle = PhyIdle(n)
  BY PhyIdleBoolean
<1>2. Typed /\ StationSound(mac[n])
  BY DEF IInv
<1>3. mac[n].state = "CONTENDING" /\ offered' = offered
  BY DEF ContentionEnds, Fires
<1> DEFINE r == StartSending(n)
<1>4. Timeout(n, r)
  BY DEF ContentionEnds
<1>5. /\ r \in Outcomes /\ Silent(Outcome(n), r) /\ Follows(Outcome(n), r)
      /\ Ready(n, r, idle)
  BY <1>2, <1>3, StartSendingIs
<1> HIDE DEF r
<1>6. mac[n].state \notin Transmitting /\ (idle => PhyIdle(n))
  BY <1>1, <1>3 DEF Transmitting
<1> QED
  BY <1>3, <1>4, <1>5, <1>6, TimeoutKeeps

LEMMA NoResponseKeeps ==
    ASSUME IInv, NEW n \in Nodes, NoResponse(n)
    PROVE  IInv'
<1>1. PICK idle \in BOOLEAN : idle = PhyIdle(n)
  BY PhyIdleBoolean
<1>2. Typed /\ StationSound(mac[n])
  BY DEF IInv
<1>3. mac[n].state \in {"WFCTS", "WFACK"} /\ offered' = offered
  BY DEF NoResponse, Fires
<1> DEFINE p == Spent(n)
<1> DEFINE r == Retransmit(p, idle)
<1>4. Timeout(n, r)
  BY Zenon, <1>1 DEF NoResponse
<1>5. /\ p \in Outcomes /\ Silent(Outcome(n), p) /\ Follows(Outcome(n), p)
      /\ p.s.state = mac[n].state /\ p.send = None
      /\ p.s.currentMessage = mac[n].currentMessage
  BY <1>2, SpentIs
<1> HIDE DEF p
<1>6. p.s.currentMessage # None
  BY <1>2, <1>3, <1>5 DEF StationSound, Exchange
<1>7. r \in Outcomes /\ Silent(p, r) /\ Follows(p, r) /\ Calm(r, idle)
  BY <1>3, <1>5, <1>6, RetransmitIs
<1> HIDE DEF r
<1>8. Outcome(n) \in Outcomes
  BY <1>2, OutcomeIs
<1>9. Silent(Outcome(n), r) /\ Follows(Outcome(n), r) /\ Ready(n, r, idle)
  BY <1>5, <1>7, <1>8, SilentOn, FollowsOn, CalmIsReady
<1>10. mac[n].state \notin Transmitting /\ (idle => PhyIdle(n))
  BY <1>1, <1>3 DEF Transmitting
<1> QED
  BY <1>3, <1>4, <1>7, <1>9, <1>10, TimeoutKeeps

LEMMA NoDataKeeps ==
    ASSUME IInv, NEW n \in Nodes, NoData(n)
    PROVE  IInv'
<1>1. PICK idle \in BOOLEAN : idle = PhyIdle(n)
  BY PhyIdleBoolean
<1>2. Typed
  BY DEF IInv
<1>3. mac[n].state = "WFDATA" /\ offered' = offered
  BY DEF NoData, Fires
<1> DEFINE p == Spent(n)
<1> DEFINE r == CheckForOutgoingPacket(p, idle)
<1>4. Timeout(n, r)
  BY Zenon, <1>1 DEF NoData
<1>5. /\ p \in Outcomes /\ Silent(Outcome(n), p) /\ Follows(Outcome(n), p)
      /\ p.s.state = mac[n].state /\ p.send = None
  BY <1>2, SpentIs
<1> HIDE DEF p
<1>6. NotInBroadcast(p)
  BY <1>3, <1>5 DEF NotInBroadcast
<1>7. r \in Outcomes /\ Silent(p, r) /\ Follows(p, r) /\ Calm(r, idle)
  BY <1>5, <1>6, CheckForOutgoingPacketIs
<1> HIDE DEF r
<1>8. Outcome(n) \in Outcomes
  BY <1>2, OutcomeIs
<1>9. Silent(Outcome(n), r) /\ Follows(Outcome(n), r) /\ Ready(n, r, idle)
  BY <1>5, <1>7, <1>8, SilentOn, FollowsOn, CalmIsReady
<1>10. mac[n].state \notin Transmitting /\ (idle => PhyIdle(n))
  BY <1>1, <1>3 DEF Transmitting
<1> QED
  BY <1>3, <1>4, <1>7, <1>9, <1>10, TimeoutKeeps

LEMMA NavTimeoutKeeps ==
    ASSUME IInv, NEW n \in Nodes, NavTimeout(n)
    PROVE  IInv'
<1>1. PICK idle \in BOOLEAN : idle = PhyIdle(n)
  BY PhyIdleBoolean
<1>2. Typed /\ StationSound(mac[n])
  BY DEF IInv
<1>3. mac[n].state = "WFNAV" /\ offered' = offered
  BY DEF NavTimeout, Fires
<1> DEFINE e == Outcome(n)
<1> DEFINE p == Spent(n)
<1> DEFINE q == [p EXCEPT !.s.nav = FALSE]
<1> DEFINE r == AttemptToContend(q, idle)
<1>4. Timeout(n, r)
  BY Zenon, <1>1 DEF NavTimeout
<1>5. /\ p \in Outcomes /\ Silent(e, p) /\ SameLine(e, p)
      /\ p.s.state = mac[n].state /\ p.send = None
  BY <1>2, SpentIs
<1>6. e \in Outcomes /\ e.s = mac[n]
  BY <1>2, OutcomeIs
<1> HIDE DEF e, p
<1>7. /\ q \in Outcomes /\ Silent(p, q) /\ SameLine(p, q) /\ q.send = None
      /\ q.s.state = p.s.state
  <2>1. q \in Outcomes
    BY <1>5 DEF Outcomes, Stations
  <2>2. /\ Silent(p, q) /\ SameLine(p, q) /\ q.send = p.send
        /\ q.s.state = p.s.state
    BY <1>5 DEF Outcomes, Stations, Silent, SameLine
  <2> HIDE DEF q
  <2> QED
    BY <1>5, <2>1, <2>2
<1> HIDE DEF q
<1>8. Silent(e, q) /\ SameLine(e, q) /\ NotInBroadcast(q)
  BY <1>3, <1>5, <1>7 DEF Silent, SameLine, NotInBroadcast
<1>9. Follows(e, q)
  BY <1>3, <1>6, <1>7, <1>8, FollowsSame DEF NotInBroadcast
<1>10. HasToSend(q.s)
  <2>1. HasToSend(mac[n])
    BY <1>2, <1>3 DEF StationSound, Contending
  <2> QED
    BY <1>6, <1>8, <2>1 DEF HasToSend, SameLine
<1>11. r \in Outcomes /\ Silent(q, r) /\ Follows(q, r) /\ Calm(r, idle)
  BY <1>7, <1>8, <1>10, AttemptToContendIs
<1> HIDE DEF r
<1>12. Silent(e, r) /\ Follows(e, r) /\ Ready(n, r, idle)
  BY <1>6, <1>7, <1>8, <1>9, <1>11, SilentOn, FollowsOn, CalmIsReady
<1>13. mac[n].state \notin Transmitting /\ (idle => PhyIdle(n))
  BY <1>1, <1>3 DEF Transmitting
<1> QED
  BY <1>3, <1>4, <1>11, <1>12, <1>13, TimeoutKeeps DEF e

LEMMA SendBeaconKeeps ==
    ASSUME IInv, NEW n \in Nodes, SendBeacon(n)
    PROVE  IInv'
<1>1. PICK idle \in BOOLEAN : idle = PhyIdle(n)
  BY PhyIdleBoolean
<1>2. Typed
  BY DEF IInv
<1>3. mac[n].state = "WFBEACON" /\ offered' = offered
  BY DEF SendBeacon, Fires
<1> DEFINE e == Outcome(n)
<1> DEFINE p == Spent(n)
<1> DEFINE q == [p EXCEPT !.s.beaconIsDue = FALSE]
<1> DEFINE f == Frame("beacon", n, Everyone, 0)
<1> DEFINE r == Transmit(q, "X_BEACON", f)
<1>4. Handled(n, r)
  BY DEF SendBeacon
<1>5. /\ p \in Outcomes /\ Silent(e, p) /\ SameLine(e, p)
      /\ p.s.state = mac[n].state /\ p.send = None
  BY <1>2, SpentIs
<1>6. e \in Outcomes /\ e.s = mac[n]
  BY <1>2, OutcomeIs
<1>7. f \in Frames /\ f.kind = "beacon" /\ f.from = n
  <2>1. f = [kind |-> "beacon", from |-> n, to |-> Everyone, id |-> 0]
    BY DEF Frame
  <2> HIDE DEF f
  <2> QED
    BY <2>1 DEF Frames
<1>8. "X_BEACON" \in States
  BY DEF States, Transmitting
<1> HIDE DEF e, p, f
<1>9. q \in Outcomes /\ Silent(p, q) /\ SameLine(p, q)
  BY <1>5 DEF Outcomes, Stations, Silent, SameLine
<1> HIDE DEF q
<1>10. /\ r \in Outcomes /\ SameLine(q, r) /\ Silent(q, r)
       /\ r.s.state = "X_BEACON" /\ r.send = f
  BY <1>7, <1>8, <1>9, TransmitIs
<1> HIDE DEF r
<1>11. Silent(e, r) /\ SameLine(e, r) /\ NotInBroadcast(e)
  BY <1>3, <1>5, <1>6, <1>9, <1>10 DEF Silent, SameLine, NotInBroadcast
<1>12. Follows(e, r)
  BY <1>6, <1>10, <1>11, FollowsSame
<1>13. Ready(n, r, idle)
  BY <1>7, <1>10, NotNone
  DEF Ready, StationSound, Sends1, Carries, Contending, WaitingForResponse, Exchange,
      Transmitting
<1>14. mac[n].state \notin Transmitting /\ (idle => PhyIdle(n))
  BY <1>1, <1>3 DEF Transmitting
<1> QED
  BY <1>3, <1>4, <1>10, <1>11, <1>12, <1>13, <1>14, HandledAlone DEF e

-----------------------------------------------------------------------------
(* Steps in which a station does not start to send.                         *)

LEMMA DoneKeeps ==
    ASSUME IInv, NEW n \in Nodes, NEW r \in Outcomes, Done(n, r), offered' = offered,
           Follows(Outcome(n), r),
           tx' \in [Nodes -> Frames \cup {None}],
           lock' \in [Nodes -> Frames \cup {None}],
           hears' \in [Nodes -> SUBSET Nodes], fresh' \subseteq InRange,
           \A k \in Nodes \ {n} : /\ tx'[k] = tx[k] /\ lock'[k] = lock[k]
                                  /\ hears'[k] = hears[k],
           RadioSound(n)', StationSound(mac[n])', Hears(n)
    PROVE  IInv'
<1>1. Typed /\ Lined(mac[n], network[n], offered[n])
  BY DEF IInv
<1>2. /\ mac' \in [Nodes -> Stations] /\ network' \in [Nodes -> Seq(Messages)]
      /\ handed' \in [Nodes -> Seq(Frames)]
      /\ \A k \in Nodes \ {n} : /\ mac'[k] = mac[k] /\ network'[k] = network[k]
                                /\ handed'[k] = handed[k]
  BY <1>1, DoneIs
<1>3. Typed'
  BY <1>1, <1>2 DEF Typed
<1>4. Advances(n)
  BY <1>1, AdvancesAlone
<1>5. \A k \in Nodes \ {n} : Still(k)
  BY <1>2 DEF Still
<1> QED
  BY <1>3, <1>4, <1>5, StepKeeps

(* ... and hands nothing up.                                                *)
LEMMA SilentStep ==
    ASSUME Typed, NEW n \in Nodes, NEW r \in Outcomes, Done(n, r),
           Silent(Outcome(n), r)
    PROVE  /\ mac'[n] = r.s /\ handed'[n] = handed[n]
           /\ mac'[n].lastSeq = mac[n].lastSeq
<1>1. Outcome(n).s = mac[n] /\ Outcome(n).up = <<>>
  BY OutcomeIs
<1> QED
  BY <1>1, DoneIs DEF Silent

(* A station that neither sends nor starts to: the radio agrees.            *)
LEMMA CalmRadio ==
    ASSUME NEW n \in Nodes, NEW r \in Outcomes, NEW idle \in BOOLEAN,
           mac'[n] = r.s, Calm(r, idle), tx'[n] = None,
           idle => lock'[n] = None /\ hears'[n] = {}
    PROVE  RadioSound(n)' /\ StationSound(mac[n])'
BY DEF RadioSound, Calm

LEMMA BeaconFallsDueKeeps ==
    ASSUME IInv, BeaconFallsDue
    PROVE  IInv'
<1> DEFINE e == Outcome(Ap)
<1> DEFINE due == [e EXCEPT !.s.beaconIsDue = TRUE]
<1> DEFINE w == WaitForBeacon(due)
<1>1. Ap \in Nodes
  BY DcfAssumption DEF DcfAssumption
<1>2. Typed /\ RadioSound(Ap) /\ StationSound(mac[Ap])
  BY <1>1 DEF IInv
<1>3. /\ Done(Ap, IF CanHandleDueBeacon(due.s, PhyIdle(Ap)) THEN w ELSE due)
      /\ offered' = offered /\ tx' = tx /\ lock' = lock /\ hears' = hears
      /\ fresh' = fresh
  BY DEF BeaconFallsDue, air
<1>4. e \in Outcomes /\ e.s = mac[Ap] /\ e.send = None
  BY <1>1, <1>2, OutcomeIs
<1> HIDE DEF e
<1>5. /\ due \in Outcomes /\ Silent(e, due) /\ SameLine(e, due) /\ due.send = None
      /\ due.s.state = mac[Ap].state /\ due.s.timer = mac[Ap].timer
      /\ due.s.cut = mac[Ap].cut
  BY <1>4 DEF Outcomes, Stations, Silent, SameLine
<1> HIDE DEF due
<1>6. Follows(e, due)
  BY <1>4, <1>5, FollowsSame
<1>7. /\ tx \in [Nodes -> Frames \cup {None}] /\ lock \in [Nodes -> Frames \cup {None}]
      /\ hears \in [Nodes -> SUBSET Nodes] /\ fresh \subseteq InRange
  BY <1>2 DEF Typed
<1>8. CASE CanHandleDueBeacon(due.s, PhyIdle(Ap))
  <2>1. Done(Ap, w)
    BY <1>3, <1>8
  <2>2. due.s.state \in {"IDLE", "CONTENDING", "WFNAV"}
    BY <1>8 DEF CanHandleDueBeacon
  <2>3. NotInBroadcast(due) /\ mac[Ap].state \notin Transmitting
    BY <1>5, <2>2 DEF NotInBroadcast, Transmitting
  <2>4. w \in Outcomes /\ Silent(due, w) /\ Follows(due, w) /\ Calm(w, FALSE)
    BY <1>5, <2>3, WaitForBeaconIs
  <2> HIDE DEF w
  <2>5. Silent(e, w) /\ Follows(e, w)
    BY <1>4, <1>5, <1>6, <2>4, SilentOn, FollowsOn
  <2>6. /\ mac'[Ap] = w.s /\ handed'[Ap] = handed[Ap]
        /\ mac'[Ap].lastSeq = mac[Ap].lastSeq
    BY <1>1, <1>2, <2>1, <2>4, <2>5, SilentStep DEF e
  <2>7. RadioSound(Ap)' /\ StationSound(mac[Ap])'
    <3>1. tx'[Ap] = None
      BY <1>2, <1>3, <2>3 DEF RadioSound
    <3> QED
      BY <1>1, <2>4, <2>6, <3>1 DEF RadioSound, Calm
  <2>8. Hears(Ap)
    BY <1>3, <2>6 DEF Hears, Ignores
  <2> QED
    BY <1>1, <1>3, <1>7, <2>1, <2>4, <2>5, <2>7, <2>8, DoneKeeps DEF e
<1>9. CASE ~CanHandleDueBeacon(due.s, PhyIdle(Ap))
  <2>1. Done(Ap, due)
    BY <1>3, <1>9
  <2>2. /\ mac'[Ap] = due.s /\ handed'[Ap] = handed[Ap]
        /\ mac'[Ap].lastSeq = mac[Ap].lastSeq
    BY <1>1, <1>2, <1>5, <2>1, SilentStep DEF e
  <2>3. RadioSound(Ap)' /\ StationSound(mac[Ap])'
    BY <1>2, <1>3, <1>4, <1>5, <2>2
    DEF RadioSound, StationSound, HasToSend, SameLine, Carries
  <2>4. Hears(Ap)
    BY <1>3, <2>2 DEF Hears, Ignores
  <2> QED
    BY <1>1, <1>3, <1>5, <1>6, <1>7, <2>1, <2>3, <2>4, DoneKeeps DEF e
<1> QED
  BY <1>8, <1>9

LEMMA NavEndsKeeps ==
    ASSUME IInv, NEW n \in Nodes, NavEnds(n)
    PROVE  IInv'
<1> DEFINE e == Outcome(n)
<1> DEFINE r == [e EXCEPT !.s.nav = FALSE]
<1>1. Typed /\ RadioSound(n) /\ StationSound(mac[n])
  BY DEF IInv
<1>2. /\ mac' = [mac EXCEPT ![n].nav = FALSE]
      /\ offered' = offered /\ network' = network /\ tx' = tx /\ lock' = lock
      /\ hears' = hears /\ fresh' = fresh /\ handed' = handed
  BY DEF NavEnds, air
<1>3. /\ mac \in [Nodes -> Stations] /\ mac[n] \in Stations
      /\ tx \in [Nodes -> Frames \cup {None}] /\ lock \in [Nodes -> Frames \cup {None}]
      /\ hears \in [Nodes -> SUBSET Nodes] /\ fresh \subseteq InRange
      /\ offered \in [Nodes -> Seq(Messages)] /\ network \in [Nodes -> Seq(Messages)]
      /\ handed \in [Nodes -> Seq(Frames)]
  BY <1>1 DEF Typed
<1>4. mac'[n] = [mac[n] EXCEPT !.nav = FALSE] /\ \A k \in Nodes \ {n} : mac'[k] = mac[k]
  BY <1>2, <1>3
<1>5. /\ mac'[n] \in Stations /\ mac'[n].state = mac[n].state
      /\ mac'[n].timer = mac[n].timer /\ mac'[n].cut = mac[n].cut
      /\ mac'[n].currentMessage = mac[n].currentMessage
      /\ mac'[n].mngmtQueue = mac[n].mngmtQueue /\ mac'[n].dataQueue = mac[n].dataQueue
      /\ mac'[n].lastSeq = mac[n].lastSeq
  BY <1>3, <1>4 DEF Stations
<1>6. Typed'
  BY <1>2, <1>3, <1>5 DEF Typed
<1>7. RadioSound(n)' /\ StationSound(mac[n])'
  BY <1>1, <1>2, <1>5 DEF RadioSound, StationSound, HasToSend, Carries
<1>8. Advances(n)
  <2>1. Lined(mac[n], network[n], offered[n])
    BY DEF IInv
  <2>2. Lined(mac'[n], network'[n], offered'[n])
    BY <1>2, <1>5, <2>1 DEF Lined
  <2>3. Waiting(n)' = Waiting(n)
    BY <1>2, <1>5 DEF Waiting
  <2> QED
    BY <1>5, <2>2, <2>3 DEF Advances
<1>9. Hears(n)
  BY <1>2, <1>5 DEF Hears, Ignores
<1>10. \A k \in Nodes \ {n} : Still(k)
  BY <1>2, <1>4 DEF Still
<1> QED
  BY <1>6, <1>7, <1>8, <1>9, <1>10, StepKeeps

-----------------------------------------------------------------------------
(* The header of a frame.                                                   *)

LEMMA GoOnReceivingKeeps ==
    ASSUME IInv, NEW n \in Nodes, HeaderReceived(n), GoOnReceiving(n)
    PROVE  IInv'
<1> DEFINE e == Outcome(n)
<1> DEFINE p == Spent(n)
<1> DEFINE r == SetState(p, "IDLE")
<1>1. Typed /\ RadioSound(n)
  BY DEF IInv
<1>2. /\ mac[n].state = "HEADER_CHECK_MODE" /\ offered' = offered /\ Done(n, r)
      /\ tx' = tx /\ lock' = lock /\ hears' = hears /\ fresh' = fresh
  BY DEF HeaderReceived, Fires, GoOnReceiving, air
<1>3. /\ p \in Outcomes /\ Silent(e, p) /\ SameLine(e, p) /\ p.send = None
  BY <1>1, SpentIs
<1>4. e \in Outcomes /\ e.s = mac[n]
  BY <1>1, OutcomeIs
<1> HIDE DEF p, e
<1>5. "IDLE" \in States
  BY DEF States
<1>6. /\ r \in Outcomes /\ SameLine(p, r) /\ Silent(p, r) /\ r.s.state = "IDLE"
  BY <1>3, <1>5, SetStateIs
<1> HIDE DEF r
<1>7. Silent(e, r) /\ SameLine(e, r) /\ NotInBroadcast(e)
  BY <1>2, <1>3, <1>4, <1>6 DEF Silent, SameLine, NotInBroadcast
<1>8. Follows(e, r)
  BY <1>4, <1>6, <1>7, FollowsSame
<1>9. /\ mac'[n] = r.s /\ handed'[n] = handed[n] /\ mac'[n].lastSeq = mac[n].lastSeq
  BY <1>1, <1>2, <1>6, <1>7, SilentStep DEF e
<1>10. tx'[n] = None
  BY <1>1, <1>2 DEF RadioSound, Transmitting
<1>11. RadioSound(n)' /\ StationSound(mac[n])'
  BY <1>6, <1>9, <1>10
  DEF RadioSound, StationSound, Transmitting, Contending, WaitingForResponse, Exchange
<1>12. Hears(n)
  BY <1>2, <1>9 DEF Hears, Ignores
<1>13. /\ tx \in [Nodes -> Frames \cup {None}] /\ lock \in [Nodes -> Frames \cup {None}]
       /\ hears \in [Nodes -> SUBSET Nodes] /\ fresh \subseteq InRange
  BY <1>1 DEF Typed
<1> QED
  BY <1>2, <1>6, <1>8, <1>11, <1>12, <1>13, DoneKeeps DEF e

(* What a station does that leaves a frame it has seen the header of.       *)
LEMMA LeavesIs ==
    ASSUME Typed, NEW n \in Nodes, NEW idle \in BOOLEAN, NEW later \in BOOLEAN,
           mac[n].state = "HEADER_CHECK_MODE", StationSound(mac[n])
    PROVE  LET o == IF spoilt[n] THEN Spent(n)
                    ELSE ProcessNotMyFrame(Spent(n), idle, later)
               r == CheckForOutgoingPacket(o, idle)
           IN  /\ r \in Outcomes /\ Silent(Outcome(n), r) /\ Follows(Outcome(n), r)
               /\ Calm(r, idle)
<1> DEFINE e == Outcome(n)
<1> DEFINE p == Spent(n)
<1> DEFINE x == ProcessNotMyFrame(p, idle, later)
<1> DEFINE o == IF spoilt[n] THEN p ELSE x
<1> DEFINE r == CheckForOutgoingPacket(o, idle)
<1>1. /\ p \in Outcomes /\ Silent(e, p) /\ SameLine(e, p) /\ Follows(e, p)
      /\ p.s.state = "HEADER_CHECK_MODE" /\ p.send = None
  BY SpentIs
<1>2. e \in Outcomes /\ e.s = mac[n] /\ e.up = <<>>
  BY OutcomeIs
<1> HIDE DEF e, p
<1>3. Listening(p)
  BY <1>1, <1>2
  DEF Listening, Silent, StationSound, Transmitting, Contending, WaitingForResponse, Exchange
<1>4. x \in Outcomes /\ Follows(p, x) /\ Silent(p, x) /\ Calm(x, idle)
  BY <1>1, <1>3, ProcessNotMyFrameIs
<1> HIDE DEF x
<1>5. /\ o \in Outcomes /\ Follows(e, o) /\ Silent(e, o) /\ o.send = None
      /\ NotInBroadcast(o)
  BY <1>1, <1>2, <1>4, FollowsOn, SilentOn DEF Calm, NotInBroadcast, Transmitting
<1> HIDE DEF o
<1>6. r \in Outcomes /\ Silent(o, r) /\ Follows(o, r) /\ Calm(r, idle)
  BY <1>5, CheckForOutgoingPacketIs
<1> HIDE DEF r
<1>7. Silent(e, r) /\ Follows(e, r)
  BY <1>2, <1>5, <1>6, FollowsOn, SilentOn
<1> QED
  BY <1>6, <1>7 DEF r, o, x, p, e

LEMMA LeaveTheFrameKeeps ==
    ASSUME IInv, NEW n \in Nodes, NEW idle \in {FALSE, hears[n] = {lock[n].from}},
           NEW later \in BOOLEAN, HeaderReceived(n), LeaveTheFrame(n, idle, later)
    PROVE  IInv'
<1>1. Typed /\ RadioSound(n) /\ StationSound(mac[n])
  BY DEF IInv
<1>2. mac[n].state = "HEADER_CHECK_MODE" /\ offered' = offered
  BY DEF HeaderReceived, Fires
<1>3. PICK quick \in BOOLEAN : quick = idle
  <2>1. (hears[n] = {lock[n].from}) \in BOOLEAN
    BY SMT
  <2>2. idle \in BOOLEAN
    BY Zenon, <2>1
  <2> QED
    BY Zenon, <2>2
<1> DEFINE o == IF spoilt[n] THEN Spent(n) ELSE ProcessNotMyFrame(Spent(n), quick, later)
<1> DEFINE r == CheckForOutgoingPacket(o, quick)
<1>4. Done(n, r)
  BY Zenon, <1>3 DEF LeaveTheFrame
<1>5. /\ lock' = [lock EXCEPT ![n] = None]
      /\ hears' = IF quick THEN [hears EXCEPT ![n] = {}] ELSE hears
      /\ tx' = tx /\ fresh' = fresh
  BY Zenon, <1>3 DEF LeaveTheFrame
<1>6. /\ r \in Outcomes /\ Silent(Outcome(n), r) /\ Follows(Outcome(n), r)
      /\ Calm(r, quick)
  BY <1>1, <1>2, LeavesIs
<1> HIDE DEF r
<1>7. /\ tx \in [Nodes -> Frames \cup {None}] /\ lock \in [Nodes -> Frames \cup {None}]
      /\ hears \in [Nodes -> SUBSET Nodes] /\ fresh \subseteq InRange
  BY <1>1 DEF Typed
<1>8. /\ lock' \in [Nodes -> Frames \cup {None}] /\ lock'[n] = None
      /\ hears' \in [Nodes -> SUBSET Nodes] /\ (quick => hears'[n] = {})
      /\ \A k \in Nodes \ {n} : lock'[k] = lock[k] /\ hears'[k] = hears[k]
  BY <1>5, <1>7
<1>9. /\ mac'[n] = r.s /\ handed'[n] = handed[n] /\ mac'[n].lastSeq = mac[n].lastSeq
  BY <1>1, <1>4, <1>6, SilentStep
<1>10. tx'[n] = None
  BY <1>1, <1>2, <1>5 DEF RadioSound, Transmitting
<1>11. RadioSound(n)' /\ StationSound(mac[n])'
  BY <1>6, <1>8, <1>9, <1>10, CalmRadio
<1>12. Hears(n)
  BY <1>8, <1>9 DEF Hears, Ignores
<1> QED
  BY <1>2, <1>4, <1>5, <1>6, <1>7, <1>8, <1>11, <1>12, DoneKeeps

LEMMA HeaderReceivedKeeps ==
    ASSUME IInv, NEW n \in Nodes, HeaderReceived(n)
    PROVE  IInv'
<1>1. \/ GoOnReceiving(n)
      \/ \E idle \in {FALSE, hears[n] = {lock[n].from}}, later \in BOOLEAN :
            LeaveTheFrame(n, idle, later)
  BY DEF HeaderReceived
<1> QED
  BY Zenon, <1>1, GoOnReceivingKeeps, LeaveTheFrameKeeps

-----------------------------------------------------------------------------
(* The steps of the radios.                                                 *)

LEMMA PhyStatusIs ==
    ASSUME Typed, NEW n \in Nodes, RadioSound(n), tx[n] = None
    PROVE  /\ PhyStatus(n) \in {"IDLE", "SENSING", "RECEIVING"}
           /\ PhyStatus(n) # "IDLE" => mac[n].state \notin Contending
           /\ PhyStatus(n) = "SENSING" => lock[n] = None
           /\ mac[n].state \notin Transmitting
BY DEF PhyStatus, RadioSound

LEMMA SensesIs ==
    ASSUME Typed, NEW n \in Nodes, NEW m \in Nodes, Senses(n, m)
    PROVE  /\ offered' = offered /\ tx' = tx
           /\ tx' \in [Nodes -> Frames \cup {None}]
           /\ hears' \in [Nodes -> SUBSET Nodes] /\ fresh' \subseteq InRange
           /\ \A k \in Nodes \ {n} : hears'[k] = hears[k]
BY DEF Senses, Typed

LEMMA TooWeakKeeps ==
    ASSUME IInv, NEW n \in Nodes, NEW m \in Nodes, TooWeak(n, m)
    PROVE  IInv'
<1> DEFINE e == Outcome(n)
<1> DEFINE c == StatusChange(e, "IDLE", "SENSING", None)
<1>1. Typed /\ RadioSound(n) /\ StationSound(mac[n])
  BY DEF IInv
<1>2. /\ offered' = offered /\ tx' = tx /\ lock' = lock
      /\ tx' \in [Nodes -> Frames \cup {None}]
      /\ hears' \in [Nodes -> SUBSET Nodes] /\ fresh' \subseteq InRange
      /\ \A k \in Nodes \ {n} : hears'[k] = hears[k]
  BY <1>1, SensesIs DEF TooWeak
<1>3. e \in Outcomes /\ e.s = mac[n] /\ e.send = None
  BY <1>1, OutcomeIs
<1>4. Done(n, IF PhyIdle(n) THEN c ELSE e)
  BY DEF TooWeak
<1>5. lock' \in [Nodes -> Frames \cup {None}]
  BY <1>1, <1>2 DEF Typed
<1> HIDE DEF e
<1>6. CASE PhyIdle(n)
  <2>1. tx[n] = None /\ lock[n] = None
    BY <1>6, PhyIdleIs
  <2>2. Done(n, c)
    BY <1>4, <1>6
  <2>3. mac[n].state \notin Transmitting
    BY <1>1, <2>1 DEF RadioSound
  <2>4. c \in Outcomes /\ Silent(e, c) /\ Follows(e, c) /\ Calm(c, FALSE)
    BY <1>1, <1>3, <2>3, StatusToSensingIs
  <2> HIDE DEF c
  <2>5. /\ mac'[n] = c.s /\ handed'[n] = handed[n] /\ mac'[n].lastSeq = mac[n].lastSeq
    BY <1>1, <2>2, <2>4, SilentStep DEF e
  <2>6. RadioSound(n)' /\ StationSound(mac[n])'
    BY <1>2, <2>1, <2>4, <2>5 DEF RadioSound, Calm
  <2>7. Hears(n)
    BY <1>2, <2>5 DEF Hears, Ignores
  <2> QED
    BY <1>2, <1>5, <2>2, <2>4, <2>6, <2>7, DoneKeeps DEF e
<1>7. CASE ~PhyIdle(n)
  <2>1. Done(n, e)
    BY <1>4, <1>7
  <2>2. SameLine(e, e) /\ Silent(e, e)
    BY DEF SameLine, Silent
  <2>3. Follows(e, e)
    BY <1>3, <2>2, FollowsSame
  <2>4. /\ mac'[n] = mac[n] /\ handed'[n] = handed[n]
    BY <1>1, <1>3, <2>1, <2>2, SilentStep DEF e
  <2>5. mac[n].state \notin Contending
    BY <1>1, <1>7 DEF PhyIdle, PhyStatus, RadioSound, Contending, Transmitting
  <2>6. RadioSound(n)' /\ StationSound(mac[n])'
    BY <1>1, <1>2, <2>4, <2>5 DEF RadioSound
  <2>7. Hears(n)
    BY <1>2, <2>4 DEF Hears, Ignores
  <2> QED
    BY <1>2, <1>3, <1>5, <2>1, <2>3, <2>6, <2>7, DoneKeeps DEF e
<1> QED
  BY <1>6, <1>7

LEMMA ReceivedKeeps ==
    ASSUME IInv, NEW n \in Nodes, NEW m \in Nodes, Received(n, m)
    PROVE  IInv'
<1> DEFINE e == Outcome(n)
<1> DEFINE c == StatusChange(e, PhyStatus(n), "RECEIVING", tx[m])
<1>1. Typed /\ RadioSound(n) /\ StationSound(mac[n])
  BY DEF IInv
<1>2. /\ offered' = offered /\ tx' = tx
      /\ tx' \in [Nodes -> Frames \cup {None}]
      /\ hears' \in [Nodes -> SUBSET Nodes] /\ fresh' \subseteq InRange
      /\ \A k \in Nodes \ {n} : hears'[k] = hears[k]
  BY <1>1, SensesIs DEF Received
<1>3. e \in Outcomes /\ e.s = mac[n] /\ e.send = None
  BY <1>1, OutcomeIs
<1>4. /\ Done(n, c) /\ tx[n] = None /\ lock' = [lock EXCEPT ![n] = tx[m]]
  BY DEF Received
<1>5. /\ lock' \in [Nodes -> Frames \cup {None}] /\ lock'[n] = tx[m]
      /\ \A k \in Nodes \ {n} : lock'[k] = lock[k]
  BY <1>1, <1>4 DEF Typed
<1>6. /\ PhyStatus(n) \in {"IDLE", "SENSING", "RECEIVING"}
      /\ PhyStatus(n) # "IDLE" => mac[n].state \notin Contending
      /\ mac[n].state \notin Transmitting
  BY <1>1, <1>4, PhyStatusIs
<1> HIDE DEF e
<1>7. c \in Outcomes /\ Silent(e, c) /\ Follows(e, c) /\ Calm(c, FALSE)
  <2>1. PICK old \in {"IDLE", "SENSING", "RECEIVING"} : old = PhyStatus(n)
    BY <1>6
  <2> DEFINE d == StatusChange(e, old, "RECEIVING", tx[m])
  <2>2. d \in Outcomes /\ Silent(e, d) /\ Follows(e, d) /\ Calm(d, FALSE)
    BY <1>1, <1>3, <1>6, <2>1, StatusToReceivingIs
  <2>3. c = d
    BY <2>1
  <2> HIDE DEF c, d
  <2> QED
    BY <2>2, <2>3
<1> HIDE DEF c
<1>8. /\ mac'[n] = c.s /\ handed'[n] = handed[n] /\ mac'[n].lastSeq = mac[n].lastSeq
  BY <1>1, <1>4, <1>7, SilentStep DEF e
<1>9. RadioSound(n)' /\ StationSound(mac[n])'
  BY <1>2, <1>4, <1>7, <1>8 DEF RadioSound, Calm
<1>10. Hears(n)
  <2>1. CASE tx[m] = None
    BY <1>5, <1>8, <2>1 DEF Hears, Ignores
  <2>2. CASE tx[m] # None
    <3>1. m \in Nodes \ {n}
      BY <1>4, <2>2
    <3>2. mac'[m] = mac[m] /\ network'[m] = network[m] /\ offered'[m] = offered[m]
      BY <1>1, <1>2, <1>4, <1>7, <3>1, DoneIs
    <3> QED
      BY <1>5, <1>8, <2>2, <3>1, <3>2 DEF Hears, Begins
  <2> QED
    BY <2>1, <2>2
<1> QED
  BY <1>2, <1>4, <1>5, <1>7, <1>9, <1>10, DoneKeeps DEF e

LEMMA DrownedKeeps ==
    ASSUME IInv, NEW n \in Nodes, NEW m \in Nodes, Drowned(n, m)
    PROVE  IInv'
<1> DEFINE e == Outcome(n)
<1> DEFINE c == StatusChange(e, "RECEIVING", "SENSING", None)
<1>1. Typed /\ RadioSound(n) /\ StationSound(mac[n])
  BY DEF IInv
<1>2. /\ offered' = offered /\ tx' = tx
      /\ tx' \in [Nodes -> Frames \cup {None}]
      /\ hears' \in [Nodes -> SUBSET Nodes] /\ fresh' \subseteq InRange
      /\ \A k \in Nodes \ {n} : hears'[k] = hears[k]
  BY <1>1, SensesIs DEF Drowned
<1>3. e \in Outcomes /\ e.s = mac[n] /\ e.send = None
  BY <1>1, OutcomeIs
<1>4. /\ Done(n, c) /\ lock[n] # None /\ lock' = [lock EXCEPT ![n] = None]
  BY DEF Drowned
<1>5. /\ lock' \in [Nodes -> Frames \cup {None}] /\ lock'[n] = None
      /\ \A k \in Nodes \ {n} : lock'[k] = lock[k]
  BY <1>1, <1>4 DEF Typed
<1>6. mac[n].state \notin Contending \cup Transmitting /\ tx[n] = None
  BY <1>1, <1>4 DEF RadioSound
<1> HIDE DEF e
<1>7. c \in Outcomes /\ Silent(e, c) /\ Follows(e, c) /\ Calm(c, FALSE)
  BY <1>1, <1>3, <1>6, StatusToSensingIs
<1> HIDE DEF c
<1>8. /\ mac'[n] = c.s /\ handed'[n] = handed[n] /\ mac'[n].lastSeq = mac[n].lastSeq
  BY <1>1, <1>4, <1>7, SilentStep DEF e
<1>9. RadioSound(n)' /\ StationSound(mac[n])'
  BY <1>2, <1>6, <1>7, <1>8 DEF RadioSound, Calm
<1>10. Hears(n)
  BY <1>5, <1>8 DEF Hears, Ignores
<1> QED
  BY <1>2, <1>4, <1>5, <1>7, <1>9, <1>10, DoneKeeps DEF e

LEMMA TransmissionEndsKeeps ==
    ASSUME IInv, NEW m \in Nodes, TransmissionEnds(m)
    PROVE  IInv'
<1> DEFINE e == Outcome(m)
<1> DEFINE new == IF hears[m] = {} THEN "IDLE" ELSE "SENSING"
<1>1. Typed /\ RadioSound(m) /\ StationSound(mac[m])
  BY DEF IInv
<1>2. /\ offered' = offered /\ fresh' = fresh /\ hears' = hears /\ lock' = lock
      /\ tx[m] # None /\ tx' = [tx EXCEPT ![m] = None]
      /\ Done(m, StatusChange(e, "TRANSMITTING", new, None))
  BY DEF TransmissionEnds
<1>3. e \in Outcomes /\ e.s = mac[m] /\ e.send = None
  BY <1>1, OutcomeIs
<1>4. PICK idle \in BOOLEAN : idle = (new = "IDLE")
  <2>1. (new = "IDLE") \in BOOLEAN
    BY SMT
  <2> QED
    BY Zenon, <2>1
<1> DEFINE r == TransmissionHasFinished(e, idle)
<1>5. StatusChange(e, "TRANSMITTING", new, None) = TransmissionHasFinished(e, new = "IDLE")
  <2> HIDE DEF e
  <2> QED
    BY DEF StatusChange
<1>6. Done(m, r)
  BY Zenon, <1>2, <1>4, <1>5
<1>7. mac[m].state \in Transmitting /\ lock[m] = None
  BY <1>1, <1>2 DEF RadioSound
<1> HIDE DEF e
<1>8. r \in Outcomes /\ Silent(e, r) /\ Follows(e, r) /\ Calm(r, idle)
  BY <1>1, <1>3, <1>7, TransmissionHasFinishedIs
<1> HIDE DEF r
<1>9. /\ tx' \in [Nodes -> Frames \cup {None}] /\ tx'[m] = None
      /\ lock' \in [Nodes -> Frames \cup {None}]
      /\ hears' \in [Nodes -> SUBSET Nodes] /\ fresh' \subseteq InRange
      /\ \A k \in Nodes \ {m} : tx'[k] = tx[k]
  BY <1>1, <1>2 DEF Typed
<1>10. /\ mac'[m] = r.s /\ handed'[m] = handed[m] /\ mac'[m].lastSeq = mac[m].lastSeq
  BY <1>1, <1>6, <1>8, SilentStep DEF e
<1>11. idle => hears[m] = {}
  BY <1>4
<1>12. RadioSound(m)' /\ StationSound(mac[m])'
  BY <1>2, <1>7, <1>8, <1>9, <1>10, <1>11, CalmRadio
<1>13. Hears(m)
  BY <1>2, <1>10 DEF Hears, Ignores
<1> QED
  BY <1>2, <1>6, <1>8, <1>9, <1>12, <1>13, DoneKeeps DEF e

(* The end of a signal: types, and who is not concerned.                    *)
LEMMA UnheardIs ==
    ASSUME Typed, NEW n \in Nodes, NEW m, NEW r \in Outcomes, Unheard(n, m, r)
    PROVE  /\ Done(n, r) /\ offered' = offered
           /\ tx' \in [Nodes -> Frames \cup {None}]
           /\ tx'[n] = IF r.send = None THEN tx[n] ELSE r.send
           /\ hears' \in [Nodes -> SUBSET Nodes] /\ hears'[n] = hears[n] \ {m}
           /\ fresh' \subseteq InRange
           /\ \A k \in Nodes \ {n} : tx'[k] = tx[k] /\ hears'[k] = hears[k]
<1>1. Done(n, r) /\ Sends(n, r) /\ offered' = offered
  BY DEF Unheard
<1>2. /\ tx' \in [Nodes -> Frames \cup {None}]
      /\ tx'[n] = IF r.send = None THEN tx[n] ELSE r.send
      /\ \A k \in Nodes \ {n} : tx'[k] = tx[k]
  BY <1>1, TxTyped
<1>3. hears' = [hears EXCEPT ![n] = hears[n] \ {m}]
  BY DEF Unheard
<1>4. fresh' = IF r.send = None THEN fresh ELSE fresh \cup Reaches(n)
  BY DEF Unheard
<1> QED
  BY <1>1, <1>2, <1>3, <1>4, ReachesIs DEF Typed

LEMMA LockGone ==
    ASSUME Typed, NEW n \in Nodes, lock' = [lock EXCEPT ![n] = None]
    PROVE  /\ lock' \in [Nodes -> Frames \cup {None}] /\ lock'[n] = None
           /\ \A k \in Nodes \ {n} : lock'[k] = lock[k]
BY DEF Typed

LEMMA FrameReceivedKeeps ==
    ASSUME IInv, NEW n \in Nodes, NEW m \in Nodes, Ended(n, m), FrameReceived(n, m)
    PROVE  IInv'
<1> DEFINE e == Outcome(n)
<1> DEFINE f == lock[n]
<1>1. Typed /\ RadioSound(n) /\ StationSound(mac[n])
  BY DEF IInv
<1>2. /\ f # None /\ f.from = m /\ lock' = [lock EXCEPT ![n] = None]
      /\ tx[m] = None
  BY DEF FrameReceived, Receiving, Ended
<1>3. f \in Frames
  BY <1>1, <1>2 DEF Typed
<1>4. PICK later \in BOOLEAN :
        Unheard(n, m, ReceivePacketFromPhy(e, n, f, hears[n] = {m}, later))
  BY DEF FrameReceived
<1>5. PICK idle \in BOOLEAN : idle = (hears[n] = {m})
  <2>1. (hears[n] = {m}) \in BOOLEAN
    BY SMT
  <2> QED
    BY Zenon, <2>1
<1> DEFINE r == ReceivePacketFromPhy(e, n, f, idle, later)
<1>6. Unheard(n, m, r)
  BY Zenon, <1>4, <1>5
<1>7. e \in Outcomes /\ e.s = mac[n] /\ e.send = None /\ e.up = <<>>
  BY <1>1, OutcomeIs
<1>8. mac[n].state \notin Transmitting \cup Contending /\ tx[n] = None
  BY <1>1, <1>2 DEF RadioSound
<1> HIDE DEF e
<1>9. Listening(e)
  BY <1>1, <1>7, <1>8 DEF Listening
<1>10. Answers(n, e, f, r, idle)
  BY <1>3, <1>7, <1>9, ReceivePacketFromPhyIs
<1> HIDE DEF r
<1>11. r \in Outcomes /\ Follows(e, r) /\ Takes(e, f, r) /\ Ready(n, r, idle)
  BY <1>10 DEF Answers
<1>12. /\ Done(n, r) /\ offered' = offered
       /\ tx' \in [Nodes -> Frames \cup {None}]
       /\ tx'[n] = IF r.send = None THEN tx[n] ELSE r.send
       /\ hears' \in [Nodes -> SUBSET Nodes] /\ hears'[n] = hears[n] \ {m}
       /\ fresh' \subseteq InRange
       /\ \A k \in Nodes \ {n} : tx'[k] = tx[k] /\ hears'[k] = hears[k]
  BY <1>1, <1>6, <1>11, UnheardIs
<1>13. /\ lock' \in [Nodes -> Frames \cup {None}] /\ lock'[n] = None
       /\ \A k \in Nodes \ {n} : lock'[k] = lock[k]
  BY <1>1, <1>2, LockGone
<1>14. /\ mac'[n] = r.s /\ handed'[n] = handed[n] \o r.up
       /\ r.up = <<>> => handed'[n] = handed[n]
  BY <1>1, <1>11, <1>12, DoneIs
<1>15. RadioSound(n)' /\ StationSound(mac[n])'
  <2>1. Turns(n, Outcome(n), r, idle)
    BY <1>7, <1>8, <1>11 DEF Turns, e
  <2>2. idle => hears'[n] = {}
    BY <1>5, <1>12
  <2> QED
    BY <1>1, <1>11, <1>12, <1>13, <1>14, <2>1, <2>2, RadioKept
<1>16. Hears(n)
  <2>1. CASE r.up = <<>> /\ r.s.lastSeq = e.s.lastSeq
    BY <1>7, <1>13, <1>14, <2>1 DEF Hears, Ignores
  <2>2. CASE /\ r.up = <<f>>
             /\ IF f.kind = "data" /\ f.to # Everyone
                THEN /\ e.s.lastSeq[f.from] # f.id
                     /\ r.s.lastSeq = [e.s.lastSeq EXCEPT ![f.from] = f.id]
                ELSE r.s.lastSeq = e.s.lastSeq
    <3>1. handed[n] \in Seq(Frames)
      BY <1>1 DEF Typed
    <3>2. handed[n] \o <<f>> = Append(handed[n], f)
      BY <1>3, <3>1
    <3>3. handed'[n] = Append(handed[n], f)
      BY <1>14, <2>2, <3>2
    <3> QED
      BY <1>2, <1>3, <1>7, <1>13, <1>14, <2>2, <3>3 DEF Hears, Ends
  <2> QED
    BY <1>11, <2>1, <2>2 DEF Takes
<1> QED
  BY <1>11, <1>12, <1>13, <1>15, <1>16, DoneKeeps DEF e

LEMMA FrameSpoiltKeeps ==
    ASSUME IInv, NEW n \in Nodes, NEW m \in Nodes, Ended(n, m), FrameSpoilt(n, m)
    PROVE  IInv'
<1> DEFINE e == Outcome(n)
<1> DEFINE new == IF hears[n] = {m} THEN "IDLE" ELSE "SENSING"
<1> DEFINE r == StatusChange(e, "RECEIVING", new, None)
<1>1. Typed /\ RadioSound(n) /\ StationSound(mac[n])
  BY DEF IInv
<1>2. /\ lock[n] # None /\ lock' = [lock EXCEPT ![n] = None]
      /\ Unheard(n, m, r)
  BY DEF FrameSpoilt, Receiving
<1>3. e \in Outcomes /\ e.s = mac[n] /\ e.send = None /\ e.up = <<>>
  BY <1>1, OutcomeIs
<1>4. mac[n].state \notin Transmitting \cup Contending /\ tx[n] = None
  BY <1>1, <1>2 DEF RadioSound
<1> HIDE DEF e
<1>5. r \in Outcomes /\ Silent(e, r) /\ Follows(e, r)
  <2>1. CASE hears[n] = {m}
    <3>1. Ready(n, e, TRUE)
      BY <1>1, <1>3, <1>4 DEF Ready, Sends1
    <3> DEFINE c == StatusChange(e, "RECEIVING", "IDLE", None)
    <3>2. c \in Outcomes /\ Silent(e, c) /\ Follows(e, c)
      BY <1>3, <3>1, StatusToIdleIs
    <3>3. r = c
      BY <2>1
    <3> HIDE DEF c, r
    <3> QED
      BY <3>2, <3>3
  <2>2. CASE hears[n] # {m}
    <3> DEFINE c == StatusChange(e, "RECEIVING", "SENSING", None)
    <3>1. c \in Outcomes /\ Silent(e, c) /\ Follows(e, c)
      BY <1>1, <1>3, <1>4, StatusToSensingIs
    <3>2. r = c
      BY <2>2
    <3> HIDE DEF c, r
    <3> QED
      BY <3>1, <3>2
  <2> QED
    BY <2>1, <2>2
<1>6. Ready(n, r, hears[n] = {m})
  <2>1. CASE hears[n] = {m}
    <3>1. Ready(n, e, TRUE)
      BY <1>1, <1>3, <1>4 DEF Ready, Sends1
    <3> DEFINE c == StatusChange(e, "RECEIVING", "IDLE", None)
    <3>2. Ready(n, c, TRUE)
      BY <1>3, <3>1, StatusToIdleIs
    <3>3. r = c
      BY <2>1
    <3> HIDE DEF c, r
    <3>4. Ready(n, r, TRUE)
      BY <3>2, <3>3
    <3> QED
      BY <2>1, <3>4 DEF Ready
  <2>2. CASE hears[n] # {m}
    <3> DEFINE c == StatusChange(e, "RECEIVING", "SENSING", None)
    <3>1. Calm(c, FALSE)
      BY <1>1, <1>3, <1>4, StatusToSensingIs
    <3>2. r = c
      BY <2>2
    <3> HIDE DEF c, r
    <3>3. Calm(r, FALSE)
      BY <3>1, <3>2
    <3> QED
      BY <2>2, <3>3 DEF Ready, Calm, Sends1
  <2> QED
    BY <2>1, <2>2
<1> HIDE DEF r
<1>7. /\ Done(n, r) /\ offered' = offered
      /\ tx' \in [Nodes -> Frames \cup {None}]
      /\ tx'[n] = IF r.send = None THEN tx[n] ELSE r.send
      /\ hears' \in [Nodes -> SUBSET Nodes] /\ hears'[n] = hears[n] \ {m}
      /\ fresh' \subseteq InRange
      /\ \A k \in Nodes \ {n} : tx'[k] = tx[k] /\ hears'[k] = hears[k]
  BY <1>1, <1>2, <1>5, UnheardIs
<1>8. /\ lock' \in [Nodes -> Frames \cup {None}] /\ lock'[n] = None
      /\ \A k \in Nodes \ {n} : lock'[k] = lock[k]
  BY <1>1, <1>2, LockGone
<1>9. /\ mac'[n] = r.s /\ handed'[n] = handed[n] /\ mac'[n].lastSeq = mac[n].lastSeq
  BY <1>1, <1>5, <1>7, SilentStep DEF e
<1>10. RadioSound(n)' /\ StationSound(mac[n])'
  <2>1. PICK idle \in BOOLEAN : idle = (hears[n] = {m})
    <3>1. (hears[n] = {m}) \in BOOLEAN
      BY SMT
    <3> QED
      BY Zenon, <3>1
  <2>2. Ready(n, r, idle)
    BY Zenon, <1>6, <2>1
  <2>3. Turns(n, Outcome(n), r, idle)
    BY <1>3, <1>4, <2>2 DEF Turns, e
  <2>4. idle => hears'[n] = {}
    BY <1>7, <2>1
  <2> QED
    BY <1>1, <1>5, <1>7, <1>8, <1>9, <2>3, <2>4, RadioKept
<1>11. Hears(n)
  BY <1>8, <1>9 DEF Hears, Ignores
<1> QED
  BY <1>5, <1>7, <1>8, <1>10, <1>11, DoneKeeps DEF e

LEMMA SignalGoneKeeps ==
    ASSUME IInv, NEW n \in Nodes, NEW m \in Nodes, Ended(n, m), SignalGone(n, m)
    PROVE  IInv'
<1> DEFINE e == Outcome(n)
<1>1. Typed /\ RadioSound(n) /\ StationSound(mac[n])
  BY DEF IInv
<1>2. /\ lock' = lock
      /\ Unheard(n, m, IF PhyStatus(n) = "SENSING" /\ hears[n] = {m}
                       THEN StatusChange(e, "SENSING", "IDLE", None) ELSE e)
  BY DEF SignalGone
<1>3. e \in Outcomes /\ e.s = mac[n] /\ e.send = None /\ e.up = <<>>
  BY <1>1, OutcomeIs
<1>4. mac[n].state \notin Contending
  BY <1>1 DEF RadioSound, Ended
<1>5. lock' \in [Nodes -> Frames \cup {None}]
  BY <1>1, <1>2 DEF Typed
<1> HIDE DEF e
<1>6. CASE PhyStatus(n) = "SENSING" /\ hears[n] = {m}
  <2> DEFINE r == StatusChange(e, "SENSING", "IDLE", None)
  <2>1. Unheard(n, m, r)
    BY <1>2, <1>6
  <2>2. tx[n] = None /\ lock[n] = None
    BY <1>6 DEF PhyStatus
  <2>3. mac[n].state \notin Transmitting
    BY <1>1, <2>2 DEF RadioSound
  <2>4. Ready(n, e, TRUE)
    BY <1>1, <1>3, <1>4, <2>3 DEF Ready, Sends1
  <2>5. r \in Outcomes /\ Silent(e, r) /\ Follows(e, r) /\ Ready(n, r, TRUE)
    BY <1>3, <2>4, StatusToIdleIs
  <2> HIDE DEF r
  <2>6. /\ Done(n, r) /\ offered' = offered
        /\ tx' \in [Nodes -> Frames \cup {None}]
        /\ tx'[n] = IF r.send = None THEN tx[n] ELSE r.send
        /\ hears' \in [Nodes -> SUBSET Nodes] /\ hears'[n] = hears[n] \ {m}
        /\ fresh' \subseteq InRange
        /\ \A k \in Nodes \ {n} : tx'[k] = tx[k] /\ hears'[k] = hears[k]
    BY <1>1, <2>1, <2>5, UnheardIs
  <2>7. /\ mac'[n] = r.s /\ handed'[n] = handed[n] /\ mac'[n].lastSeq = mac[n].lastSeq
    BY <1>1, <2>5, <2>6, SilentStep DEF e
  <2>8. RadioSound(n)' /\ StationSound(mac[n])'
    <3>1. PICK idle \in BOOLEAN : idle = TRUE
      OBVIOUS
    <3>2. Ready(n, r, idle)
      BY Zenon, <2>5, <3>1
    <3>3. Turns(n, Outcome(n), r, idle)
      BY <1>3, <2>3, <3>2 DEF Turns, e
    <3>4. hears'[n] = {} /\ lock'[n] = None
      BY <1>2, <1>6, <2>2, <2>6
    <3> QED
      BY <1>1, <1>2, <2>5, <2>6, <2>7, <3>3, <3>4, RadioKept
  <2>9. Hears(n)
    BY <1>2, <2>7 DEF Hears, Ignores
  <2> QED
    BY <1>2, <1>5, <2>5, <2>6, <2>8, <2>9, DoneKeeps DEF e
<1>7. CASE ~(PhyStatus(n) = "SENSING" /\ hears[n] = {m})
  <2>1. Unheard(n, m, e)
    BY <1>2, <1>7
  <2>2. SameLine(e, e) /\ Silent(e, e)
    BY DEF SameLine, Silent
  <2>3. Follows(e, e)
    BY <1>3, <2>2, FollowsSame
  <2>4. /\ Done(n, e) /\ offered' = offered
        /\ tx' \in [Nodes -> Frames \cup {None}]
        /\ tx'[n] = IF e.send = None THEN tx[n] ELSE e.send
        /\ hears' \in [Nodes -> SUBSET Nodes] /\ hears'[n] = hears[n] \ {m}
        /\ fresh' \subseteq InRange
        /\ \A k \in Nodes \ {n} : tx'[k] = tx[k] /\ hears'[k] = hears[k]
    BY <1>1, <1>3, <2>1, UnheardIs
  <2>5. mac'[n] = mac[n] /\ handed'[n] = handed[n]
    BY <1>1, <1>3, <2>2, <2>4, SilentStep DEF e
  <2>6. RadioSound(n)' /\ StationSound(mac[n])'
    BY <1>1, <1>2, <1>3, <1>4, <2>4, <2>5 DEF RadioSound
  <2>7. Hears(n)
    BY <1>2, <2>5 DEF Hears, Ignores
  <2> QED
    BY <1>2, <1>3, <1>5, <2>3, <2>4, <2>6, <2>7, DoneKeeps DEF e
<1> QED
  BY <1>6, <1>7

-----------------------------------------------------------------------------
(* Every step, and the start.                                              *)

LEMMA NextKeeps ==
    ASSUME IInv, Next
    PROVE  IInv'
<1>1. CASE BeaconFallsDue
  BY <1>1, BeaconFallsDueKeeps
<1>2. ASSUME NEW n \in Nodes, Station(n) PROVE IInv'
  BY <1>2, ContentionEndsKeeps, NoResponseKeeps, NoDataKeeps, NavTimeoutKeeps,
     SendBeaconKeeps, HeaderReceivedKeeps, NavEndsKeeps DEF Station
<1>3. ASSUME NEW n \in Nodes, Upper(n) PROVE IInv'
  BY <1>3, NetworkHasPacketKeeps, DataQueueEnqueueKeeps, ManagementRequestKeeps
  DEF Upper
<1>4. ASSUME NEW n \in Nodes, Radio(n) PROVE IInv'
  <2>1. CASE TransmissionEnds(n)
    BY <2>1, TransmissionEndsKeeps
  <2>2. ASSUME NEW m \in Nodes, SignalArrives(n, m) PROVE IInv'
    BY <2>2, TooWeakKeeps, ReceivedKeeps, DrownedKeeps DEF SignalArrives
  <2>3. ASSUME NEW m \in Nodes, SignalEnds(n, m) PROVE IInv'
    BY <2>3, FrameReceivedKeeps, FrameSpoiltKeeps, SignalGoneKeeps DEF SignalEnds
  <2> QED
    BY <1>4, <2>1, <2>2, <2>3 DEF Radio
<1> QED
  BY <1>1, <1>2, <1>3, <1>4 DEF Next

LEMMA StutterKeeps ==
    ASSUME IInv, UNCHANGED vars
    PROVE  IInv'
<1>1. /\ mac' = mac /\ offered' = offered /\ network' = network /\ tx' = tx
      /\ handed' = handed /\ fresh' = fresh /\ hears' = hears /\ lock' = lock
  BY DEF vars, air
<1>2. Typed'
  BY <1>1 DEF IInv, Typed
<1>3. \A n \in Nodes : RadioSound(n)' /\ StationSound(mac[n])'
  BY <1>1 DEF IInv, RadioSound
<1>4. \A n \in Nodes : Lined(mac[n], network[n], offered[n])'
  BY <1>1 DEF IInv
<1>5. \A m, n \in Nodes : Known1(m, n)' /\ Receives(m, n)'
  BY <1>1 DEF IInv, Known1, Receives, Reached, Waiting, DataOf
<1>6. HandedOnce'
  BY <1>1 DEF IInv, HandedOnce
<1> QED
  BY <1>2, <1>3, <1>4, <1>5, <1>6 DEF IInv

LEMMA IdleIs ==
    /\ Idle \in Stations /\ Idle.state = "IDLE" /\ Idle.currentMessage = None
    /\ Idle.mngmtQueue = <<>> /\ Idle.dataQueue = <<>>
<1>1. [m \in Nodes |-> 0] \in [Nodes -> Nat]
  OBVIOUS
<1>2. <<>> \in Seq(Messages) /\ 0 \in 0 .. RetryLimit /\ "IDLE" \in States
  BY DcfAssumption DEF DcfAssumption, States
<1> QED
  BY <1>1, <1>2 DEF Idle, Stations

(* What the layers above have to send is in order, and on one path.         *)
LEMMA LoadIs ==
    ASSUME NEW load \in Loads, NEW n \in Nodes
    PROVE  /\ load[n] \in Seq(Messages) /\ Ordered(load[n])
           /\ \E path \in {"network", "data"} : OnPath(path, load[n])
<1> DEFINE q == load[n]
<1>1. q \in Seq(Messages)
  BY DcfAssumption DEF DcfAssumption
<1>2. PICK path \in {"network", "data"} : \A i \in 1 .. Len(q) :
         /\ <<q[i].kind, q[i].via>> \in {<<"data", path>>, <<"mgmt", "mgmt">>}
         /\ \A j \in 1 .. i - 1 : q[j].id < q[i].id
  BY DcfAssumption DEF DcfAssumption
<1> HIDE DEF q
<1>3. Ordered(q)
  BY <1>1, <1>2 DEF Ordered
<1>4. OnPath(path, q)
  BY <1>2 DEF OnPath
<1> QED
  BY <1>1, <1>3, <1>4 DEF q

LEMMA InitHolds ==
    ASSUME Init
    PROVE  IInv
<1>1. \A n \in Nodes :
         /\ mac[n] = Idle /\ network[n] = <<>> /\ tx[n] = None /\ lock[n] = None
         /\ hears[n] = {} /\ handed[n] = <<>>
  BY DEF Init
<1>2. Typed
  <2>1. mac \in [Nodes -> Stations]
    BY IdleIs DEF Init
  <2>2. offered \in [Nodes -> Seq(Messages)]
    BY DcfAssumption DEF DcfAssumption, Init
  <2>3. /\ network \in [Nodes -> Seq(Messages)] /\ handed \in [Nodes -> Seq(Frames)]
        /\ tx \in [Nodes -> Frames \cup {None}]
        /\ lock \in [Nodes -> Frames \cup {None}]
        /\ hears \in [Nodes -> SUBSET Nodes] /\ fresh \subseteq InRange
    BY DEF Init
  <2> QED
    BY <2>1, <2>2, <2>3 DEF Typed
<1>3. ASSUME NEW n \in Nodes PROVE RadioSound(n) /\ StationSound(mac[n])
  BY <1>1, IdleIs DEF RadioSound, StationSound, Transmitting, Contending,
     WaitingForResponse, Exchange
<1>4. ASSUME NEW n \in Nodes PROVE Lined(mac[n], network[n], offered[n])
  <2>1. /\ offered[n] \in Seq(Messages) /\ Ordered(offered[n])
        /\ \E path \in {"network", "data"} : OnPath(path, offered[n])
    BY LoadIs DEF Init
  <2>2. /\ mac[n].currentMessage = None /\ mac[n].mngmtQueue = <<>>
        /\ mac[n].dataQueue = <<>> /\ network[n] = <<>>
    BY <1>1, IdleIs
  <2>3. Ordered(<<>>) /\ Ids(<<>>) = {}
    BY DEF Ordered, Ids
  <2>4. ~IsData(mac[n].currentMessage)
    BY <2>2 DEF IsData
  <2> QED
    BY <2>1, <2>2, <2>3, <2>4 DEF Lined
<1>5. ASSUME NEW m \in Nodes, NEW n \in Nodes PROVE Known1(m, n) /\ Receives(m, n)
  BY <1>1 DEF Known1, Receives, DataOf
<1>6. HandedOnce
  BY <1>1 DEF HandedOnce
<1> QED
  BY <1>2, <1>3, <1>4, <1>5, <1>6 DEF IInv

-----------------------------------------------------------------------------
(* The theorems.                                                           *)

(* The inductive invariant: the MAC and the radio agree, waits have timers,  *)
(* the queues are in order, and the receiver's history and the number it     *)
(* keeps fit what the sender is busy with.                                   *)
THEOREM Inductive == Spec => []IInv
<1>1. Init => IInv
  BY InitHolds
<1>2. IInv /\ [Next]_vars => IInv'
  BY NextKeeps, StutterKeeps
<1> QED
  BY <1>1, <1>2, PTL DEF Spec

(* A station's state is one of MacDot11States, its retry counters stay       *)
(* within their limits and signals come from stations in range.              *)
THEOREM TypeIsRight == Spec => []TypeOK
<1>1. IInv => TypeOK
  <2> SUFFICES ASSUME IInv PROVE TypeOK
    OBVIOUS
  <2>1. mac \in [Nodes -> Stations] /\ hears \in [Nodes -> SUBSET Nodes]
        /\ fresh \subseteq InRange
    BY DEF IInv, Typed
  <2> QED
    BY <2>1 DEF TypeOK, Stations, States
<1> QED
  BY <1>1, Inductive, PTL

(* The assertions of MacDot11ProcessNotMyFrame and                           *)
(* MacDot11ReceivePacketFromPhy never fail: a station whose radio receives a *)
(* frame is neither waiting for the channel nor sending, whatever order the  *)
(* signals came in and however they overlap.                                 *)
THEOREM AssertionsHold == Spec => []ReadyToReceive
<1>1. IInv => ReadyToReceive
  <2> SUFFICES ASSUME IInv, NEW n \in Nodes, lock[n] # None
               PROVE  mac[n].state \notin {"WFNAV", "CONTENDING"} \cup Transmitting
    BY DEF ReadyToReceive
  <2>1. RadioSound(n)
    BY DEF IInv
  <2> QED
    BY <2>1 DEF RadioSound, Contending
<1> QED
  BY <1>1, Inductive, PTL

(* No station waits for a response, for the NAV or for the channel without   *)
(* a timer that ends the wait, unless MacDot11ProcessBeacon has cancelled it.*)
THEOREM NoWaitWithoutEnd == Spec => []WaitsEnd
<1>1. IInv => WaitsEnd
  BY DEF IInv, WaitsEnd, StationSound, Contending
<1> QED
  BY <1>1, Inductive, PTL

(* MacDot11StationCorrectSeqenceNumber does its work: a data frame reaches   *)
(* the layers above of a station at most once and in the order the sender's  *)
(* layers gave it, whatever is lost, repeated or collides.                   *)
THEOREM DataHandedOnce == Spec => []HandedOnce
<1>1. IInv => HandedOnce
  BY DEF IInv
<1> QED
  BY <1>1, Inductive, PTL
=============================================================================
