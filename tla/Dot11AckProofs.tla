--------------------------- MODULE Dot11AckProofs ---------------------------
(***************************************************************************)
(* What the MAC of Dot11Dcf reports as acknowledged has been handed up by  *)
(* the station it was for, for every set of stations, whoever hears whom,  *)
(* every traffic and all limits: no acknowledgement is taken for that of   *)
(* another frame.                                                          *)
(***************************************************************************)
EXTENDS Dot11DcfProofs

-----------------------------------------------------------------------------
(* Outcomes of handlers that neither begin a wait for an acknowledgement,  *)
(* nor send, nor report.                                                   *)

Bare(o, r) == r.ok = o.ok /\ r.send = o.send

Quiet(o, r) ==
    /\ Bare(o, r)
    /\ \A x \in {"WFACK", "X_UNICAST"} :
          r.s.state = x =>
             o.s.state = x /\ r.s.currentMessage = o.s.currentMessage

LEMMA QuietSame ==
    ASSUME NEW o
    PROVE  Quiet(o, o)
BY DEF Quiet, Bare

LEMMA QuietOn ==
    ASSUME NEW o, NEW p, NEW r, Quiet(o, p), Quiet(p, r)
    PROVE  Quiet(o, r)
BY DEF Quiet, Bare

LEMMA QuietIs ==
    ASSUME NEW o, NEW r, Bare(o, r), r.s.state \notin {"WFACK", "X_UNICAST"}
    PROVE  Quiet(o, r)
BY DEF Quiet

LEMMA StartTimerQuiet ==
    ASSUME NEW o \in Outcomes
    PROVE  Quiet(o, StartTimer(o)) /\ StartTimer(o) \in Outcomes
<1>1. Bare(o, StartTimer(o))
  BY DEF StartTimer, Outcomes, Bare
<1> QED
  BY <1>1, StartTimerIs DEF Quiet, SameLine

LEMMA CancelTimerQuiet ==
    ASSUME NEW o \in Outcomes
    PROVE  Quiet(o, CancelTimer(o)) /\ CancelTimer(o) \in Outcomes
<1>1. Bare(o, CancelTimer(o))
  BY DEF CancelTimer, Outcomes, Bare
<1> QED
  BY <1>1, CancelTimerIs DEF Quiet, SameLine

(* ... into a state that is neither of the two.                             *)
LEMMA SetStateQuiet ==
    ASSUME NEW o \in Outcomes, NEW x \in States \ {"WFACK", "X_UNICAST"}
    PROVE  /\ Quiet(o, SetState(o, x)) /\ SetState(o, x) \in Outcomes
           /\ SetState(o, x).s.state = x
<1>1. /\ SetState(o, x) \in Outcomes /\ SetState(o, x).s.state = x
      /\ SetState(o, x).send = o.send /\ SetState(o, x).ok = o.ok
  BY SetStateIs
<1> QED
  BY <1>1 DEF Quiet, Bare

LEMMA SomeStates ==
    {"IDLE", "CONTENDING", "WFNAV", "WFBEACON", "HEADER_CHECK_MODE"}
       \subseteq States \ {"WFACK", "X_UNICAST"}
BY DEF States, WaitingForResponse

LEMMA GoIdleQuiet ==
    ASSUME NEW o \in Outcomes
    PROVE  LET r == CancelTimer(SetState(o, "IDLE")) IN
           Quiet(o, r) /\ r \in Outcomes /\ r.s.state = "IDLE"
<1> DEFINE p == SetState(o, "IDLE")
<1>1. Quiet(o, p) /\ p \in Outcomes /\ p.s.state = "IDLE"
  BY SomeStates, SetStateQuiet
<1> HIDE DEF p
<1>2. Quiet(p, CancelTimer(p)) /\ CancelTimer(p) \in Outcomes
      /\ CancelTimer(p).s.state = "IDLE"
  BY <1>1, CancelTimerQuiet, CancelTimerIs
<1> QED
  BY <1>1, <1>2, QuietOn DEF p

LEMMA AttemptToContendQuiet ==
    ASSUME NEW o \in Outcomes, NEW idle \in BOOLEAN
    PROVE  LET r == AttemptToContend(o, idle) IN
           /\ Quiet(o, r) /\ r \in Outcomes
           /\ r.s.state \in {"IDLE", "CONTENDING", "WFNAV"}
<1>1. CASE ~idle
  <2>1. AttemptToContend(o, idle) = CancelTimer(SetState(o, "IDLE"))
    BY <1>1 DEF AttemptToContend
  <2> QED
    BY <2>1, GoIdleQuiet
<1>2. CASE idle
  <2> DEFINE x == IF o.s.nav THEN "WFNAV" ELSE "CONTENDING"
  <2>1. x \in {"IDLE", "CONTENDING", "WFNAV"}
    OBVIOUS
  <2> HIDE DEF x
  <2> DEFINE p == SetState(o, x)
  <2>2. Quiet(o, p) /\ p \in Outcomes /\ p.s.state = x
    BY <2>1, SomeStates, SetStateQuiet
  <2>3. AttemptToContend(o, idle) = StartTimer(p)
    BY <1>2 DEF AttemptToContend, x
  <2> HIDE DEF p
  <2>4. Quiet(p, StartTimer(p)) /\ StartTimer(p) \in Outcomes /\ StartTimer(p).s.state = x
    BY <2>2, StartTimerQuiet, StartTimerIs
  <2> QED
    BY <2>1, <2>2, <2>3, <2>4, QuietOn
<1> QED
  BY <1>1, <1>2

LEMMA WaitForBeaconQuiet ==
    ASSUME NEW o \in Outcomes
    PROVE  LET r == WaitForBeacon(o) IN
           Quiet(o, r) /\ r \in Outcomes /\ r.s.state = "WFBEACON"
<1> DEFINE p == SetState(o, "WFBEACON")
<1>1. Quiet(o, p) /\ p \in Outcomes /\ p.s.state = "WFBEACON"
  BY SomeStates, SetStateQuiet
<1>2. WaitForBeacon(o) = StartTimer(p)
  BY DEF WaitForBeacon
<1> HIDE DEF p
<1>3. Quiet(p, StartTimer(p)) /\ StartTimer(p) \in Outcomes
      /\ StartTimer(p).s.state = "WFBEACON"
  BY <1>1, StartTimerQuiet, StartTimerIs
<1> QED
  BY <1>1, <1>2, <1>3, QuietOn

(* Whatever the station was doing, it is not in an exchange afterwards.     *)
LEMMA CheckForOutgoingPacketQuiet ==
    ASSUME NEW o \in Outcomes, NEW idle \in BOOLEAN
    PROVE  LET r == CheckForOutgoingPacket(o, idle) IN
           /\ Quiet(o, r) /\ r \in Outcomes
           /\ r.s.state \in {"IDLE", "CONTENDING", "WFNAV", "WFBEACON"}
<1> DEFINE p == CancelTimer(SetState(o, "IDLE"))
<1> DEFINE q == MoveAPacketToTheLocalBuffer(p)
<1> DEFINE r == CheckForOutgoingPacket(o, idle)
<1>1. Quiet(o, p) /\ p \in Outcomes /\ p.s.state = "IDLE"
  BY GoIdleQuiet
<1>2. r = IF CanHandleDueBeacon(q.s, idle) THEN WaitForBeacon(q)
          ELSE IF q.s.currentMessage = None THEN q ELSE AttemptToContend(q, idle)
  BY Zenon DEF CheckForOutgoingPacket
<1> HIDE DEF p
<1>3. q \in Outcomes /\ q.send = p.send /\ q.ok = p.ok /\ q.s.state = "IDLE"
  BY <1>1, MoveIs
<1> HIDE DEF q, r
<1>4. Quiet(o, q)
  BY <1>1, <1>3 DEF Quiet, Bare
<1>5. /\ Quiet(q, WaitForBeacon(q)) /\ WaitForBeacon(q) \in Outcomes
      /\ WaitForBeacon(q).s.state = "WFBEACON"
  BY <1>3, WaitForBeaconQuiet
<1>6. LET a == AttemptToContend(q, idle) IN
      Quiet(q, a) /\ a \in Outcomes /\ a.s.state \in {"IDLE", "CONTENDING", "WFNAV"}
  BY <1>3, AttemptToContendQuiet
<1>7. Quiet(q, r) /\ r \in Outcomes
      /\ r.s.state \in {"IDLE", "CONTENDING", "WFNAV", "WFBEACON"}
  BY <1>2, <1>3, <1>5, <1>6, QuietSame
<1> QED
  BY <1>4, <1>7, QuietOn DEF r

LEMMA StartSendTimersQuiet ==
    ASSUME NEW o \in Outcomes
    PROVE  Quiet(o, StartSendTimers(o)) /\ StartSendTimers(o) \in Outcomes
<1>1. CASE o.s.state = "IDLE"
  <2>1. PICK yes \in BOOLEAN : yes = TRUE
    OBVIOUS
  <2>2. StartSendTimers(o) = CheckForOutgoingPacket(o, yes)
    BY Zenon, <1>1, <2>1 DEF StartSendTimers
  <2> QED
    BY <2>2, CheckForOutgoingPacketQuiet
<1>2. CASE o.s.state # "IDLE"
  BY <1>2, QuietSame DEF StartSendTimers
<1> QED
  BY <1>1, <1>2

LEMMA CancelSomeTimersQuiet ==
    ASSUME NEW o \in Outcomes
    PROVE  Quiet(o, CancelSomeTimers(o)) /\ CancelSomeTimers(o) \in Outcomes
<1>1. CASE o.s.state \in {"CONTENDING", "WFNAV", "WFBEACON"}
  <2>1. CancelSomeTimers(o) = CancelTimer(SetState(o, "IDLE"))
    BY Zenon, <1>1 DEF CancelSomeTimers
  <2> QED
    BY <2>1, GoIdleQuiet
<1>2. CASE o.s.state \notin {"CONTENDING", "WFNAV", "WFBEACON"}
  <2>1. CancelSomeTimers(o) = o
    BY Zenon, <1>2 DEF CancelSomeTimers
  <2> QED
    BY <2>1, QuietSame
<1> QED
  BY <1>1, <1>2

LEMMA RetransmitQuiet ==
    ASSUME NEW o \in Outcomes, NEW idle \in BOOLEAN, o.send = None,
           o.s.state \in {"WFCTS", "WFACK"}, o.s.currentMessage # None
    PROVE  Quiet(o, Retransmit(o, idle))
<1> DEFINE tried == IF o.s.state = "WFCTS" THEN o.s.SSRC ELSE o.s.SLRC
<1> DEFINE p == IF o.s.state = "WFCTS" THEN [o EXCEPT !.s.SSRC = @ + 1]
                ELSE [o EXCEPT !.s.SLRC = @ + 1]
<1>1. Retransmit(o, idle) = IF tried < RetryLimit THEN AttemptToContend(p, idle)
                            ELSE CheckForOutgoingPacket(Finished(o), idle)
  BY Zenon DEF Retransmit
<1>2. CASE tried < RetryLimit
  <2>1. Retransmit(o, idle) = AttemptToContend(p, idle)
    BY <1>1, <1>2
  <2> HIDE DEF p
  <2>2. p \in Outcomes /\ Bare(o, p)
    <3>1. CASE o.s.state = "WFCTS"
      <4>1. o.s.SSRC + 1 \in 0 .. RetryLimit
        BY <1>2, <3>1, RetryLimitIs DEF Outcomes, Stations
      <4>2. p = [o EXCEPT !.s.SSRC = @ + 1]
        BY <3>1 DEF p
      <4> QED
        BY <4>1, <4>2 DEF Outcomes, Stations, Bare
    <3>2. CASE o.s.state # "WFCTS"
      <4>1. o.s.SLRC + 1 \in 0 .. RetryLimit
        BY <1>2, <3>2, RetryLimitIs DEF Outcomes, Stations
      <4>2. p = [o EXCEPT !.s.SLRC = @ + 1]
        BY <3>2 DEF p
      <4> QED
        BY <4>1, <4>2 DEF Outcomes, Stations, Bare
    <3> QED
      BY <3>1, <3>2
  <2>3. LET r == AttemptToContend(p, idle) IN
        Quiet(p, r) /\ r.s.state \in {"IDLE", "CONTENDING", "WFNAV"}
    BY <2>2, AttemptToContendQuiet
  <2> QED
    BY <2>1, <2>2, <2>3, QuietIs DEF Quiet, Bare
<1>3. CASE ~(tried < RetryLimit)
  <2> DEFINE q == Finished(o)
  <2>1. Retransmit(o, idle) = CheckForOutgoingPacket(q, idle)
    BY <1>1, <1>3
  <2>2. q \in Outcomes /\ q.send = o.send /\ q.ok = o.ok
    BY FinishedIs
  <2> HIDE DEF q
  <2>3. LET r == CheckForOutgoingPacket(q, idle) IN
        Quiet(q, r) /\ r.s.state \in {"IDLE", "CONTENDING", "WFNAV", "WFBEACON"}
    BY <2>2, CheckForOutgoingPacketQuiet
  <2> QED
    BY <2>1, <2>2, <2>3, QuietIs DEF Quiet, Bare
<1> QED
  BY <1>2, <1>3

LEMMA ProcessNotMyFrameQuiet ==
    ASSUME NEW o \in Outcomes, NEW idle \in BOOLEAN, NEW later \in BOOLEAN
    PROVE  Quiet(o, ProcessNotMyFrame(o, idle, later))
<1> DEFINE p == [o EXCEPT !.s.nav = TRUE]
<1> DEFINE r == ProcessNotMyFrame(o, idle, later)
<1>1. p \in Outcomes /\ Quiet(o, p)
  BY DEF Outcomes, Stations, Quiet, Bare
<1>2. r = StartTimer(SetState(p, "WFNAV")) \/ r = p
  BY Zenon DEF ProcessNotMyFrame
<1> HIDE DEF p
<1> DEFINE q == SetState(p, "WFNAV")
<1>3. Quiet(p, q) /\ q \in Outcomes
  BY <1>1, SomeStates, SetStateQuiet
<1> HIDE DEF q
<1>4. Quiet(q, StartTimer(q))
  BY <1>3, StartTimerQuiet
<1> QED
  BY <1>1, <1>2, <1>3, <1>4, QuietOn DEF q

LEMMA ProcessBeaconQuiet ==
    ASSUME NEW o \in Outcomes
    PROVE  Quiet(o, ProcessBeacon(o))
<1>1. CASE o.s.nav
  BY <1>1, QuietSame DEF ProcessBeacon
<1>2. CASE ~o.s.nav
  <2> DEFINE p == CancelTimer(o)
  <2>1. (o.s.state \in WaitingForResponse) \in BOOLEAN
    BY SMT
  <2>2. PICK b \in BOOLEAN : b = (o.s.state \in WaitingForResponse)
    BY Zenon, <2>1
  <2>3. ProcessBeacon(o) = [p EXCEPT !.s.cut = b]
    BY Zenon, <1>2, <2>2 DEF ProcessBeacon
  <2>4. p \in Outcomes /\ Quiet(o, p)
    BY CancelTimerQuiet
  <2> HIDE DEF p
  <2>5. Quiet(p, [p EXCEPT !.s.cut = b])
    BY <2>4 DEF Outcomes, Stations, Quiet, Bare
  <2> QED
    BY <2>3, <2>4, <2>5, QuietOn
<1> QED
  BY <1>1, <1>2

LEMMA ExamineQuiet ==
    ASSUME NEW o \in Outcomes, NEW f
    PROVE  Quiet(o, Examine(o, f))
<1>1. Examine(o, f) \in {o, StartTimer(SetState(o, "HEADER_CHECK_MODE")),
                         CancelTimer(SetState(o, "IDLE"))}
  BY Zenon DEF Examine
<1> DEFINE p == SetState(o, "HEADER_CHECK_MODE")
<1>2. Quiet(o, p) /\ p \in Outcomes
  BY SomeStates, SetStateQuiet
<1> HIDE DEF p
<1>3. Quiet(o, StartTimer(p))
  BY <1>2, StartTimerQuiet, QuietOn
<1> QED
  BY <1>1, <1>3, GoIdleQuiet, QuietSame DEF p

LEMMA StatusChangeQuiet ==
    ASSUME NEW o \in Outcomes, NEW f, NEW old \in {"IDLE", "SENSING", "RECEIVING"},
           NEW new \in {"IDLE", "SENSING", "RECEIVING"}
    PROVE  Quiet(o, StatusChange(o, old, new, f))
<1> DEFINE p == CancelSomeTimers(o)
<1>1. StatusChange(o, old, new, f) \in
         {o, p, Examine(p, f), Examine(o, f), CancelTimer(SetState(o, "IDLE")),
          StartSendTimers(o)}
  BY DEF StatusChange
<1>2. Quiet(o, p) /\ p \in Outcomes
  BY CancelSomeTimersQuiet
<1> HIDE DEF p
<1>3. Quiet(o, Examine(p, f))
  BY <1>2, ExamineQuiet, QuietOn
<1> QED
  BY <1>1, <1>2, <1>3, ExamineQuiet, GoIdleQuiet, StartSendTimersQuiet, QuietSame

(* An empty local buffer is filled, and contended for by an idle station.   *)
LEMMA TakenUpQuiet ==
    ASSUME NEW o \in Outcomes, NEW p \in Outcomes, NEW idle \in BOOLEAN,
           o.s.currentMessage = None, StationSound(o.s),
           p.s.state = o.s.state, p.send = o.send, p.ok = o.ok
    PROVE  Quiet(o, IF o.s.state = "IDLE" THEN AttemptToContend(p, idle) ELSE p)
<1>1. o.s.state \notin {"WFACK", "X_UNICAST"}
  BY DEF StationSound, Exchange
<1>2. Quiet(o, p)
  BY <1>1 DEF Quiet, Bare
<1>3. Quiet(o, AttemptToContend(p, idle))
  BY <1>2, AttemptToContendQuiet, QuietOn
<1> QED
  BY <1>2, <1>3

LEMMA MoveFromTheNetworkLayerQuiet ==
    ASSUME NEW o \in Outcomes, NEW idle \in BOOLEAN, StationSound(o.s), o.net # <<>>
    PROVE  Quiet(o, MoveFromTheNetworkLayer(o, idle))
<1>1. CASE o.s.currentMessage # None
  BY <1>1, QuietSame DEF MoveFromTheNetworkLayer
<1>2. CASE o.s.currentMessage = None
  <2> DEFINE p == NetworkDequeue(o)
  <2>1. MoveFromTheNetworkLayer(o, idle) =
          IF o.s.state = "IDLE" THEN AttemptToContend(p, idle) ELSE p
    BY Zenon, <1>2 DEF MoveFromTheNetworkLayer
  <2>2. p \in Outcomes /\ p.send = o.send /\ p.ok = o.ok /\ p.s.state = o.s.state
    BY <1>2, NetworkDequeueIs
  <2> HIDE DEF p
  <2> QED
    BY <1>2, <2>1, <2>2, TakenUpQuiet
<1> QED
  BY <1>1, <1>2

LEMMA DataQueueHasPacketToSendQuiet ==
    ASSUME NEW o \in Outcomes, NEW idle \in BOOLEAN, StationSound(o.s),
           o.s.dataQueue # <<>>
    PROVE  Quiet(o, DataQueueHasPacketToSend(o, idle))
<1>1. CASE o.s.currentMessage # None
  BY <1>1, QuietSame DEF DataQueueHasPacketToSend
<1>2. CASE o.s.currentMessage = None
  <2> DEFINE p == DataQueueDequeue(o)
  <2>1. DataQueueHasPacketToSend(o, idle) =
          IF o.s.state = "IDLE" THEN AttemptToContend(p, idle) ELSE p
    BY Zenon, <1>2 DEF DataQueueHasPacketToSend
  <2>2. p \in Outcomes /\ p.send = o.send /\ p.ok = o.ok /\ p.s.state = o.s.state
    BY <1>2, DataQueueDequeueIs
  <2> HIDE DEF p
  <2> QED
    BY <1>2, <2>1, <2>2, TakenUpQuiet
<1> QED
  BY <1>1, <1>2

-----------------------------------------------------------------------------
(* Acknowledgements: who sends one answers what it has handed up, now or    *)
(* before, and who reports one has received it.                             *)

Replies(n, o, f, r) ==
    /\ r.s.state = "WFACK" =>
          o.s.state = "WFACK" /\ r.s.currentMessage = o.s.currentMessage
    /\ r.s.state = "X_UNICAST" =>
          r.send = Frame(r.s.currentMessage.kind, n, r.s.currentMessage.to,
                         r.s.currentMessage.id)
    /\ \/ r.ok = o.ok
       \/ /\ f.kind = "ack" /\ f.to = n /\ o.s.state = "WFACK"
          /\ r.ok = {<<o.s.currentMessage.id, o.s.currentMessage.to>>}
    /\ r.send # None /\ r.send.kind = "ack" =>
          /\ f.to = n /\ r.send.to = f.from
          /\ \/ r.up = <<f>> \/ Known(n, f)
             \/ f.id # 0 /\ o.s.lastSeq[f.from] = f.id

LEMMA QuietReplies ==
    ASSUME NEW n, NEW o \in Outcomes, NEW f, NEW r, Listening(o), Quiet(o, r)
    PROVE  Replies(n, o, f, r)
BY DEF Replies, Listening, Quiet, Bare, Transmitting

LEMMA RepliesOn ==
    ASSUME NEW n, NEW o \in Outcomes, NEW f, NEW p, NEW r,
           Replies(n, o, f, p), Quiet(p, r), Silent(p, r)
    PROVE  Replies(n, o, f, r)
BY DEF Replies, Quiet, Bare, Silent

LEMMA TransmitAckSays ==
    ASSUME NEW n \in Nodes, NEW o \in Outcomes, NEW to \in Nodes \cup {Everyone}
    PROVE  LET r == TransmitAck(o, n, to) IN
           /\ r \in Outcomes /\ r.ok = o.ok /\ r.s.state = "X_ACK"
           /\ r.up = o.up /\ r.s.lastSeq = o.s.lastSeq
           /\ r.send.kind = "ack" /\ r.send.to = to
<1> DEFINE frame == Frame("ack", n, to, 0)
<1> DEFINE r == Transmit(o, "X_ACK", frame)
<1>1. TransmitAck(o, n, to) = r
  BY DEF TransmitAck
<1>2. frame \in Frames /\ frame.kind = "ack" /\ frame.to = to
  BY DEF Frame, Frames
<1> HIDE DEF frame
<1>3. "X_ACK" \in States
  BY DEF States, Transmitting
<1>4. r \in Outcomes /\ r.s.state = "X_ACK" /\ r.send = frame
      /\ SameLine(o, r) /\ Silent(o, r)
  BY <1>2, <1>3, TransmitIs
<1>5. r.ok = o.ok
  BY <1>2 DEF Transmit, Outcomes
<1> QED
  BY <1>1, <1>2, <1>4, <1>5 DEF Silent, SameLine

LEMMA HandOffSays ==
    ASSUME NEW o \in Outcomes, NEW f \in Frames
    PROVE  /\ Quiet(o, HandOff(o, f)) /\ HandOff(o, f) \in Outcomes
           /\ HandOff(o, f).up = <<f>> /\ HandOff(o, f).s = o.s
<1>1. HandOff(o, f).ok = o.ok
  BY DEF HandOff, Outcomes
<1> QED
  BY <1>1, HandOffIs DEF Quiet, Bare

LEMMA ProcessBroadcastQuiet ==
    ASSUME NEW o \in Outcomes, NEW f \in Frames, NEW idle \in BOOLEAN
    PROVE  Quiet(o, ProcessBroadcast(o, f, idle))
<1> DEFINE p == HandOff(o, f)
<1>1. Quiet(o, p) /\ p \in Outcomes
  BY HandOffSays
<1>2. ProcessBroadcast(o, f, idle) \in {p, CheckForOutgoingPacket(p, idle)}
  BY Zenon DEF ProcessBroadcast
<1> HIDE DEF p
<1>3. Quiet(o, CheckForOutgoingPacket(p, idle))
  BY <1>1, CheckForOutgoingPacketQuiet, QuietOn
<1> QED
  BY <1>1, <1>2, <1>3

LEMMA ProcessUnicastReplies ==
    ASSUME NEW n \in Nodes, NEW o \in Outcomes, NEW f \in Frames,
           Listening(o), f.to = n, f.kind = "data"
    PROVE  Replies(n, o, f, ProcessUnicast(o, f))
<1> DEFINE p == CancelTimer(o)
<1> DEFINE a == TransmitAck(p, n, f.from)
<1>1. f.from \in Nodes \cup {Everyone} /\ f.id \in Nat \ {0}
  BY DEF Frames
<1>2. p \in Outcomes /\ p.ok = o.ok /\ p.s.lastSeq = o.s.lastSeq
  BY CancelTimerIs, CancelTimerQuiet DEF Quiet, Bare, Silent
<1>3. ProcessUnicast(o, f) = IF CorrectSequenceNumber(o.s, f)
                             THEN HandOff([a EXCEPT !.s.lastSeq[f.from] = f.id], f)
                             ELSE a
  BY DEF ProcessUnicast
<1> HIDE DEF p
<1>4. /\ a \in Outcomes /\ a.ok = o.ok /\ a.s.state = "X_ACK"
      /\ a.send.kind = "ack" /\ a.send.to = f.from
      /\ a.s.lastSeq = o.s.lastSeq
  <2>1. a \in Outcomes
    BY <1>1, <1>2, TransmitAckSays
  <2>2. a.ok = o.ok
    BY <1>1, <1>2, TransmitAckSays
  <2>3. a.s.state = "X_ACK"
    BY <1>1, <1>2, TransmitAckSays
  <2>4. a.send.kind = "ack"
    BY <1>1, <1>2, TransmitAckSays
  <2>5. a.send.to = f.from
    BY <1>1, <1>2, TransmitAckSays
  <2>6. a.s.lastSeq = o.s.lastSeq
    BY <1>1, <1>2, TransmitAckSays
  <2> QED
    BY <2>1, <2>2, <2>3, <2>4, <2>5, <2>6
<1> HIDE DEF a
<1>5. CASE CorrectSequenceNumber(o.s, f)
  <2> DEFINE c == [a EXCEPT !.s.lastSeq[f.from] = f.id]
  <2> DEFINE r == HandOff(c, f)
  <2>1. ProcessUnicast(o, f) = r
    BY <1>3, <1>5
  <2>2. /\ r.ok = a.ok /\ r.s.state = "X_ACK" /\ r.send = a.send /\ r.up = <<f>>
    BY <1>4 DEF HandOff, Outcomes, Stations
  <2> HIDE DEF r
  <2> QED
    BY <2>1, <2>2, <1>4 DEF Replies
<1>6. CASE ~CorrectSequenceNumber(o.s, f)
  <2>1. f.id # 0 /\ o.s.lastSeq[f.from] = f.id
    BY <1>1, <1>6 DEF CorrectSequenceNumber
  <2> QED
    BY <1>3, <1>4, <1>6, <2>1 DEF Replies
<1> QED
  BY <1>5, <1>6

LEMMA ProcessFrameReplies ==
    ASSUME NEW n \in Nodes, NEW o \in Outcomes, NEW f \in Frames,
           NEW idle \in BOOLEAN, Listening(o),
           f.to = Everyone \/ (f.to = n /\ f.kind = "data")
    PROVE  Replies(n, o, f, ProcessFrame(o, f, idle))
<1>1. ProcessFrame(o, f, idle) =
        IF o.s.state # "WFDATA" /\ o.s.state \in WaitingForResponse THEN o
        ELSE IF f.to = Everyone THEN ProcessBroadcast(o, f, idle)
        ELSE ProcessUnicast(o, f)
  BY Zenon DEF ProcessFrame
<1>2. Replies(n, o, f, o) /\ Replies(n, o, f, ProcessBroadcast(o, f, idle))
  BY QuietSame, ProcessBroadcastQuiet, QuietReplies
<1>3. f.to = n /\ f.kind = "data" => Replies(n, o, f, ProcessUnicast(o, f))
  BY ProcessUnicastReplies
<1> QED
  BY Zenon, <1>1, <1>2, <1>3

LEMMA ProcessRtsReplies ==
    ASSUME NEW n \in Nodes, NEW o \in Outcomes, NEW f \in Frames,
           NEW idle \in BOOLEAN, Listening(o), f.to = n
    PROVE  Replies(n, o, f, ProcessRts(o, f, idle))
<1> DEFINE p == CancelTimer(o)
<1> DEFINE c == Frame("cts", n, f.from, 0)
<1> DEFINE r == Transmit(p, "X_CTS", c)
<1>1. ProcessRts(o, f, idle) \in {o, r}
  BY Zenon DEF ProcessRts
<1>2. p \in Outcomes /\ p.ok = o.ok
  BY CancelTimerQuiet DEF Quiet, Bare
<1>3. c.kind = "cts"
  BY DEF Frame
<1> HIDE DEF p, c
<1>4. r.ok = o.ok /\ r.s.state = "X_CTS" /\ r.send = c
  BY <1>2 DEF Transmit, Outcomes, Stations
<1> HIDE DEF r
<1>5. Replies(n, o, f, r)
  BY <1>3, <1>4 DEF Replies
<1> QED
  BY <1>1, <1>5, QuietSame, QuietReplies

LEMMA ProcessCtsReplies ==
    ASSUME NEW n \in Nodes, NEW o \in Outcomes, NEW f \in Frames,
           NEW idle \in BOOLEAN, Listening(o), f.to = n
    PROVE  Replies(n, o, f, ProcessCts(o, f, idle))
<1>1. CASE o.s.state = "WFCTS" /\ idle
  <2> DEFINE m == o.s.currentMessage
  <2> DEFINE p == CancelTimer(o)
  <2> DEFINE q == [p EXCEPT !.s.SSRC = 0]
  <2> DEFINE c == Frame(m.kind, n, m.to, m.id)
  <2> DEFINE r == Transmit(q, "X_UNICAST", c)
  <2>1. ProcessCts(o, f, idle) = r
    BY Zenon, <1>1 DEF ProcessCts
  <2>2. m \in Messages
    BY <1>1 DEF Listening, StationSound, Exchange, Outcomes, Stations
  <2>3. c.kind # "ack" /\ c.kind = m.kind
    BY <2>2 DEF Frame, Messages, Kinds
  <2>4. p \in Outcomes /\ p.ok = o.ok /\ p.s.currentMessage = m
    BY CancelTimerQuiet, CancelTimerIs DEF Quiet, Bare, SameLine
  <2> HIDE DEF p, m
  <2>5. q.ok = o.ok /\ q.s.currentMessage = m /\ q \in Outcomes
    BY <2>4, RetryLimitIs DEF Outcomes, Stations
  <2> HIDE DEF q
  <2>6. r.ok = o.ok /\ r.s.state = "X_UNICAST" /\ r.send = c /\ r.s.currentMessage = m
    BY <2>5 DEF Transmit, Outcomes, Stations
  <2> HIDE DEF r
  <2>7. r.send = Frame(r.s.currentMessage.kind, n, r.s.currentMessage.to,
                       r.s.currentMessage.id)
    BY <2>6
  <2> QED
    BY <2>1, <2>3, <2>6, <2>7 DEF Replies
<1>2. CASE ~(o.s.state = "WFCTS" /\ idle)
  <2>1. ProcessCts(o, f, idle) = o
    BY Zenon, <1>2 DEF ProcessCts
  <2> QED
    BY <2>1, QuietSame, QuietReplies
<1> QED
  BY <1>1, <1>2

LEMMA ProcessAckFrameReplies ==
    ASSUME NEW n \in Nodes, NEW o \in Outcomes, NEW f \in Frames,
           NEW idle \in BOOLEAN, Listening(o), f.to = n, f.kind = "ack"
    PROVE  Replies(n, o, f, ProcessAckFrame(o, idle))
<1>1. CASE o.s.state = "WFACK"
  <2> DEFINE p == CancelTimer(o)
  <2> DEFINE c == p.s.currentMessage
  <2> DEFINE q == [p EXCEPT !.ok = {<<c.id, c.to>>}]
  <2> DEFINE e == Finished(q)
  <2> DEFINE r == CheckForOutgoingPacket(e, idle)
  <2>1. ProcessAckFrame(o, idle) = r
    BY Zenon, <1>1 DEF ProcessAckFrame, ProcessAck
  <2>2. p \in Outcomes /\ p.send = None /\ c = o.s.currentMessage
    BY CancelTimerIs DEF SameLine, Listening
  <2>3. c \in Messages
    BY <1>1, <2>2 DEF Listening, StationSound, Exchange, Outcomes, Stations
  <2>4. <<c.id, c.to>> \in Nat \X (Nodes \cup {Everyone})
    BY <2>3 DEF Messages
  <2> HIDE DEF p, c
  <2>5. q \in Outcomes /\ q.send = None /\ q.ok = {<<c.id, c.to>>}
    BY <2>2, <2>4 DEF Outcomes
  <2> HIDE DEF q
  <2>6. e \in Outcomes /\ e.send = None /\ e.ok = {<<c.id, c.to>>}
    BY <2>5, FinishedIs
  <2> HIDE DEF e
  <2>7. /\ r.send = None /\ r.ok = {<<c.id, c.to>>}
        /\ r.s.state \in {"IDLE", "CONTENDING", "WFNAV", "WFBEACON"}
    BY <2>6, CheckForOutgoingPacketQuiet DEF Quiet, Bare
  <2> HIDE DEF r
  <2> QED
    BY <1>1, <2>1, <2>2, <2>7 DEF Replies
<1>2. CASE o.s.state # "WFACK"
  <2>1. ProcessAckFrame(o, idle) = o
    BY Zenon, <1>2 DEF ProcessAckFrame
  <2> QED
    BY <2>1, QuietSame, QuietReplies
<1> QED
  BY <1>1, <1>2

(* The answer of an access point acknowledges the request.                  *)
LEMMA MgmtQueueEnqueueSays ==
    ASSUME NEW n \in Nodes, NEW o \in Outcomes, NEW frame \in Messages,
           NEW idle \in BOOLEAN, frame.kind # "data", o.send = None
    PROVE  LET r == MgmtQueueEnqueue(o, n, frame, idle) IN
           IF o.s.mgmtSendResponse
           THEN /\ r \in Outcomes /\ r.ok = o.ok /\ r.s.state = "X_ACK"
                /\ r.send.kind = "ack" /\ r.send.to = frame.to
           ELSE Quiet(o, r)
<1> DEFINE q == [o EXCEPT !.s.mngmtQueue = Append(@, frame)]
<1> DEFINE t == IF q.s.mgmtSendResponse THEN TransmitAck(q, n, frame.to) ELSE q
<1> DEFINE r == MgmtQueueEnqueue(o, n, frame, idle)
<1>1. r = IF Len(t.s.mngmtQueue) = 1 THEN MngmtQueueHasPacketToSend(t, idle) ELSE t
  BY Zenon DEF MgmtQueueEnqueue
<1>2. q \in Outcomes /\ q.s.mgmtSendResponse = o.s.mgmtSendResponse
  BY QueuedIs
<1>3. Quiet(o, q)
  BY DEF Outcomes, Stations, Quiet, Bare
<1>4. frame.to \in Nodes \cup {Everyone}
  BY DEF Messages
<1> HIDE DEF q, r
<1>5. CASE o.s.mgmtSendResponse
  <2> DEFINE a == TransmitAck(q, n, frame.to)
  <2>1. t = a
    BY <1>2, <1>5
  <2>2. /\ a \in Outcomes /\ a.ok = q.ok /\ a.s.state = "X_ACK"
        /\ a.send.kind = "ack" /\ a.send.to = frame.to
    <3>1. a \in Outcomes
      BY <1>2, <1>4, TransmitAckSays
    <3>2. a.ok = q.ok
      BY <1>2, <1>4, TransmitAckSays
    <3>3. a.s.state = "X_ACK"
      BY <1>2, <1>4, TransmitAckSays
    <3>4. a.send.kind = "ack"
      BY <1>2, <1>4, TransmitAckSays
    <3>5. a.send.to = frame.to
      BY <1>2, <1>4, TransmitAckSays
    <3> QED
      BY <3>1, <3>2, <3>3, <3>4, <3>5
  <2>3. r = a
    BY <1>1, <2>1, <2>2 DEF MngmtQueueHasPacketToSend
  <2> QED
    BY <1>3, <1>5, <2>2, <2>3 DEF r, Quiet, Bare
<1>6. CASE ~o.s.mgmtSendResponse
  <2>1. t = q
    BY <1>2, <1>6
  <2>2. r \in {q, CheckForOutgoingPacket(q, idle)}
    BY <1>1, <2>1 DEF MngmtQueueHasPacketToSend
  <2>3. Quiet(o, CheckForOutgoingPacket(q, idle))
    BY <1>2, <1>3, CheckForOutgoingPacketQuiet, QuietOn
  <2> QED
    BY <1>3, <1>6, <2>2, <2>3 DEF r
<1> QED
  BY <1>5, <1>6

LEMMA HandOffManagementReplies ==
    ASSUME NEW n \in Nodes, NEW o \in Outcomes, NEW p \in Outcomes, NEW f \in Frames,
           p.ok = o.ok, p.s.state = "X_ACK", p.send.kind = "ack",
           p.send.to = f.from, f.to = n
    PROVE  Replies(n, o, f, HandOffManagement(p, n, f))
<1> DEFINE r == HandOff(p, f)
<1>1. HandOffManagement(p, n, f) = IF Known(n, f) THEN p ELSE r
  BY DEF HandOffManagement
<1>2. Known(n, f) => Replies(n, o, f, p)
  BY DEF Replies
<1>3. r.ok = p.ok /\ r.s = p.s /\ r.send = p.send /\ r.up = <<f>>
  BY HandOffSays DEF Quiet, Bare
<1> HIDE DEF r
<1>4. Replies(n, o, f, r)
  BY <1>3 DEF Replies
<1> QED
  BY Zenon, <1>1, <1>2, <1>4

LEMMA ProcessManagementReplies ==
    ASSUME NEW n \in Nodes, NEW o \in Outcomes, NEW f \in Frames,
           NEW idle \in BOOLEAN, Listening(o), f.kind # "data", f.to = n
    PROVE  Replies(n, o, f, ProcessManagement(o, n, f, idle))
<1>1. CASE f.kind = "mgmt"
  <2> DEFINE p == [o EXCEPT !.s.mgmtSendResponse = TRUE]
  <2> DEFINE q == MgmtQueueEnqueue(p, n, Answer(f), idle)
  <2>1. ProcessManagement(o, n, f, idle) = HandOffManagement(q, n, f)
    BY Zenon, <1>1 DEF ProcessManagement
  <2>2. p \in Outcomes /\ p.send = None /\ p.s.mgmtSendResponse /\ p.ok = o.ok
    BY DEF Outcomes, Stations, Listening
  <2>3. Answer(f) \in Messages /\ Answer(f).kind # "data"
    BY <1>1, AnswerIs
  <2>4. Answer(f).to = f.from
    BY DEF Answer
  <2> HIDE DEF p
  <2>5. /\ q \in Outcomes /\ q.ok = o.ok /\ q.s.state = "X_ACK"
        /\ q.send.kind = "ack" /\ q.send.to = f.from
    BY <2>2, <2>3, <2>4, MgmtQueueEnqueueSays
  <2> HIDE DEF q
  <2> QED
    BY <2>1, <2>5, HandOffManagementReplies
<1>2. CASE f.kind # "mgmt"
  <2> DEFINE q == TransmitAck(o, n, f.from)
  <2>1. ProcessManagement(o, n, f, idle) = HandOffManagement(q, n, f)
    BY Zenon, <1>2 DEF ProcessManagement
  <2>2. f.from \in Nodes \cup {Everyone}
    BY DEF Frames
  <2>3. /\ q \in Outcomes /\ q.ok = o.ok /\ q.s.state = "X_ACK"
        /\ q.send.kind = "ack" /\ q.send.to = f.from
    BY <2>2, TransmitAckSays
  <2> HIDE DEF q
  <2> QED
    BY <2>1, <2>3, HandOffManagementReplies
<1> QED
  BY <1>1, <1>2

LEMMA ProcessMyFrameReplies ==
    ASSUME NEW n \in Nodes, NEW o \in Outcomes, NEW f \in Frames,
           NEW idle \in BOOLEAN, Listening(o), f.to = n
    PROVE  Replies(n, o, f, ProcessMyFrame(o, n, f, idle))
<1> DEFINE r == ProcessMyFrame(o, n, f, idle)
<1>1. CASE f.kind = "rts"
  <2>1. r = ProcessRts(o, f, idle)
    BY Zenon, <1>1 DEF ProcessMyFrame
  <2> QED
    BY <2>1, ProcessRtsReplies
<1>2. CASE f.kind = "cts"
  <2>1. r = ProcessCts(o, f, idle)
    BY <1>2 DEF ProcessMyFrame
  <2> QED
    BY <2>1, ProcessCtsReplies
<1>3. CASE f.kind = "ack"
  <2>1. r = ProcessAckFrame(o, idle)
    BY <1>3 DEF ProcessMyFrame
  <2> QED
    BY <1>3, <2>1, ProcessAckFrameReplies
<1>4. CASE f.kind = "data"
  <2>1. r = ProcessFrame(o, f, idle)
    BY <1>4 DEF ProcessMyFrame, ProcessDataFrame
  <2> QED
    BY <1>4, <2>1, ProcessFrameReplies
<1>5. CASE f.kind \notin {"rts", "cts", "ack", "data"}
  <2>1. r = ProcessManagement(o, n, f, idle)
    BY <1>5 DEF ProcessMyFrame
  <2> QED
    BY <1>5, <2>1, ProcessManagementReplies
<1> QED
  BY <1>1, <1>2, <1>3, <1>4, <1>5

LEMMA ReceivePacketFromPhyReplies ==
    ASSUME NEW n \in Nodes, NEW o \in Outcomes, NEW f \in Frames,
           NEW idle \in BOOLEAN, NEW later \in BOOLEAN, Listening(o)
    PROVE  Replies(n, o, f, ReceivePacketFromPhy(o, n, f, idle, later))
<1> DEFINE m == ProcessMyFrame(o, n, f, idle)
<1> DEFINE a == ProcessAnyFrame(o, f, idle)
<1> DEFINE x == ProcessNotMyFrame(o, idle, later)
<1> DEFINE p == IF f.to = n THEN m ELSE IF f.to = Everyone THEN a ELSE x
<1> DEFINE r == ReceivePacketFromPhy(o, n, f, idle, later)
<1>1. r = IF idle THEN StartSendTimers(p) ELSE p
  BY Zenon DEF ReceivePacketFromPhy, AfterReception
<1>2. f.to = n => Replies(n, o, f, m) /\ m \in Outcomes /\ Ready(n, m, idle)
  BY ProcessMyFrameReplies, ProcessMyFrameIs DEF Answers
<1>3. f.to = Everyone => Replies(n, o, f, a) /\ a \in Outcomes /\ Ready(n, a, idle)
  <2>1. a \in {ProcessBeacon(o), ProcessFrame(o, f, idle)}
    BY Zenon DEF ProcessAnyFrame
  <2>2. Replies(n, o, f, ProcessBeacon(o))
    BY ProcessBeaconQuiet, QuietReplies
  <2> QED
    BY <2>1, <2>2, ProcessFrameReplies, ProcessAnyFrameIs DEF Answers
<1>4. Replies(n, o, f, x) /\ x \in Outcomes /\ Ready(n, x, idle)
  BY ProcessNotMyFrameQuiet, QuietReplies, ProcessNotMyFrameIs, CalmIsReady
<1>5. Replies(n, o, f, p) /\ p \in Outcomes /\ Ready(n, p, idle)
  BY Zenon, <1>2, <1>3, <1>4
<1> HIDE DEF p, r
<1>6. CASE idle
  <2> DEFINE s == StartSendTimers(p)
  <2>1. r = s
    BY <1>1, <1>6
  <2>2. Ready(n, p, TRUE)
    BY <1>5, <1>6 DEF Ready
  <2>3. Silent(p, s)
    BY <1>5, <2>2, StartSendTimersIs
  <2>4. Quiet(p, s)
    BY <1>5, StartSendTimersQuiet
  <2> HIDE DEF s
  <2> QED
    BY <1>5, <2>1, <2>3, <2>4, RepliesOn DEF r
<1>7. CASE ~idle
  BY <1>1, <1>5, <1>7 DEF r
<1> QED
  BY <1>6, <1>7

-----------------------------------------------------------------------------
(* The other handlers neither report nor acknowledge.                       *)

Tells(n, o, r) ==
    \/ Quiet(o, r)
    \/ /\ r.ok = o.ok /\ r.send # None /\ r.send.kind # "ack"
       /\ r.s.state # "WFACK"
       /\ r.s.state = "X_UNICAST" =>
             r.send = Frame(r.s.currentMessage.kind, n, r.s.currentMessage.to,
                            r.s.currentMessage.id)

LEMMA SpentQuiet ==
    ASSUME Typed, NEW n \in Nodes
    PROVE  Quiet(Outcome(n), Spent(n)) /\ Spent(n) \in Outcomes
<1> DEFINE e == Outcome(n)
<1>1. e \in Outcomes
  BY OutcomeIs
<1>2. Spent(n) = CancelTimer(e)
  BY DEF Spent
<1> HIDE DEF e
<1> QED
  BY <1>1, <1>2, CancelTimerQuiet DEF e

LEMMA StartSendingTells ==
    ASSUME Typed, NEW n \in Nodes, mac[n].state = "CONTENDING", StationSound(mac[n])
    PROVE  Tells(n, Outcome(n), StartSending(n))
<1> DEFINE e == Outcome(n)
<1> DEFINE p == Spent(n)
<1> DEFINE o == MoveAPacketToTheLocalBuffer(p)
<1> DEFINE m == o.s.currentMessage
<1> DEFINE r == StartSending(n)
<1>1. /\ p \in Outcomes /\ SameLine(e, p) /\ p.s.state = "CONTENDING"
  BY SpentIs
<1>2. e \in Outcomes /\ e.s = mac[n]
  BY OutcomeIs
<1>3. r = IF m.to = Everyone
          THEN Transmit(o, "X_BROADCAST", Frame(m.kind, n, m.to, m.id))
          ELSE IF m.rts THEN Transmit(o, "X_RTS", Frame("rts", n, m.to, 0))
          ELSE Transmit(o, "X_UNICAST", Frame(m.kind, n, m.to, m.id))
  BY Zenon DEF StartSending
<1>4. p.ok = e.ok
  BY SpentQuiet DEF Quiet, Bare
<1> HIDE DEF e, p, r
<1>5. HasToSend(p.s)
  <2>1. HasToSend(mac[n])
    BY DEF StationSound, Contending
  <2> QED
    BY <1>1, <1>2, <2>1 DEF HasToSend, SameLine
<1>6. o \in Outcomes /\ o.ok = e.ok /\ m # None
  BY <1>1, <1>4, <1>5, MoveIs
<1> HIDE DEF o
<1>7. m.kind \in Kinds /\ m.to \in Nodes \cup {Everyone} /\ m.id \in Nat \ {0}
  BY <1>6 DEF Outcomes, Stations, Messages
<1>8. ASSUME NEW x \in {"X_BROADCAST", "X_RTS", "X_UNICAST"}, NEW f \in Frames,
             f.kind # "ack",
             x = "X_UNICAST" => f = Frame(m.kind, n, m.to, m.id),
             r = Transmit(o, x, f)
      PROVE  Tells(n, e, r)
  <2>1. x \in States
    BY DEF States, Transmitting
  <2>2. /\ SameLine(o, r) /\ r.s.state = x /\ r.send = f
    BY <1>6, <1>8, <2>1, TransmitIs
  <2>3. r.ok = o.ok
    BY <1>6, <1>8 DEF Transmit, Outcomes
  <2>4. r.s.currentMessage = m
    BY <2>2 DEF SameLine
  <2> HIDE DEF m
  <2> QED
    BY <1>6, <1>8, <2>2, <2>3, <2>4, NotNone DEF Tells
<1>9. CASE m.to = Everyone
  <2> DEFINE f == Frame(m.kind, n, m.to, m.id)
  <2>1. f \in Frames /\ f.kind # "ack"
    BY <1>7, FrameIs DEF Kinds
  <2>2. r = Transmit(o, "X_BROADCAST", f)
    BY <1>3, <1>9
  <2> HIDE DEF f
  <2> QED
    BY <1>8, <1>9, <2>1, <2>2 DEF e, r
<1>10. CASE m.to # Everyone /\ m.rts
  <2> DEFINE f == Frame("rts", n, m.to, 0)
  <2>1. f \in Frames /\ f.kind # "ack"
    BY <1>7 DEF Frame, Frames
  <2>2. r = Transmit(o, "X_RTS", f)
    BY <1>3, <1>10
  <2> HIDE DEF f
  <2> QED
    BY <1>8, <1>10, <2>1, <2>2 DEF e, r
<1>11. CASE m.to # Everyone /\ ~m.rts
  <2> DEFINE f == Frame(m.kind, n, m.to, m.id)
  <2>1. f \in Frames /\ f.kind # "ack" /\ f = Frame(m.kind, n, m.to, m.id)
    BY <1>7, FrameIs DEF Kinds
  <2>2. r = Transmit(o, "X_UNICAST", f)
    BY <1>3, <1>11
  <2> HIDE DEF f
  <2> QED
    BY <1>8, <1>11, <2>1, <2>2 DEF e, r
<1> QED
  BY <1>9, <1>10, <1>11

(* A wait for an acknowledgement follows the frame it is for, and no         *)
(* transmission follows another at once.                                    *)
LEMMA TransmissionHasFinishedSays ==
    ASSUME NEW o \in Outcomes, NEW idle \in BOOLEAN, o.s.state \in Transmitting
    PROVE  LET r == TransmissionHasFinished(o, idle) IN
           /\ r.ok = o.ok /\ r.s.state # "X_UNICAST"
           /\ r.s.state = "WFACK" =>
                 /\ o.s.state = "X_UNICAST"
                 /\ r.s.currentMessage = o.s.currentMessage
<1> DEFINE r == TransmissionHasFinished(o, idle)
<1>1. ASSUME NEW x \in {"WFCTS", "WFDATA", "WFACK"}, r = StartTimer(SetState(o, x))
      PROVE  r.ok = o.ok /\ r.s.state = x /\ r.s.currentMessage = o.s.currentMessage
  <2> DEFINE p == SetState(o, x)
  <2>1. x \in States
    BY DEF States, WaitingForResponse
  <2>2. p \in Outcomes /\ p.s.state = x /\ SameLine(o, p) /\ p.ok = o.ok
    BY <2>1, SetStateIs
  <2>3. r = StartTimer(p)
    BY <1>1
  <2> HIDE DEF p, r
  <2>4. r.ok = p.ok
    BY <2>2, <2>3, StartTimerQuiet DEF Quiet, Bare
  <2>5. r.s.state = x /\ SameLine(p, r)
    BY <2>2, <2>3, StartTimerIs
  <2> QED
    BY <2>2, <2>4, <2>5 DEF SameLine
<1>2. CASE o.s.state = "X_RTS"
  <2>1. r = StartTimer(SetState(o, "WFCTS"))
    BY <1>2 DEF TransmissionHasFinished
  <2> HIDE DEF r
  <2> QED
    BY <1>1, <2>1 DEF r
<1>3. CASE o.s.state = "X_CTS"
  <2>1. r = StartTimer(SetState(o, "WFDATA"))
    BY <1>3 DEF TransmissionHasFinished
  <2> HIDE DEF r
  <2> QED
    BY <1>1, <2>1 DEF r
<1>4. CASE o.s.state = "X_UNICAST"
  <2>1. r = StartTimer(SetState(o, "WFACK"))
    BY <1>4 DEF TransmissionHasFinished
  <2> HIDE DEF r
  <2> QED
    BY <1>1, <1>4, <2>1 DEF r
<1>5. ASSUME NEW p \in Outcomes, p.ok = o.ok, r = CheckForOutgoingPacket(p, idle)
      PROVE  r.ok = o.ok /\ r.s.state \notin {"X_UNICAST", "WFACK"}
  <2> HIDE DEF r
  <2> QED
    BY <1>5, CheckForOutgoingPacketQuiet DEF Quiet, Bare
<1>6. CASE o.s.state = "X_BROADCAST"
  <2> DEFINE p == Finished(o)
  <2>1. r = CheckForOutgoingPacket(p, idle)
    BY <1>6 DEF TransmissionHasFinished
  <2>2. p \in Outcomes /\ p.ok = o.ok
    BY FinishedIs
  <2> HIDE DEF p, r
  <2> QED
    BY <1>5, <2>1, <2>2 DEF r
<1>7. CASE o.s.state \notin {"X_RTS", "X_CTS", "X_UNICAST", "X_BROADCAST"}
  <2>1. r = CheckForOutgoingPacket(o, idle)
    BY <1>7 DEF TransmissionHasFinished
  <2> HIDE DEF r
  <2> QED
    BY <1>5, <2>1 DEF r
<1> QED
  BY <1>2, <1>3, <1>4, <1>6, <1>7

-----------------------------------------------------------------------------
(* The inductive invariant: signals, and what acknowledgements tell.        *)

(* k has handed up a frame with number x.                                   *)
Got(k, x) == \E i \in 1 .. Len(handed[k]) : handed[k][i].id = x
GotNow(k, x) == \E i \in 1 .. Len(handed'[k]) : handed'[k][i].id = x

(* f is an acknowledgement of k to n.                                       *)
Acks(f, k, n) == f # None /\ f.kind = "ack" /\ f.from = k /\ f.to = n

Reports == acked \in [Nodes -> SUBSET (Nat \X Nodes)]

(* What has yet to reach a station is being sent by another, and no station *)
(* senses its own signal.                                                   *)
Early == \A m, n \in Nodes : <<m, n>> \in fresh => tx[m] # None /\ m # n
Sensed == \A n \in Nodes : n \notin hears[n]

(* The end of one transmission reaches all before the next one ends.        *)
OneEnds == \A a, b, m, k \in Nodes : Ended(a, m) /\ Ended(b, k) => m = k

(* The sequence numbers a station keeps are of frames it has handed up.     *)
Numbers ==
    \A k, n \in Nodes : mac[k].lastSeq[n] # 0 => Got(k, mac[k].lastSeq[n])

(* What goes out for an acknowledgement is the frame in the local buffer.   *)
Sending ==
    \A n \in Nodes : mac[n].state = "X_UNICAST" =>
        tx[n] = Frame(mac[n].currentMessage.kind, n, mac[n].currentMessage.to,
                      mac[n].currentMessage.id)

(* What k receives of n is what n sends; when that is over and n waits for   *)
(* an acknowledgement, it is the frame n waits for.                          *)
LockedTo(k, n) ==
    lock[k] # None /\ lock[k].from = n =>
        /\ n \in hears[k]
        /\ tx[n] # None => lock[k] = tx[n]
        /\ tx[n] = None /\ mac[n].state = "WFACK" =>
              /\ lock[k].id = mac[n].currentMessage.id
              /\ lock[k].to = mac[n].currentMessage.to
Locked == \A k, n \in Nodes : LockedTo(k, n)

(* An acknowledgement on its way to a station that sends ends before that    *)
(* station does.                                                             *)
InOrder ==
    \A k, n \in Nodes :
        Acks(tx[k], k, n) /\ k # n /\ tx[n] # None => <<k, n>> \in sooner

(* An acknowledgement on its way to a station that waits for one is of the   *)
(* frame it waits for: the frame was for the one who sends it, and has been  *)
(* handed up there.                                                          *)
Truth ==
    \A k, n \in Nodes :
        /\ k # n /\ mac[n].state = "WFACK"
        /\ Acks(tx[k], k, n) \/ Acks(lock[n], k, n)
        => k = mac[n].currentMessage.to /\ Got(k, mac[n].currentMessage.id)

AInv == /\ Reports /\ Early /\ Sensed /\ OneEnds /\ Numbers /\ Sending
        /\ Locked /\ InOrder /\ Truth /\ AckedIsHanded

-----------------------------------------------------------------------------
(* Every step but the end of a transmission: what station n does.           *)

Alone(n) ==
    \A k \in Nodes \ {n} :
        /\ mac'[k] = mac[k] /\ tx'[k] = tx[k] /\ hears'[k] = hears[k]
        /\ lock'[k] = lock[k] /\ handed'[k] = handed[k] /\ acked'[k] = acked[k]

(* It starts to send, or does not.                                          *)
SendsOrNot(n) ==
    \/ tx'[n] = tx[n] /\ sooner' = sooner /\ fresh' \subseteq fresh
    \/ /\ tx[n] = None /\ tx'[n] # None /\ lock'[n] = None
       /\ sooner' = sooner \cup Earlier(n)
       /\ fresh' \subseteq fresh \cup Reaches(n)
       /\ \A k \in Nodes : ~Ended(k, n)

(* Its radio senses or receives signals that reach it.                      *)
Picks(n) ==
    /\ hears'[n] \subseteq hears[n] \cup {m \in Nodes : <<m, n>> \in fresh}
    /\ \/ lock'[n] \in {None, lock[n]}
       \/ \E m \in Nodes : <<m, n>> \in fresh /\ lock'[n] = tx[m]
    /\ lock'[n] # None => lock'[n].from \in hears'[n]

(* It hands up more, and keeps the numbers of what it has handed up.        *)
Gets(n) ==
    /\ \A x : Got(n, x) => GotNow(n, x)
    /\ \A m \in Nodes : \/ mac'[n].lastSeq[m] = mac[n].lastSeq[m]
                        \/ GotNow(n, mac'[n].lastSeq[m])

(* It begins no wait for an acknowledgement, and sends what it has to.      *)
Waits(n) ==
    /\ mac'[n].state = "WFACK" =>
          mac[n].state = "WFACK" /\ mac'[n].currentMessage = mac[n].currentMessage
    /\ mac'[n].state = "X_UNICAST" =>
          \/ /\ mac[n].state = "X_UNICAST"
             /\ mac'[n].currentMessage = mac[n].currentMessage
          \/ tx'[n] = Frame(mac'[n].currentMessage.kind, n, mac'[n].currentMessage.to,
                            mac'[n].currentMessage.id)

(* It reports an acknowledgement it has received.                           *)
Tallies(n) ==
    \/ acked'[n] = acked[n]
    \/ /\ mac[n].state = "WFACK" /\ lock[n] # None
       /\ lock[n].kind = "ack" /\ lock[n].to = n
       /\ acked'[n] =
            acked[n] \cup {<<mac[n].currentMessage.id, mac[n].currentMessage.to>>}

(* It acknowledges a frame it has received, and handed up.                  *)
Acknowledges(n) ==
    tx[n] = None /\ tx'[n] # None /\ tx'[n].kind = "ack" =>
        /\ lock[n] # None /\ lock[n].to = n /\ tx'[n].to = lock[n].from
        /\ tx[lock[n].from] = None /\ GotNow(n, lock[n].id)

Grows(n) ==
    /\ Alone(n) /\ SendsOrNot(n) /\ Picks(n) /\ Gets(n) /\ Waits(n)
    /\ Tallies(n) /\ Acknowledges(n)
    /\ acked' \in [Nodes -> SUBSET (Nat \X (Nodes \cup {Everyone}))]

(* Who sends goes on sending.                                               *)
LEMMA GoesOn ==
    ASSUME NEW n \in Nodes, Grows(n), NEW m \in Nodes, tx[m] # None
    PROVE  tx'[m] = tx[m]
BY DEF Grows, Alone, SendsOrNot

LEMMA GotMore ==
    ASSUME NEW n \in Nodes, Grows(n), NEW k \in Nodes, NEW x, Got(k, x)
    PROVE  GotNow(k, x)
<1>1. CASE k = n
  BY <1>1 DEF Grows, Gets
<1>2. CASE k # n
  <2>1. handed'[k] = handed[k]
    BY <1>2 DEF Grows, Alone
  <2> QED
    BY <2>1 DEF Got, GotNow
<1> QED
  BY <1>1, <1>2

(* A signal that has ended had ended before.                                *)
LEMMA EndedBefore ==
    ASSUME AInv, NEW n \in Nodes, Grows(n), NEW a \in Nodes, NEW m \in Nodes,
           Ended(a, m)'
    PROVE  Ended(a, m)
<1>1. m \in hears'[a] /\ tx'[m] = None /\ tx[m] = None
  BY GoesOn DEF Ended
<1>2. ~(<<m, a>> \in fresh)
  BY <1>1 DEF AInv, Early
<1>3. m \in hears[a]
  BY <1>1, <1>2 DEF Grows, Alone, Picks
<1> QED
  BY <1>1, <1>3 DEF Ended

LEMMA GrowsSignals ==
    ASSUME AInv, NEW n \in Nodes, Grows(n)
    PROVE  Early' /\ Sensed' /\ OneEnds'
<1>1. ASSUME NEW m \in Nodes, NEW k \in Nodes, <<m, k>> \in fresh'
      PROVE  tx'[m] # None /\ m # k
  <2>1. CASE <<m, k>> \in fresh
    BY <2>1, GoesOn DEF AInv, Early
  <2>2. CASE <<m, k>> \notin fresh
    <3>1. <<m, k>> \in Reaches(n) /\ tx'[n] # None
      BY <1>1, <2>2 DEF Grows, SendsOrNot
    <3> QED
      BY <3>1 DEF Reaches
  <2> QED
    BY <2>1, <2>2
<1>2. ASSUME NEW k \in Nodes PROVE k \notin hears'[k]
  BY DEF AInv, Early, Sensed, Grows, Alone, Picks
<1>3. ASSUME NEW a \in Nodes, NEW b \in Nodes, NEW m \in Nodes, NEW k \in Nodes,
             Ended(a, m)', Ended(b, k)'
      PROVE  m = k
  BY <1>3, EndedBefore DEF AInv, OneEnds
<1> QED
  BY <1>1, <1>2, <1>3 DEF Early, Sensed, OneEnds

LEMMA GrowsSending ==
    ASSUME IInv, AInv, NEW n \in Nodes, Grows(n)
    PROVE  Numbers' /\ Sending'
<1>1. ASSUME NEW k \in Nodes, NEW m \in Nodes, mac'[k].lastSeq[m] # 0
      PROVE  GotNow(k, mac'[k].lastSeq[m])
  <2>1. CASE mac'[k].lastSeq[m] = mac[k].lastSeq[m]
    <3>1. Got(k, mac[k].lastSeq[m])
      BY <1>1, <2>1 DEF AInv, Numbers
    <3>2. GotNow(k, mac[k].lastSeq[m])
      BY <3>1, GotMore
    <3> QED
      BY <2>1, <3>2
  <2>2. CASE mac'[k].lastSeq[m] # mac[k].lastSeq[m]
    <3>1. k = n
      BY <2>2 DEF Grows, Alone
    <3> QED
      BY <2>2, <3>1 DEF Grows, Gets
  <2> QED
    BY <2>1, <2>2
<1>2. ASSUME NEW k \in Nodes, mac'[k].state = "X_UNICAST"
      PROVE  tx'[k] = Frame(mac'[k].currentMessage.kind, k, mac'[k].currentMessage.to,
                            mac'[k].currentMessage.id)
  <2>1. CASE /\ mac[k].state = "X_UNICAST"
             /\ mac'[k].currentMessage = mac[k].currentMessage
    <3>1. tx[k] # None
      BY <2>1 DEF IInv, RadioSound, Transmitting
    <3> QED
      BY <2>1, <3>1, GoesOn DEF AInv, Sending
  <2>2. CASE ~(/\ mac[k].state = "X_UNICAST"
               /\ mac'[k].currentMessage = mac[k].currentMessage)
    <3>1. k = n
      BY <1>2, <2>2 DEF Grows, Alone
    <3> QED
      BY <1>2, <2>2, <3>1 DEF Grows, Waits
  <2> QED
    BY <2>1, <2>2
<1> QED
  BY <1>1, <1>2 DEF Numbers, Sending, Got, GotNow

(* Who waits for an acknowledgement did so before, for the same frame.      *)
LEMMA WaitedBefore ==
    ASSUME NEW n \in Nodes, Grows(n), NEW m \in Nodes, mac'[m].state = "WFACK"
    PROVE  mac[m].state = "WFACK" /\ mac'[m].currentMessage = mac[m].currentMessage
BY DEF Grows, Alone, Waits

LEMMA GrowsLocked ==
    ASSUME IInv, AInv, NEW n \in Nodes, Grows(n)
    PROVE  Locked'
<1> SUFFICES ASSUME NEW k \in Nodes, NEW m \in Nodes, lock'[k] # None,
                    lock'[k].from = m
             PROVE  /\ m \in hears'[k]
                    /\ tx'[m] # None => lock'[k] = tx'[m]
                    /\ tx'[m] = None /\ mac'[m].state = "WFACK" =>
                          /\ lock'[k].id = mac'[m].currentMessage.id
                          /\ lock'[k].to = mac'[m].currentMessage.to
  BY DEF Locked, LockedTo
<1>1. CASE lock'[k] = lock[k]
  <2>1. LockedTo(k, m) /\ lock[k] # None /\ lock[k].from = m
    BY <1>1 DEF AInv, Locked
  <2>2. m \in hears[k] /\ m # k
    BY <2>1 DEF LockedTo, AInv, Sensed
  <2>3. m \in hears'[k]
    BY <2>2 DEF Grows, Alone, Picks
  <2>4. ASSUME tx'[m] # None PROVE lock'[k] = tx'[m]
    <3>1. tx[m] # None
      <4> SUFFICES ASSUME tx[m] = None PROVE FALSE
        OBVIOUS
      <4>1. Ended(k, m)
        BY <2>2 DEF Ended
      <4>2. m = n
        BY <2>4 DEF Grows, Alone
      <4> QED
        BY <2>4, <4>1, <4>2 DEF Grows, SendsOrNot
    <3> QED
      BY <1>1, <2>1, <3>1, GoesOn DEF LockedTo
  <2>5. ASSUME tx'[m] = None, mac'[m].state = "WFACK"
        PROVE  /\ lock'[k].id = mac'[m].currentMessage.id
               /\ lock'[k].to = mac'[m].currentMessage.to
    BY <1>1, <2>1, <2>5, GoesOn, WaitedBefore DEF LockedTo
  <2> QED
    BY <2>3, <2>4, <2>5
<1>2. CASE lock'[k] # lock[k]
  <2>1. k = n
    BY <1>2 DEF Grows, Alone
  <2>2. PICK j \in Nodes : <<j, n>> \in fresh /\ lock'[n] = tx[j]
    BY <1>2, <2>1 DEF Grows, Picks
  <2>3. tx[j] # None
    BY <2>2 DEF AInv, Early
  <2>4. j = m
    BY <2>1, <2>2, <2>3 DEF IInv, RadioSound
  <2>5. m \in hears'[n]
    BY <2>1 DEF Grows, Picks
  <2> QED
    BY <2>1, <2>2, <2>3, <2>4, <2>5, GoesOn
<1> QED
  BY <1>1, <1>2

(* A new acknowledgement goes to a station that does not send.              *)
LEMMA NewAck ==
    ASSUME IInv, AInv, NEW n \in Nodes, Grows(n), NEW m \in Nodes, m # n,
           tx'[n] # tx[n], Acks(tx'[n], n, m)
    PROVE  /\ tx'[m] = None /\ GotNow(n, lock[n].id)
           /\ mac[m].state = "WFACK" =>
                 mac[m].currentMessage.to = n /\ mac[m].currentMessage.id = lock[n].id
<1>1. tx[n] = None /\ tx'[n] # None
  BY DEF Grows, SendsOrNot
<1>2. /\ lock[n] # None /\ lock[n].to = n /\ m = lock[n].from
      /\ tx[m] = None /\ GotNow(n, lock[n].id)
  BY <1>1 DEF Grows, Acknowledges, Acks
<1>3. tx'[m] = None
  BY <1>2 DEF Grows, Alone
<1> QED
  BY <1>2, <1>3 DEF AInv, Locked, LockedTo

LEMMA GrowsInOrder ==
    ASSUME IInv, AInv, NEW n \in Nodes, Grows(n)
    PROVE  InOrder'
<1> SUFFICES ASSUME NEW k \in Nodes, NEW m \in Nodes, Acks(tx'[k], k, m), k # m,
                    tx'[m] # None
             PROVE  <<k, m>> \in sooner'
  BY DEF InOrder, Acks
<1>1. sooner \subseteq sooner'
  BY DEF Grows, SendsOrNot
<1>2. tx'[k] = tx[k]
  <2>1. CASE k = n
    BY <2>1, NewAck
  <2>2. CASE k # n
    BY <2>2 DEF Grows, Alone
  <2> QED
    BY <2>1, <2>2
<1>3. CASE tx[m] # None
  BY <1>1, <1>2, <1>3 DEF AInv, InOrder
<1>4. CASE tx[m] = None
  <2>1. m = n /\ sooner' = sooner \cup Earlier(n)
    BY <1>4 DEF Grows, Alone, SendsOrNot
  <2>2. k \in Short
    BY <1>2 DEF Acks, Short
  <2> QED
    BY <2>1, <2>2 DEF Earlier
<1> QED
  BY <1>3, <1>4

LEMMA GrowsTruth ==
    ASSUME IInv, AInv, NEW n \in Nodes, Grows(n)
    PROVE  Truth'
<1> SUFFICES ASSUME NEW k \in Nodes, NEW m \in Nodes, k # m, mac'[m].state = "WFACK",
                    Acks(tx'[k], k, m) \/ Acks(lock'[m], k, m)
             PROVE  k = mac'[m].currentMessage.to /\ GotNow(k, mac'[m].currentMessage.id)
  BY DEF Truth, Acks, Got, GotNow
<1>1. mac[m].state = "WFACK" /\ mac'[m].currentMessage = mac[m].currentMessage
  BY WaitedBefore
<1>3. CASE Acks(tx[k], k, m) \/ Acks(lock[m], k, m)
  <2>1. k = mac[m].currentMessage.to /\ Got(k, mac[m].currentMessage.id)
    BY <1>1, <1>3 DEF AInv, Truth
  <2>2. GotNow(k, mac[m].currentMessage.id)
    BY <2>1, GotMore
  <2> QED
    BY <1>1, <2>1, <2>2
<1>4. CASE Acks(tx'[k], k, m) /\ ~Acks(tx[k], k, m)
  <2>1. tx'[k] # tx[k]
    BY <1>4
  <2>2. k = n
    BY <2>1 DEF Grows, Alone
  <2>3. /\ GotNow(n, lock[n].id) /\ mac[m].currentMessage.to = n
        /\ mac[m].currentMessage.id = lock[n].id
    BY <1>1, <1>4, <2>1, <2>2, NewAck
  <2> QED
    BY <1>1, <2>2, <2>3
<1>5. CASE Acks(lock'[m], k, m) /\ ~Acks(lock[m], k, m)
  <2>1. m = n /\ lock'[n] \notin {None, lock[n]}
    BY <1>5 DEF Grows, Alone, Acks
  <2>2. PICK j \in Nodes : <<j, n>> \in fresh /\ lock'[n] = tx[j]
    BY <2>1 DEF Grows, Picks
  <2>3. tx[j].from = j
    BY <2>1, <2>2 DEF IInv, RadioSound
  <2>4. Acks(tx[k], k, m)
    BY <1>5, <2>1, <2>2, <2>3 DEF Acks
  <2> QED
    BY <1>3, <2>4
<1> QED
  BY <1>3, <1>4, <1>5

LEMMA GrowsAcked ==
    ASSUME IInv, AInv, NEW n \in Nodes, Grows(n)
    PROVE  Reports' /\ AckedIsHanded'
<1>1. ASSUME NEW p, p \in acked'[n], p \notin acked[n]
      PROVE  /\ p = <<mac[n].currentMessage.id, mac[n].currentMessage.to>>
             /\ mac[n].currentMessage.to \in Nodes
             /\ Got(mac[n].currentMessage.to, mac[n].currentMessage.id)
  <2>1. /\ mac[n].state = "WFACK" /\ lock[n] # None
        /\ lock[n].kind = "ack" /\ lock[n].to = n
        /\ p = <<mac[n].currentMessage.id, mac[n].currentMessage.to>>
    BY <1>1 DEF Grows, Tallies
  <2> DEFINE k == lock[n].from
  <2>2. k \in Nodes
    BY <2>1 DEF IInv, Typed, Frames
  <2>3. k # n
    BY <2>1, <2>2 DEF AInv, Locked, LockedTo, Sensed
  <2>4. Acks(lock[n], k, n)
    BY <2>1 DEF Acks
  <2> HIDE DEF k
  <2> QED
    BY <2>1, <2>2, <2>3, <2>4 DEF AInv, Truth
<1>2. Reports'
  <2>1. ASSUME NEW k \in Nodes PROVE acked'[k] \subseteq Nat \X Nodes
    <3>1. acked[k] \subseteq Nat \X Nodes
      BY DEF AInv, Reports
    <3>2. CASE k # n
      BY <3>1, <3>2 DEF Grows, Alone
    <3>3. CASE k = n
      <4>1. acked'[n] \subseteq Nat \X (Nodes \cup {Everyone})
        BY DEF Grows
      <4> QED
        BY <1>1, <3>1, <3>3, <4>1
    <3> QED
      BY <3>2, <3>3
  <2> QED
    BY <2>1 DEF Reports, Grows
<1>3. ASSUME NEW k \in Nodes, NEW p \in acked'[k]
      PROVE  GotNow(p[2], p[1])
  <2>1. Got(p[2], p[1]) /\ p[2] \in Nodes
    <3>1. CASE p \in acked[k]
      BY <3>1 DEF AInv, AckedIsHanded, Reports, Got
    <3>2. CASE p \notin acked[k]
      <4>1. k = n
        BY <3>2 DEF Grows, Alone
      <4> QED
        BY <1>1, <3>2, <4>1
    <3> QED
      BY <3>1, <3>2
  <2> QED
    BY <2>1, GotMore
<1> QED
  BY <1>2, <1>3 DEF AckedIsHanded, GotNow

LEMMA GrowsKeeps ==
    ASSUME IInv, AInv, NEW n \in Nodes, Grows(n)
    PROVE  AInv'
BY GrowsSignals, GrowsSending, GrowsLocked, GrowsInOrder, GrowsTruth, GrowsAcked
DEF AInv

-----------------------------------------------------------------------------
(* The end of a transmission.                                               *)

Over(m) ==
    /\ tx[m] # None /\ tx'[m] = None /\ InTurn(m) /\ ~SignalsEnded
    /\ \A n \in Nodes : <<m, n>> \notin fresh
    /\ \A k \in Nodes \ {m} : tx'[k] = tx[k] /\ mac'[k] = mac[k]
    /\ mac'[m].lastSeq = mac[m].lastSeq /\ mac'[m].state # "X_UNICAST"
    /\ mac'[m].state = "WFACK" =>
          mac[m].state = "X_UNICAST" /\ mac'[m].currentMessage = mac[m].currentMessage
    /\ fresh' = fresh /\ hears' = hears /\ lock' = lock
    /\ handed' = handed /\ acked' = acked
    /\ \A p \in sooner : p[1] # m => p \in sooner'

LEMMA TransmissionEndsIsOver ==
    ASSUME IInv, AInv, NEW m \in Nodes, TransmissionEnds(m)
    PROVE  Over(m)
<1> DEFINE e == Outcome(m)
<1> DEFINE new == IF hears[m] = {} THEN "IDLE" ELSE "SENSING"
<1>1. Typed /\ RadioSound(m) /\ StationSound(mac[m])
  BY DEF IInv
<1>2. /\ fresh' = fresh /\ hears' = hears /\ lock' = lock /\ ~SignalsEnded
      /\ tx[m] # None /\ tx' = [tx EXCEPT ![m] = None] /\ InTurn(m)
      /\ \A n \in Nodes : <<m, n>> \notin fresh
      /\ sooner' = {p \in sooner : p[1] # m} \cup Earlier(m)
      /\ Done(m, StatusChange(e, "TRANSMITTING", new, None))
  BY DEF TransmissionEnds
<1>3. e \in Outcomes /\ e.s = mac[m] /\ e.send = None /\ e.up = <<>>
  BY <1>1, OutcomeIs
<1>4. PICK idle \in BOOLEAN : idle = (new = "IDLE")
  <2>1. (new = "IDLE") \in BOOLEAN
    BY SMT
  <2> QED
    BY Zenon, <2>1
<1> DEFINE r == TransmissionHasFinished(e, idle)
<1>5. StatusChange(e, "TRANSMITTING", new, None) = TransmissionHasFinished(e, new = "IDLE")
  <2> HIDE DEF e
  <2> QED
    BY DEF StatusChange
<1>6. Done(m, r)
  BY Zenon, <1>2, <1>4, <1>5
<1>7. mac[m].state \in Transmitting
  BY <1>1, <1>2 DEF RadioSound
<1>8. e.ok = {}
  BY DEF Outcome
<1> HIDE DEF e
<1>9. r \in Outcomes /\ Silent(e, r)
  BY <1>1, <1>3, <1>7, TransmissionHasFinishedIs
<1>10. /\ r.ok = {} /\ r.s.state # "X_UNICAST"
       /\ r.s.state = "WFACK" =>
             mac[m].state = "X_UNICAST" /\ r.s.currentMessage = mac[m].currentMessage
  BY <1>3, <1>7, <1>8, TransmissionHasFinishedSays
<1> HIDE DEF r
<1>11. /\ mac'[m] = r.s /\ mac'[m].lastSeq = mac[m].lastSeq
       /\ handed'[m] = handed[m]
  BY <1>1, <1>6, <1>9, SilentStep DEF e
<1>12. /\ handed' \in [Nodes -> Seq(Frames)]
       /\ \A k \in Nodes \ {m} : mac'[k] = mac[k] /\ handed'[k] = handed[k]
  BY <1>1, <1>6, <1>9, DoneIs
<1>13. handed' = handed
  BY <1>1, <1>11, <1>12 DEF Typed
<1>14. acked' = acked
  <2>1. acked' = [acked EXCEPT ![m] = acked[m] \cup {}]
    BY <1>6, <1>10 DEF Done
  <2> QED
    BY <2>1 DEF AInv, Reports
<1>15. tx'[m] = None /\ \A k \in Nodes \ {m} : tx'[k] = tx[k]
  BY <1>1, <1>2 DEF Typed
<1> QED
  BY <1>2, <1>10, <1>11, <1>12, <1>13, <1>14, <1>15 DEF Over

LEMMA OverKeeps ==
    ASSUME IInv, AInv, NEW m \in Nodes, Over(m)
    PROVE  AInv'
<1>1. Early' /\ Sensed' /\ Reports' /\ AckedIsHanded'
  BY DEF Over, AInv, Early, Sensed, Reports, AckedIsHanded
<1>2. OneEnds'
  <2>1. ASSUME NEW a \in Nodes, NEW k \in Nodes, Ended(a, k)' PROVE k = m
    BY <2>1 DEF Over, Ended, SignalsEnded
  <2> QED
    BY <2>1 DEF OneEnds
<1>3. Numbers'
  BY DEF Over, AInv, Numbers, Got
<1>4. Sending'
  BY DEF Over, AInv, Sending
<1>5. Locked'
  <2> SUFFICES ASSUME NEW k \in Nodes, NEW n \in Nodes, lock[k] # None,
                      lock[k].from = n
               PROVE  /\ n \in hears[k]
                      /\ tx'[n] # None => lock[k] = tx'[n]
                      /\ tx'[n] = None /\ mac'[n].state = "WFACK" =>
                            /\ lock[k].id = mac'[n].currentMessage.id
                            /\ lock[k].to = mac'[n].currentMessage.to
    BY DEF Over, Locked, LockedTo
  <2>1. LockedTo(k, n)
    BY DEF AInv, Locked
  <2>2. CASE n # m
    BY <2>1, <2>2 DEF Over, LockedTo
  <2>3. CASE n = m
    <3>1. lock[k] = tx[m] /\ tx'[m] = None
      BY <2>1, <2>3 DEF Over, LockedTo
    <3>2. ASSUME mac'[m].state = "WFACK"
          PROVE  lock[k].id = mac'[m].currentMessage.id
                 /\ lock[k].to = mac'[m].currentMessage.to
      <4>1. /\ mac[m].state = "X_UNICAST"
            /\ mac'[m].currentMessage = mac[m].currentMessage
        BY <3>2 DEF Over
      <4>2. tx[m] = Frame(mac[m].currentMessage.kind, m, mac[m].currentMessage.to,
                          mac[m].currentMessage.id)
        BY <4>1 DEF AInv, Sending
      <4> QED
        BY <3>1, <4>1, <4>2 DEF Frame
    <3> QED
      BY <2>1, <2>3, <3>1, <3>2 DEF LockedTo
  <2> QED
    BY <2>2, <2>3
<1>6. InOrder'
  <2> SUFFICES ASSUME NEW k \in Nodes, NEW n \in Nodes, Acks(tx'[k], k, n), k # n,
                      tx'[n] # None
               PROVE  <<k, n>> \in sooner'
    BY DEF InOrder, Acks
  <2>1. k # m /\ n # m
    BY DEF Over, Acks
  <2>2. <<k, n>> \in sooner
    BY <2>1 DEF Over, AInv, InOrder
  <2> QED
    BY <2>1, <2>2 DEF Over
<1>7. Truth'
  <2> SUFFICES ASSUME NEW k \in Nodes, NEW n \in Nodes, k # n, mac'[n].state = "WFACK",
                      Acks(tx'[k], k, n) \/ Acks(lock[n], k, n)
               PROVE  k = mac'[n].currentMessage.to /\ Got(k, mac'[n].currentMessage.id)
    BY DEF Over, Truth, Acks, Got
  <2>1. Acks(tx[k], k, n) \/ Acks(lock[n], k, n)
    BY DEF Over, Acks
  <2>2. CASE n # m
    BY <2>1, <2>2 DEF Over, AInv, Truth
  <2>3. CASE n = m
    <3>1. lock[m] = None
      BY DEF Over, IInv, RadioSound
    <3>2. Acks(tx[k], k, m)
      BY <2>1, <2>3, <3>1 DEF Acks
    <3>3. <<k, m>> \in sooner
      BY <2>3, <3>2 DEF Over, AInv, InOrder
    <3> QED
      BY <3>3 DEF Over, InTurn
  <2> QED
    BY <2>2, <2>3
<1> QED
  BY <1>1, <1>2, <1>3, <1>4, <1>5, <1>6, <1>7 DEF AInv

-----------------------------------------------------------------------------
(* Handlers as steps.                                                       *)

(* A handler that runs after its station's Outcome reports as it says.      *)
LEMMA DoneReports ==
    ASSUME AInv, NEW n \in Nodes, NEW r \in Outcomes, Done(n, r)
    PROVE  /\ acked' \in [Nodes -> SUBSET (Nat \X (Nodes \cup {Everyone}))]
           /\ acked'[n] = acked[n] \cup r.ok
           /\ \A k \in Nodes \ {n} : acked'[k] = acked[k]
           /\ r.ok = {} => acked'[n] = acked[n]
<1>1. acked \in [Nodes -> SUBSET (Nat \X Nodes)]
  BY DEF AInv, Reports
<1>2. acked' = [acked EXCEPT ![n] = acked[n] \cup r.ok]
  BY DEF Done
<1>3. r.ok \subseteq Nat \X (Nodes \cup {Everyone})
  BY DEF Outcomes
<1>4. ASSUME NEW k \in Nodes PROVE acked[k] \subseteq Nat \X (Nodes \cup {Everyone})
  BY <1>1
<1>5. ASSUME NEW k \in Nodes PROVE acked'[k] \subseteq Nat \X (Nodes \cup {Everyone})
  BY <1>1, <1>2, <1>3, <1>4
<1>6. acked' = [k \in Nodes |-> acked'[k]]
  BY <1>1, <1>2
<1>7. acked' \in [Nodes -> SUBSET (Nat \X (Nodes \cup {Everyone}))]
  BY <1>5, <1>6
<1> QED
  BY <1>1, <1>2, <1>7

LEMMA OutcomeSays ==
    ASSUME NEW n \in Nodes
    PROVE  Outcome(n).ok = {}
BY DEF Outcome

LEMMA SilentGets ==
    ASSUME NEW n \in Nodes, handed'[n] = handed[n], mac'[n].lastSeq = mac[n].lastSeq
    PROVE  Gets(n)
BY DEF Gets, Got, GotNow

(* A station that neither sends nor reports.                                *)
LEMMA QuietGrows ==
    ASSUME IInv, AInv, NEW n \in Nodes, NEW r \in Outcomes, Done(n, r),
           Silent(Outcome(n), r), Quiet(Outcome(n), r),
           \A k \in Nodes \ {n} : hears'[k] = hears[k] /\ lock'[k] = lock[k],
           tx' = tx, sooner' = sooner, fresh' \subseteq fresh, Picks(n)
    PROVE  Grows(n)
<1> DEFINE e == Outcome(n)
<1>1. Typed
  BY DEF IInv
<1>2. e \in Outcomes /\ e.s = mac[n] /\ e.send = None /\ e.ok = {}
  BY <1>1, OutcomeIs, OutcomeSays
<1> HIDE DEF e
<1>3. /\ mac'[n] = r.s /\ handed'[n] = handed[n] /\ mac'[n].lastSeq = mac[n].lastSeq
  BY <1>1, SilentStep
<1>4. \A k \in Nodes \ {n} : mac'[k] = mac[k] /\ handed'[k] = handed[k]
  BY <1>1, DoneIs
<1>5. Quiet(e, r)
  BY DEF e
<1>6. r.ok = {}
  BY <1>2, <1>5 DEF Quiet, Bare
<1>7. /\ acked' \in [Nodes -> SUBSET (Nat \X (Nodes \cup {Everyone}))]
      /\ acked'[n] = acked[n] /\ \A k \in Nodes \ {n} : acked'[k] = acked[k]
  BY <1>6, DoneReports
<1>8. Waits(n)
  BY <1>2, <1>3, <1>5 DEF Waits, Quiet
<1> QED
  BY <1>3, <1>4, <1>7, <1>8, SilentGets
  DEF Grows, Alone, SendsOrNot, Tallies, Acknowledges

(* A handler that the radio did not call.                                   *)
LEMMA HandledGrows ==
    ASSUME IInv, AInv, ~SignalsEnded, NEW n \in Nodes, NEW r \in Outcomes,
           Handled(n, r), Silent(Outcome(n), r), Tells(n, Outcome(n), r),
           r.send # None => tx[n] = None
    PROVE  Grows(n)
<1> DEFINE e == Outcome(n)
<1>1. Typed
  BY DEF IInv
<1>2. e \in Outcomes /\ e.s = mac[n] /\ e.send = None /\ e.ok = {}
  BY <1>1, OutcomeIs, OutcomeSays
<1> HIDE DEF e
<1>3. Done(n, r) /\ Sends(n, r) /\ hears' = hears
  BY DEF Handled
<1>4. lock[n] # None => lock[n].from \in hears[n]
  <2>1. lock[n] # None => lock[n].from \in Nodes
    BY <1>1 DEF Typed, Frames
  <2>2. \A k \in Nodes : LockedTo(n, k)
    BY DEF AInv, Locked
  <2> QED
    BY <2>1, <2>2 DEF LockedTo
<1>5. Tells(n, e, r)
  BY DEF e
<1>6. CASE r.send = None
  <2>1. tx' = tx /\ sooner' = sooner /\ fresh' = fresh /\ lock' = lock
    BY <1>3, <1>6 DEF Handled, Sends
  <2>2. Quiet(e, r)
    BY <1>5, <1>6 DEF Tells
  <2>3. Picks(n)
    BY <1>3, <1>4, <2>1 DEF Picks
  <2> QED
    BY <1>3, <2>1, <2>2, <2>3, QuietGrows DEF e
<1>7. CASE r.send # None
  <2>1. /\ sooner' = sooner \cup Earlier(n)
        /\ fresh' = fresh \cup Reaches(n) /\ lock' = [lock EXCEPT ![n] = None]
    BY <1>3, <1>7 DEF Handled, Sends
  <2>2. tx'[n] = r.send /\ \A k \in Nodes \ {n} : tx'[k] = tx[k]
    BY <1>1, <1>3, <1>7, TxTyped
  <2>3. lock'[n] = None /\ \A k \in Nodes \ {n} : lock'[k] = lock[k]
    BY <1>1, <2>1, LockGone
  <2>4. /\ mac'[n] = r.s /\ handed'[n] = handed[n] /\ mac'[n].lastSeq = mac[n].lastSeq
    BY <1>1, <1>3, SilentStep
  <2>5. \A k \in Nodes \ {n} : mac'[k] = mac[k] /\ handed'[k] = handed[k]
    BY <1>1, <1>3, DoneIs
  <2>6. /\ r.ok = {} /\ r.send.kind # "ack" /\ r.s.state # "WFACK"
        /\ r.s.state = "X_UNICAST" =>
              r.send = Frame(r.s.currentMessage.kind, n, r.s.currentMessage.to,
                             r.s.currentMessage.id)
    BY <1>2, <1>5, <1>7 DEF Tells, Quiet, Bare
  <2>7. /\ acked' \in [Nodes -> SUBSET (Nat \X (Nodes \cup {Everyone}))]
        /\ acked'[n] = acked[n] /\ \A k \in Nodes \ {n} : acked'[k] = acked[k]
    BY <1>3, <2>6, DoneReports
  <2>8. SendsOrNot(n)
    BY <1>7, <2>1, <2>2, <2>3 DEF SendsOrNot, SignalsEnded
  <2>9. Picks(n)
    BY <1>3, <2>3 DEF Picks
  <2>10. Waits(n)
    BY <2>2, <2>4, <2>6 DEF Waits
  <2>11. Alone(n)
    BY <1>3, <2>2, <2>3, <2>5, <2>7 DEF Alone
  <2> QED
    BY <2>2, <2>4, <2>6, <2>7, <2>8, <2>9, <2>10, <2>11, SilentGets
    DEF Grows, Tallies, Acknowledges
<1> QED
  BY <1>6, <1>7

LEMMA HandledQuietGrows ==
    ASSUME IInv, AInv, ~SignalsEnded, NEW n \in Nodes, NEW r \in Outcomes,
           Handled(n, r), Silent(Outcome(n), r), Quiet(Outcome(n), r)
    PROVE  Grows(n)
<1>1. Outcome(n).send = None
  BY OutcomeIs DEF IInv
<1>2. r.send = None /\ Tells(n, Outcome(n), r)
  BY <1>1 DEF Quiet, Bare, Tells
<1> QED
  BY <1>2, HandledGrows

(* A timer that fires in a station that does not send.                      *)
LEMMA TimeoutGrows ==
    ASSUME IInv, AInv, ~SignalsEnded, NEW n \in Nodes, NEW r \in Outcomes,
           Timeout(n, r), mac[n].state \notin Transmitting,
           Silent(Outcome(n), r), Tells(n, Outcome(n), r)
    PROVE  Grows(n)
<1> DEFINE o == Outcome(n)
<1> DEFINE w == WaitForBeacon(o)
<1>1. Typed /\ tx[n] = None
  BY DEF IInv, RadioSound
<1>2. CASE CanHandleDueBeacon(mac[n], PhyIdle(n))
  <2>1. o \in Outcomes /\ o.s = mac[n] /\ o.send = None
    BY <1>1, OutcomeIs
  <2>2. Handled(n, w)
    BY Zenon, <1>2 DEF Timeout
  <2> HIDE DEF o
  <2>3. NotInBroadcast(o)
    BY <2>1 DEF NotInBroadcast, Transmitting
  <2>4. PICK idle \in BOOLEAN : idle = FALSE
    OBVIOUS
  <2>5. w \in Outcomes /\ Silent(o, w) /\ Quiet(o, w)
    BY <2>1, <2>3, WaitForBeaconIs, WaitForBeaconQuiet
  <2> HIDE DEF w
  <2> QED
    BY <2>2, <2>5, HandledQuietGrows DEF o
<1>3. CASE ~CanHandleDueBeacon(mac[n], PhyIdle(n))
  <2>1. Handled(n, r)
    BY Zenon, <1>3 DEF Timeout
  <2> QED
    BY <1>1, <2>1, HandledGrows
<1> QED
  BY <1>2, <1>3

-----------------------------------------------------------------------------
(* The steps of the layers above.                                           *)

LEMMA NetworkHasPacketGrows ==
    ASSUME IInv, AInv, NEW n \in Nodes, NetworkLayerHasPacketToSend(n)
    PROVE  Grows(n)
<1> DEFINE off == offered[n]
<1> DEFINE o == Outcome(n)
<1> DEFINE p == [o EXCEPT !.net = Append(@, Head(off))]
<1>1. Typed /\ StationSound(mac[n])
  BY DEF IInv
<1>2. Head(off) \in Messages /\ ~SignalsEnded
  BY <1>1, OfferIs DEF NetworkLayerHasPacketToSend, Offer
<1>3. PICK idle \in BOOLEAN : idle = PhyIdle(n)
  BY PhyIdleBoolean
<1> DEFINE r == MoveFromTheNetworkLayer(p, idle)
<1>4. Handled(n, r)
  BY Zenon, <1>3 DEF NetworkLayerHasPacketToSend
<1>5. o \in Outcomes /\ o.s = mac[n] /\ o.net = network[n] /\ o.send = None
  BY <1>1, OutcomeIs
<1>6. network[n] \in Seq(Messages)
  BY <1>1 DEF Typed
<1>7. /\ Append(network[n], Head(off)) \in Seq(Messages)
      /\ Append(network[n], Head(off)) # <<>>
  BY <1>2, <1>6, AppendFacts
<1> HIDE DEF o
<1>8. /\ p \in Outcomes /\ Silent(o, p) /\ Quiet(o, p) /\ p.send = None
      /\ p.s = mac[n] /\ p.net = Append(network[n], Head(off))
  BY <1>5, <1>7 DEF Outcomes, Silent, Quiet, Bare
<1> HIDE DEF p
<1>9. r \in Outcomes /\ Silent(p, r) /\ Quiet(p, r)
  BY <1>1, <1>7, <1>8, MoveFromTheNetworkLayerIs, MoveFromTheNetworkLayerQuiet
<1> HIDE DEF r
<1>10. Silent(o, r) /\ Quiet(o, r)
  BY <1>8, <1>9, SilentOn, QuietOn
<1> QED
  BY <1>2, <1>4, <1>9, <1>10, HandledQuietGrows DEF o

LEMMA DataQueueEnqueueGrows ==
    ASSUME IInv, AInv, NEW n \in Nodes, DataQueueEnqueue(n)
    PROVE  Grows(n)
<1> DEFINE off == offered[n]
<1> DEFINE o == Outcome(n)
<1> DEFINE q == mac[n].dataQueue
<1> DEFINE p == [o EXCEPT !.s.dataQueue = Append(@, Head(off))]
<1>1. Typed /\ StationSound(mac[n])
  BY DEF IInv
<1>2. Head(off) \in Messages /\ ~SignalsEnded
  BY <1>1, OfferIs DEF DataQueueEnqueue, Offer
<1>3. PICK idle \in BOOLEAN : idle = PhyIdle(n)
  BY PhyIdleBoolean
<1> DEFINE d == DataQueueHasPacketToSend(p, idle)
<1> DEFINE r == IF Len(p.s.dataQueue) = 1 THEN d ELSE p
<1>4. Handled(n, r)
  BY Zenon, <1>3 DEF DataQueueEnqueue
<1>5. o \in Outcomes /\ o.s = mac[n] /\ o.send = None
  BY <1>1, OutcomeIs
<1>6. q \in Seq(Messages)
  BY <1>1 DEF Typed, Stations
<1>7. Append(q, Head(off)) \in Seq(Messages) /\ Append(q, Head(off)) # <<>>
  BY <1>2, <1>6, AppendFacts
<1> HIDE DEF o
<1>8. /\ p \in Outcomes /\ Silent(o, p) /\ Quiet(o, p) /\ p.send = None
      /\ p.s.dataQueue = Append(q, Head(off))
      /\ p.s.state = mac[n].state /\ p.s.currentMessage = mac[n].currentMessage
      /\ p.s.timer = mac[n].timer /\ p.s.cut = mac[n].cut
      /\ p.s.mngmtQueue = mac[n].mngmtQueue
  BY <1>5, <1>7 DEF Outcomes, Stations, Silent, Quiet, Bare
<1> HIDE DEF p
<1>9. StationSound(p.s)
  BY <1>1, <1>8 DEF StationSound, HasToSend
<1>10. d \in Outcomes /\ Silent(p, d) /\ Quiet(p, d)
  BY <1>7, <1>8, <1>9, DataQueueHasPacketToSendIs, DataQueueHasPacketToSendQuiet
<1> HIDE DEF d
<1>11. r \in Outcomes /\ Silent(p, r) /\ Quiet(p, r)
  BY <1>8, <1>10, QuietSame DEF Silent
<1> HIDE DEF r
<1>12. Silent(o, r) /\ Quiet(o, r)
  BY <1>8, <1>11, SilentOn, QuietOn
<1> QED
  BY <1>2, <1>4, <1>11, <1>12, HandledQuietGrows DEF o

LEMMA ManagementRequestGrows ==
    ASSUME IInv, AInv, NEW n \in Nodes, ManagementRequest(n)
    PROVE  Grows(n)
<1> DEFINE off == offered[n]
<1> DEFINE o == Outcome(n)
<1> DEFINE p == [o EXCEPT !.s.mgmtSendResponse = FALSE]
<1>1. Typed /\ Lined(mac[n], network[n], off)
  BY DEF IInv
<1>2. /\ off \in Seq(Messages) /\ off # <<>> /\ Head(off) \in Messages
      /\ Head(off).via = "mgmt" /\ ~SignalsEnded
  BY <1>1, OfferIs DEF ManagementRequest, Offer
<1>3. PICK idle \in BOOLEAN : idle = PhyIdle(n)
  BY PhyIdleBoolean
<1> DEFINE r == MgmtQueueEnqueue(p, n, Head(off), idle)
<1>4. Handled(n, r)
  BY Zenon, <1>3 DEF ManagementRequest
<1>5. o \in Outcomes /\ o.s = mac[n] /\ o.send = None
  BY <1>1, OutcomeIs
<1>6. Head(off).kind # "data"
  <2>1. OnPath("network", off) \/ OnPath("data", off)
    BY <1>1 DEF Lined
  <2>2. Head(off) = off[1] /\ 1 \in 1 .. Len(off)
    BY <1>2
  <2> QED
    BY <1>2, <2>1, <2>2 DEF OnPath
<1> HIDE DEF o
<1>7. p \in Outcomes /\ p.s.mgmtSendResponse = FALSE
  BY <1>5 DEF Outcomes, Stations
<1>8. Silent(o, p) /\ Quiet(o, p) /\ p.send = None
  BY <1>5 DEF Outcomes, Stations, Silent, Quiet, Bare
<1> HIDE DEF p
<1>9. r \in Outcomes /\ Silent(p, r)
  BY <1>2, <1>6, <1>7, <1>8, MgmtQueueEnqueueIs
<1>10. Quiet(p, r)
  BY <1>2, <1>6, <1>7, <1>8, MgmtQueueEnqueueSays
<1> HIDE DEF r
<1>11. Silent(o, r) /\ Quiet(o, r)
  BY <1>8, <1>9, <1>10, SilentOn, QuietOn
<1> QED
  BY <1>2, <1>4, <1>9, <1>11, HandledQuietGrows DEF o

-----------------------------------------------------------------------------
(* The steps of the timer.                                                  *)

LEMMA ContentionEndsGrows ==
    ASSUME IInv, AInv, NEW n \in Nodes, ContentionEnds(n)
    PROVE  Grows(n)
<1>1. PICK idle \in BOOLEAN : idle = PhyIdle(n)
  BY PhyIdleBoolean
<1>2. Typed /\ StationSound(mac[n])
  BY DEF IInv
<1>3. mac[n].state = "CONTENDING" /\ ~SignalsEnded
  BY DEF ContentionEnds, Fires
<1> DEFINE r == StartSending(n)
<1>4. Timeout(n, r)
  BY DEF ContentionEnds
<1>5. r \in Outcomes /\ Silent(Outcome(n), r)
  BY <1>2, <1>3, StartSendingIs
<1>6. Tells(n, Outcome(n), r)
  BY <1>2, <1>3, StartSendingTells
<1> HIDE DEF r
<1>7. mac[n].state \notin Transmitting
  BY <1>3 DEF Transmitting
<1> QED
  BY <1>3, <1>4, <1>5, <1>6, <1>7, TimeoutGrows

LEMMA NoResponseGrows ==
    ASSUME IInv, AInv, NEW n \in Nodes, NoResponse(n)
    PROVE  Grows(n)
<1>1. PICK idle \in BOOLEAN : idle = PhyIdle(n)
  BY PhyIdleBoolean
<1>2. Typed /\ StationSound(mac[n])
  BY DEF IInv
<1>3. mac[n].state \in {"WFCTS", "WFACK"} /\ ~SignalsEnded
  BY DEF NoResponse, Fires
<1> DEFINE e == Outcome(n)
<1> DEFINE p == Spent(n)
<1> DEFINE r == Retransmit(p, idle)
<1>4. Timeout(n, r)
  BY Zenon, <1>1 DEF NoResponse
<1>5. /\ p \in Outcomes /\ Silent(e, p) /\ Quiet(e, p)
      /\ p.s.state = mac[n].state /\ p.send = None
      /\ p.s.currentMessage = mac[n].currentMessage
  BY <1>2, SpentIs, SpentQuiet
<1> HIDE DEF p, e
<1>6. p.s.currentMessage # None
  BY <1>2, <1>3, <1>5 DEF StationSound, Exchange
<1>7. r \in Outcomes /\ Silent(p, r) /\ Quiet(p, r)
  BY <1>3, <1>5, <1>6, RetransmitIs, RetransmitQuiet
<1> HIDE DEF r
<1>8. Silent(e, r) /\ Tells(n, e, r)
  BY <1>5, <1>7, SilentOn, QuietOn DEF Tells
<1>9. mac[n].state \notin Transmitting
  BY <1>3 DEF Transmitting
<1> QED
  BY <1>3, <1>4, <1>7, <1>8, <1>9, TimeoutGrows DEF e

LEMMA NoDataGrows ==
    ASSUME IInv, AInv, NEW n \in Nodes, NoData(n)
    PROVE  Grows(n)
<1>1. PICK idle \in BOOLEAN : idle = PhyIdle(n)
  BY PhyIdleBoolean
<1>2. Typed
  BY DEF IInv
<1>3. mac[n].state = "WFDATA" /\ ~SignalsEnded
  BY DEF NoData, Fires
<1> DEFINE e == Outcome(n)
<1> DEFINE p == Spent(n)
<1> DEFINE r == CheckForOutgoingPacket(p, idle)
<1>4. Timeout(n, r)
  BY Zenon, <1>1 DEF NoData
<1>5. /\ p \in Outcomes /\ Silent(e, p) /\ Quiet(e, p)
      /\ p.s.state = mac[n].state /\ p.send = None
  BY <1>2, SpentIs, SpentQuiet
<1> HIDE DEF p, e
<1>6. NotInBroadcast(p)
  BY <1>3, <1>5 DEF NotInBroadcast
<1>7. r \in Outcomes /\ Silent(p, r) /\ Quiet(p, r)
  BY <1>5, <1>6, CheckForOutgoingPacketIs, CheckForOutgoingPacketQuiet
<1> HIDE DEF r
<1>8. Silent(e, r) /\ Tells(n, e, r)
  BY <1>5, <1>7, SilentOn, QuietOn DEF Tells
<1>9. mac[n].state \notin Transmitting
  BY <1>3 DEF Transmitting
<1> QED
  BY <1>3, <1>4, <1>7, <1>8, <1>9, TimeoutGrows DEF e

LEMMA NavTimeoutGrows ==
    ASSUME IInv, AInv, NEW n \in Nodes, NavTimeout(n)
    PROVE  Grows(n)
<1>1. PICK idle \in BOOLEAN : idle = PhyIdle(n)
  BY PhyIdleBoolean
<1>2. Typed /\ StationSound(mac[n])
  BY DEF IInv
<1>3. mac[n].state = "WFNAV" /\ ~SignalsEnded
  BY DEF NavTimeout, Fires
<1> DEFINE e == Outcome(n)
<1> DEFINE p == Spent(n)
<1> DEFINE q == [p EXCEPT !.s.nav = FALSE]
<1> DEFINE r == AttemptToContend(q, idle)
<1>4. Timeout(n, r)
  BY Zenon, <1>1 DEF NavTimeout
<1>5. /\ p \in Outcomes /\ Silent(e, p) /\ SameLine(e, p) /\ Quiet(e, p)
      /\ p.s.state = mac[n].state /\ p.send = None
  BY <1>2, SpentIs, SpentQuiet
<1>6. e \in Outcomes /\ e.s = mac[n]
  BY <1>2, OutcomeIs
<1> HIDE DEF e, p
<1>7. q \in Outcomes
  BY <1>5 DEF Outcomes, Stations
<1>8. /\ Silent(p, q) /\ SameLine(p, q) /\ Quiet(p, q) /\ q.send = p.send
      /\ q.s.state = p.s.state
  BY <1>5 DEF Outcomes, Stations, Silent, SameLine, Quiet, Bare
<1> HIDE DEF q
<1>9. Silent(e, q) /\ SameLine(e, q) /\ NotInBroadcast(q) /\ Quiet(e, q)
  BY <1>3, <1>5, <1>8, QuietOn DEF Silent, SameLine, NotInBroadcast
<1>10. HasToSend(q.s)
  <2>1. HasToSend(mac[n])
    BY <1>2, <1>3 DEF StationSound, Contending
  <2> QED
    BY <1>6, <1>9, <2>1 DEF HasToSend, SameLine
<1>11. r \in Outcomes /\ Silent(q, r)
  BY <1>5, <1>7, <1>8, <1>9, <1>10, AttemptToContendIs
<1>12. Quiet(q, r)
  BY <1>7, AttemptToContendQuiet
<1> HIDE DEF r
<1>13. Silent(e, r) /\ Tells(n, e, r)
  BY <1>9, <1>11, <1>12, SilentOn, QuietOn DEF Tells
<1>14. mac[n].state \notin Transmitting
  BY <1>3 DEF Transmitting
<1> QED
  BY <1>3, <1>4, <1>11, <1>13, <1>14, TimeoutGrows DEF e

LEMMA SendBeaconGrows ==
    ASSUME IInv, AInv, NEW n \in Nodes, SendBeacon(n)
    PROVE  Grows(n)
<1>1. Typed
  BY DEF IInv
<1>2. mac[n].state = "WFBEACON" /\ ~SignalsEnded
  BY DEF SendBeacon, Fires
<1> DEFINE e == Outcome(n)
<1> DEFINE p == Spent(n)
<1> DEFINE q == [p EXCEPT !.s.beaconIsDue = FALSE]
<1> DEFINE f == Frame("beacon", n, Everyone, 0)
<1> DEFINE r == Transmit(q, "X_BEACON", f)
<1>3. Handled(n, r)
  BY DEF SendBeacon
<1>4. p \in Outcomes /\ Silent(e, p) /\ p.ok = e.ok
  BY <1>1, SpentIs, SpentQuiet DEF Quiet, Bare
<1>5. f \in Frames /\ f.kind = "beacon"
  <2>1. f = [kind |-> "beacon", from |-> n, to |-> Everyone, id |-> 0]
    BY DEF Frame
  <2> HIDE DEF f
  <2> QED
    BY <2>1 DEF Frames
<1>6. "X_BEACON" \in States
  BY DEF States, Transmitting
<1> HIDE DEF e, p, f
<1>7. q \in Outcomes /\ Silent(p, q) /\ q.ok = p.ok
  BY <1>4 DEF Outcomes, Stations, Silent
<1> HIDE DEF q
<1>8. r \in Outcomes /\ Silent(q, r) /\ r.s.state = "X_BEACON" /\ r.send = f
  BY <1>5, <1>6, <1>7, TransmitIs
<1>9. r.ok = q.ok
  BY <1>5, <1>7 DEF Transmit, Outcomes
<1> HIDE DEF r
<1>10. Silent(e, r) /\ Tells(n, e, r)
  BY <1>4, <1>5, <1>7, <1>8, <1>9, NotNone DEF Silent, Tells
<1>11. tx[n] = None
  BY <1>2 DEF IInv, RadioSound, Transmitting
<1> QED
  BY <1>2, <1>3, <1>8, <1>10, <1>11, HandledGrows DEF e

-----------------------------------------------------------------------------
(* Steps in which a station does not start to send.                         *)

(* What a radio receives comes from a station it senses.                    *)
LEMMA LockedIsSensed ==
    ASSUME IInv, AInv, NEW n \in Nodes, lock[n] # None
    PROVE  lock[n].from \in Nodes /\ lock[n].from \in hears[n]
<1>1. lock[n].from \in Nodes
  BY DEF IInv, Typed, Frames
<1>2. \A k \in Nodes : LockedTo(n, k)
  BY DEF AInv, Locked
<1> QED
  BY <1>1, <1>2 DEF LockedTo

LEMMA PicksSame ==
    ASSUME IInv, AInv, NEW n \in Nodes, lock'[n] = lock[n], hears'[n] = hears[n]
    PROVE  Picks(n)
BY LockedIsSensed DEF Picks

LEMMA BeaconFallsDueGrows ==
    ASSUME IInv, AInv, BeaconFallsDue
    PROVE  Grows(Ap)
<1> DEFINE e == Outcome(Ap)
<1> DEFINE due == [e EXCEPT !.s.beaconIsDue = TRUE]
<1> DEFINE w == WaitForBeacon(due)
<1>1. Ap \in Nodes
  BY DcfAssumption DEF DcfAssumption
<1>2. Typed
  BY DEF IInv
<1>3. /\ Done(Ap, IF CanHandleDueBeacon(due.s, PhyIdle(Ap)) THEN w ELSE due)
      /\ tx' = tx /\ sooner' = sooner /\ lock' = lock /\ hears' = hears
      /\ fresh' = fresh
  BY DEF BeaconFallsDue, air
<1>4. e \in Outcomes /\ e.s = mac[Ap] /\ e.send = None
  BY <1>1, <1>2, OutcomeIs
<1> HIDE DEF e
<1>5. due \in Outcomes /\ Silent(e, due) /\ Quiet(e, due)
  BY <1>4 DEF Outcomes, Stations, Silent, Quiet, Bare
<1>6. due.send = None
  BY <1>4 DEF Outcomes
<1> HIDE DEF due
<1>7. Picks(Ap)
  BY <1>1, <1>3, PicksSame
<1>8. CASE CanHandleDueBeacon(due.s, PhyIdle(Ap))
  <2>1. Done(Ap, w)
    BY <1>3, <1>8
  <2>2. NotInBroadcast(due)
    BY <1>8 DEF CanHandleDueBeacon, NotInBroadcast
  <2>3. w \in Outcomes /\ Silent(due, w)
    <3>1. PICK idle \in BOOLEAN : idle = FALSE
      OBVIOUS
    <3> QED
      BY <1>5, <1>6, <2>2, <3>1, WaitForBeaconIs
  <2>4. Quiet(due, w)
    BY <1>5, WaitForBeaconQuiet
  <2> HIDE DEF w
  <2>5. Silent(e, w) /\ Quiet(e, w)
    BY <1>5, <2>3, <2>4, SilentOn, QuietOn
  <2> QED
    BY <1>1, <1>3, <1>7, <2>1, <2>3, <2>5, QuietGrows DEF e
<1>9. CASE ~CanHandleDueBeacon(due.s, PhyIdle(Ap))
  <2>1. Done(Ap, due)
    BY <1>3, <1>9
  <2> QED
    BY <1>1, <1>3, <1>5, <1>7, <2>1, QuietGrows DEF e
<1> QED
  BY <1>8, <1>9

LEMMA NavEndsGrows ==
    ASSUME IInv, AInv, NEW n \in Nodes, NavEnds(n)
    PROVE  Grows(n)
<1>1. /\ mac' = [mac EXCEPT ![n].nav = FALSE]
      /\ tx' = tx /\ lock' = lock /\ hears' = hears /\ fresh' = fresh
      /\ handed' = handed /\ acked' = acked /\ sooner' = sooner
  BY DEF NavEnds, air
<1>2. mac \in [Nodes -> Stations] /\ mac[n] \in Stations
  BY DEF IInv, Typed
<1>3. mac'[n] = [mac[n] EXCEPT !.nav = FALSE] /\ \A k \in Nodes \ {n} : mac'[k] = mac[k]
  BY <1>1, <1>2
<1>4. /\ mac'[n].state = mac[n].state /\ mac'[n].lastSeq = mac[n].lastSeq
      /\ mac'[n].currentMessage = mac[n].currentMessage
  BY <1>2, <1>3 DEF Stations
<1>5. acked' \in [Nodes -> SUBSET (Nat \X (Nodes \cup {Everyone}))]
  <2>1. acked \in [Nodes -> SUBSET (Nat \X Nodes)]
    BY DEF AInv, Reports
  <2>2. SUBSET (Nat \X Nodes) \subseteq SUBSET (Nat \X (Nodes \cup {Everyone}))
    OBVIOUS
  <2>3. ASSUME NEW k \in Nodes PROVE acked[k] \in SUBSET (Nat \X (Nodes \cup {Everyone}))
    BY <2>1, <2>2
  <2>4. acked = [k \in Nodes |-> acked[k]]
    BY <2>1
  <2> QED
    BY <1>1, <2>3, <2>4
<1>6. Picks(n) /\ Gets(n)
  BY <1>1, <1>4, PicksSame, SilentGets
<1>7. Waits(n)
  BY <1>4 DEF Waits
<1>8. Alone(n) /\ SendsOrNot(n) /\ Tallies(n) /\ Acknowledges(n)
  BY <1>1, <1>3 DEF Alone, SendsOrNot, Tallies, Acknowledges
<1> QED
  BY <1>5, <1>6, <1>7, <1>8 DEF Grows

-----------------------------------------------------------------------------
(* The header of a frame.                                                   *)

LEMMA GoOnReceivingGrows ==
    ASSUME IInv, AInv, NEW n \in Nodes, GoOnReceiving(n)
    PROVE  Grows(n)
<1> DEFINE e == Outcome(n)
<1> DEFINE p == Spent(n)
<1> DEFINE r == SetState(p, "IDLE")
<1>1. Typed
  BY DEF IInv
<1>2. /\ Done(n, r) /\ tx' = tx /\ lock' = lock /\ hears' = hears /\ fresh' = fresh
      /\ sooner' = sooner
  BY DEF GoOnReceiving, air
<1>3. p \in Outcomes /\ Silent(e, p) /\ Quiet(e, p)
  BY <1>1, SpentIs, SpentQuiet
<1> HIDE DEF p, e
<1>4. "IDLE" \in States \ {"WFACK", "X_UNICAST"}
  BY SomeStates
<1>5. r \in Outcomes /\ Silent(p, r) /\ Quiet(p, r)
  BY <1>3, <1>4, SetStateIs, SetStateQuiet
<1> HIDE DEF r
<1>6. Silent(e, r) /\ Quiet(e, r)
  BY <1>3, <1>5, SilentOn, QuietOn
<1>7. Picks(n)
  BY <1>2, PicksSame
<1> QED
  BY <1>2, <1>5, <1>6, <1>7, QuietGrows DEF e

LEMMA LeavesQuiet ==
    ASSUME Typed, NEW n \in Nodes, NEW idle \in BOOLEAN, NEW later \in BOOLEAN,
           mac[n].state = "HEADER_CHECK_MODE", StationSound(mac[n])
    PROVE  LET o == IF spoilt[n] THEN Spent(n)
                    ELSE ProcessNotMyFrame(Spent(n), idle, later)
           IN  Quiet(Outcome(n), CheckForOutgoingPacket(o, idle))
<1> DEFINE e == Outcome(n)
<1> DEFINE p == Spent(n)
<1> DEFINE x == ProcessNotMyFrame(p, idle, later)
<1> DEFINE o == IF spoilt[n] THEN p ELSE x
<1>1. /\ p \in Outcomes /\ Silent(e, p) /\ SameLine(e, p) /\ Quiet(e, p)
      /\ p.s.state = "HEADER_CHECK_MODE" /\ p.send = None
  BY SpentIs, SpentQuiet
<1>2. e \in Outcomes /\ e.up = <<>>
  BY OutcomeIs
<1> HIDE DEF e, p
<1>3. Listening(p)
  BY <1>1, <1>2
  DEF Listening, Silent, StationSound, Transmitting, Contending, WaitingForResponse, Exchange
<1>4. x \in Outcomes /\ Quiet(p, x)
  BY <1>1, <1>3, ProcessNotMyFrameIs, ProcessNotMyFrameQuiet
<1> HIDE DEF x
<1>5. o \in Outcomes /\ Quiet(e, o)
  BY <1>1, <1>4, QuietOn
<1> HIDE DEF o
<1>6. Quiet(o, CheckForOutgoingPacket(o, idle))
  BY <1>5, CheckForOutgoingPacketQuiet
<1> QED
  BY <1>5, <1>6, QuietOn DEF o, x, p, e

LEMMA LeaveTheFrameGrows ==
    ASSUME IInv, AInv, NEW n \in Nodes, NEW idle \in {FALSE, hears[n] = {lock[n].from}},
           NEW later \in BOOLEAN, HeaderReceived(n), LeaveTheFrame(n, idle, later)
    PROVE  Grows(n)
<1>1. Typed /\ StationSound(mac[n])
  BY DEF IInv
<1>2. mac[n].state = "HEADER_CHECK_MODE"
  BY DEF HeaderReceived, Fires
<1>3. PICK quick \in BOOLEAN : quick = idle
  <2>1. (hears[n] = {lock[n].from}) \in BOOLEAN
    BY SMT
  <2>2. idle \in BOOLEAN
    BY Zenon, <2>1
  <2> QED
    BY Zenon, <2>2
<1> DEFINE o == IF spoilt[n] THEN Spent(n) ELSE ProcessNotMyFrame(Spent(n), quick, later)
<1> DEFINE r == CheckForOutgoingPacket(o, quick)
<1>4. Done(n, r)
  BY Zenon, <1>3 DEF LeaveTheFrame
<1>5. /\ lock' = [lock EXCEPT ![n] = None]
      /\ hears' = IF quick THEN [hears EXCEPT ![n] = {}] ELSE hears
      /\ tx' = tx /\ sooner' = sooner /\ fresh' = fresh
  BY Zenon, <1>3 DEF LeaveTheFrame
<1>6. r \in Outcomes /\ Silent(Outcome(n), r) /\ Quiet(Outcome(n), r)
  BY <1>1, <1>2, LeavesIs, LeavesQuiet
<1> HIDE DEF r
<1>7. /\ lock'[n] = None /\ hears'[n] \subseteq hears[n]
      /\ \A k \in Nodes \ {n} : lock'[k] = lock[k] /\ hears'[k] = hears[k]
  BY <1>1, <1>5 DEF Typed
<1>8. Picks(n)
  BY <1>7 DEF Picks
<1> QED
  BY <1>4, <1>5, <1>6, <1>7, <1>8, QuietGrows

LEMMA HeaderReceivedGrows ==
    ASSUME IInv, AInv, NEW n \in Nodes, HeaderReceived(n)
    PROVE  Grows(n)
<1>1. \/ GoOnReceiving(n)
      \/ \E idle \in {FALSE, hears[n] = {lock[n].from}}, later \in BOOLEAN :
            LeaveTheFrame(n, idle, later)
  BY DEF HeaderReceived
<1> QED
  BY Zenon, <1>1, GoOnReceivingGrows, LeaveTheFrameGrows

-----------------------------------------------------------------------------
(* The arrival of a signal.                                                 *)

LEMMA SensesSays ==
    ASSUME Typed, NEW n \in Nodes, NEW m \in Nodes, Senses(n, m)
    PROVE  /\ tx' = tx /\ sooner' = sooner /\ fresh' \subseteq fresh
           /\ hears'[n] = hears[n] \cup {m}
           /\ \A k \in Nodes \ {n} : hears'[k] = hears[k]
BY DEF Senses, Typed

LEMMA TooWeakGrows ==
    ASSUME IInv, AInv, NEW n \in Nodes, NEW m \in Nodes, <<m, n>> \in fresh,
           TooWeak(n, m)
    PROVE  Grows(n)
<1> DEFINE e == Outcome(n)
<1> DEFINE c == StatusChange(e, "IDLE", "SENSING", None)
<1>1. Typed /\ RadioSound(n) /\ StationSound(mac[n])
  BY DEF IInv
<1>2. /\ tx' = tx /\ sooner' = sooner /\ fresh' \subseteq fresh /\ lock' = lock
      /\ hears'[n] = hears[n] \cup {m}
      /\ \A k \in Nodes \ {n} : hears'[k] = hears[k]
  BY <1>1, SensesSays DEF TooWeak
<1>3. e \in Outcomes /\ e.s = mac[n] /\ e.send = None
  BY <1>1, OutcomeIs
<1>4. Done(n, IF PhyIdle(n) THEN c ELSE e)
  BY DEF TooWeak
<1>5. Picks(n)
  BY <1>2, LockedIsSensed DEF Picks
<1> HIDE DEF e
<1>6. CASE PhyIdle(n)
  <2>1. tx[n] = None
    BY <1>6, PhyIdleIs
  <2>2. Done(n, c)
    BY <1>4, <1>6
  <2>3. mac[n].state \notin Transmitting
    BY <1>1, <2>1 DEF RadioSound
  <2>4. c \in Outcomes /\ Silent(e, c)
    BY <1>1, <1>3, <2>3, StatusToSensingIs
  <2>5. Quiet(e, c)
    BY <1>3, StatusChangeQuiet
  <2> HIDE DEF c
  <2> QED
    BY <1>2, <1>5, <2>2, <2>4, <2>5, QuietGrows DEF e
<1>7. CASE ~PhyIdle(n)
  <2>1. Done(n, e)
    BY <1>4, <1>7
  <2>2. Silent(e, e) /\ Quiet(e, e)
    BY QuietSame DEF Silent
  <2> QED
    BY <1>2, <1>3, <1>5, <2>1, <2>2, QuietGrows DEF e
<1> QED
  BY <1>6, <1>7

LEMMA ReceivedGrows ==
    ASSUME IInv, AInv, NEW n \in Nodes, NEW m \in Nodes, <<m, n>> \in fresh,
           Received(n, m)
    PROVE  Grows(n)
<1> DEFINE e == Outcome(n)
<1> DEFINE c == StatusChange(e, PhyStatus(n), "RECEIVING", tx[m])
<1>1. Typed /\ RadioSound(n) /\ StationSound(mac[n])
  BY DEF IInv
<1>2. /\ tx' = tx /\ sooner' = sooner /\ fresh' \subseteq fresh
      /\ hears'[n] = hears[n] \cup {m}
      /\ \A k \in Nodes \ {n} : hears'[k] = hears[k]
  BY <1>1, SensesSays DEF Received
<1>3. e \in Outcomes /\ e.s = mac[n] /\ e.send = None
  BY <1>1, OutcomeIs
<1>4. /\ Done(n, c) /\ tx[n] = None /\ lock' = [lock EXCEPT ![n] = tx[m]]
  BY DEF Received
<1>5. lock'[n] = tx[m] /\ \A k \in Nodes \ {n} : lock'[k] = lock[k]
  BY <1>1, <1>4 DEF Typed
<1>6. /\ PhyStatus(n) \in {"IDLE", "SENSING", "RECEIVING"}
      /\ PhyStatus(n) # "IDLE" => mac[n].state \notin Contending
      /\ mac[n].state \notin Transmitting
  BY <1>1, <1>4, PhyStatusIs
<1>7. tx[m].from = m
  BY DEF AInv, Early, IInv, RadioSound
<1>8. Picks(n)
  BY <1>2, <1>5, <1>7 DEF Picks
<1> HIDE DEF e
<1>9. c \in Outcomes /\ Silent(e, c) /\ Quiet(e, c)
  <2>1. PICK old \in {"IDLE", "SENSING", "RECEIVING"} : old = PhyStatus(n)
    BY <1>6
  <2> DEFINE d == StatusChange(e, old, "RECEIVING", tx[m])
  <2>2. d \in Outcomes /\ Silent(e, d)
    BY <1>1, <1>3, <1>6, <2>1, StatusToReceivingIs
  <2>3. Quiet(e, d)
    BY <1>3, StatusChangeQuiet
  <2>4. c = d
    BY <2>1
  <2> HIDE DEF c, d
  <2> QED
    BY <2>2, <2>3, <2>4
<1> HIDE DEF c
<1> QED
  BY <1>2, <1>4, <1>5, <1>8, <1>9, QuietGrows DEF e

LEMMA DrownedGrows ==
    ASSUME IInv, AInv, NEW n \in Nodes, NEW m \in Nodes, <<m, n>> \in fresh,
           Drowned(n, m)
    PROVE  Grows(n)
<1> DEFINE e == Outcome(n)
<1> DEFINE c == StatusChange(e, "RECEIVING", "SENSING", None)
<1>1. Typed /\ RadioSound(n) /\ StationSound(mac[n])
  BY DEF IInv
<1>2. /\ tx' = tx /\ sooner' = sooner /\ fresh' \subseteq fresh
      /\ hears'[n] = hears[n] \cup {m}
      /\ \A k \in Nodes \ {n} : hears'[k] = hears[k]
  BY <1>1, SensesSays DEF Drowned
<1>3. e \in Outcomes /\ e.s = mac[n] /\ e.send = None
  BY <1>1, OutcomeIs
<1>4. /\ Done(n, c) /\ lock[n] # None /\ lock' = [lock EXCEPT ![n] = None]
  BY DEF Drowned
<1>5. lock'[n] = None /\ \A k \in Nodes \ {n} : lock'[k] = lock[k]
  BY <1>1, <1>4, LockGone
<1>6. mac[n].state \notin Contending \cup Transmitting
  BY <1>1, <1>4 DEF RadioSound
<1>7. Picks(n)
  BY <1>2, <1>5 DEF Picks
<1> HIDE DEF e
<1>8. c \in Outcomes /\ Silent(e, c)
  BY <1>1, <1>3, <1>6, StatusToSensingIs
<1>9. Quiet(e, c)
  BY <1>3, StatusChangeQuiet
<1> HIDE DEF c
<1> QED
  BY <1>2, <1>4, <1>5, <1>7, <1>8, <1>9, QuietGrows DEF e

-----------------------------------------------------------------------------
(* The end of a signal.                                                     *)

LEMMA UnheardQuietGrows ==
    ASSUME IInv, AInv, NEW n \in Nodes, NEW m \in Nodes, NEW r \in Outcomes,
           Unheard(n, m, r), Silent(Outcome(n), r), Quiet(Outcome(n), r),
           \A k \in Nodes \ {n} : lock'[k] = lock[k],
           lock'[n] \in {None, lock[n]}, lock'[n] # None => lock[n].from # m
    PROVE  Grows(n)
<1>1. Typed
  BY DEF IInv
<1>2. Outcome(n).send = None
  BY <1>1, OutcomeIs
<1>3. r.send = None
  BY <1>2 DEF Quiet, Bare
<1>4. /\ Done(n, r) /\ hears'[n] = hears[n] \ {m}
      /\ \A k \in Nodes \ {n} : hears'[k] = hears[k]
  BY <1>1, UnheardIs
<1>5. tx' = tx /\ sooner' = sooner /\ fresh' = fresh
  BY <1>3 DEF Unheard, Sends
<1>6. Picks(n)
  BY <1>4, LockedIsSensed DEF Picks
<1> QED
  BY <1>4, <1>5, <1>6, QuietGrows

LEMMA FrameSpoiltGrows ==
    ASSUME IInv, AInv, NEW n \in Nodes, NEW m \in Nodes, FrameSpoilt(n, m)
    PROVE  Grows(n)
<1> DEFINE e == Outcome(n)
<1> DEFINE new == IF hears[n] = {m} THEN "IDLE" ELSE "SENSING"
<1> DEFINE r == StatusChange(e, "RECEIVING", new, None)
<1>1. Typed /\ RadioSound(n) /\ StationSound(mac[n])
  BY DEF IInv
<1>2. /\ lock[n] # None /\ lock' = [lock EXCEPT ![n] = None]
      /\ Unheard(n, m, r)
  BY DEF FrameSpoilt, Receiving
<1>3. e \in Outcomes /\ e.s = mac[n] /\ e.send = None /\ e.up = <<>>
  BY <1>1, OutcomeIs
<1>4. mac[n].state \notin Transmitting \cup Contending /\ tx[n] = None
  BY <1>1, <1>2 DEF RadioSound
<1> HIDE DEF e
<1>5. r \in Outcomes /\ Silent(e, r) /\ Quiet(e, r)
  <2>1. CASE hears[n] = {m}
    <3>1. Ready(n, e, TRUE)
      BY <1>1, <1>3, <1>4 DEF Ready, Sends1
    <3> DEFINE c == StatusChange(e, "RECEIVING", "IDLE", None)
    <3>2. c \in Outcomes /\ Silent(e, c)
      BY <1>3, <3>1, StatusToIdleIs
    <3>3. Quiet(e, c)
      BY <1>3, StatusChangeQuiet
    <3>4. r = c
      BY <2>1
    <3> HIDE DEF c, r
    <3> QED
      BY <3>2, <3>3, <3>4
  <2>2. CASE hears[n] # {m}
    <3> DEFINE c == StatusChange(e, "RECEIVING", "SENSING", None)
    <3>1. c \in Outcomes /\ Silent(e, c)
      BY <1>1, <1>3, <1>4, StatusToSensingIs
    <3>2. Quiet(e, c)
      BY <1>3, StatusChangeQuiet
    <3>3. r = c
      BY <2>2
    <3> HIDE DEF c, r
    <3> QED
      BY <3>1, <3>2, <3>3
  <2> QED
    BY <2>1, <2>2
<1> HIDE DEF r
<1>6. lock'[n] = None /\ \A k \in Nodes \ {n} : lock'[k] = lock[k]
  BY <1>1, <1>2, LockGone
<1> QED
  BY <1>2, <1>5, <1>6, UnheardQuietGrows DEF e

LEMMA SignalGoneGrows ==
    ASSUME IInv, AInv, NEW n \in Nodes, NEW m \in Nodes, Ended(n, m), SignalGone(n, m)
    PROVE  Grows(n)
<1> DEFINE e == Outcome(n)
<1> DEFINE c == StatusChange(e, "SENSING", "IDLE", None)
<1>1. Typed /\ RadioSound(n) /\ StationSound(mac[n])
  BY DEF IInv
<1>2. /\ lock' = lock /\ (lock[n] # None => lock[n].from # m)
      /\ Unheard(n, m, IF PhyStatus(n) = "SENSING" /\ hears[n] = {m} THEN c ELSE e)
  BY DEF SignalGone, Receiving
<1>3. e \in Outcomes /\ e.s = mac[n] /\ e.send = None /\ e.up = <<>>
  BY <1>1, OutcomeIs
<1>4. mac[n].state \notin Contending
  BY <1>1 DEF RadioSound, Ended
<1> HIDE DEF e
<1>5. CASE PhyStatus(n) = "SENSING" /\ hears[n] = {m}
  <2>1. Unheard(n, m, c)
    BY <1>2, <1>5
  <2>2. tx[n] = None
    BY <1>5 DEF PhyStatus
  <2>3. mac[n].state \notin Transmitting
    BY <1>1, <2>2 DEF RadioSound
  <2>4. Ready(n, e, TRUE)
    BY <1>1, <1>3, <1>4, <2>3 DEF Ready, Sends1
  <2>5. c \in Outcomes /\ Silent(e, c)
    BY <1>3, <2>4, StatusToIdleIs
  <2>6. Quiet(e, c)
    BY <1>3, StatusChangeQuiet
  <2> HIDE DEF c
  <2> QED
    BY <1>2, <2>1, <2>5, <2>6, UnheardQuietGrows DEF e
<1>6. CASE ~(PhyStatus(n) = "SENSING" /\ hears[n] = {m})
  <2>1. Unheard(n, m, e)
    BY <1>2, <1>6
  <2>2. Silent(e, e) /\ Quiet(e, e)
    BY QuietSame DEF Silent
  <2> QED
    BY <1>2, <1>3, <2>1, <2>2, UnheardQuietGrows DEF e
<1> QED
  BY <1>5, <1>6

(* A frame received well: it is answered as it should be.                   *)
LEMMA FrameReceivedGrows ==
    ASSUME IInv, AInv, NEW n \in Nodes, NEW m \in Nodes, Ended(n, m),
           FrameReceived(n, m)
    PROVE  Grows(n)
<1> DEFINE e == Outcome(n)
<1> DEFINE f == lock[n]
<1>1. Typed /\ RadioSound(n) /\ StationSound(mac[n])
  BY DEF IInv
<1>2. /\ f # None /\ f.from = m /\ lock' = [lock EXCEPT ![n] = None]
      /\ tx[m] = None /\ m \in hears[n]
  BY DEF FrameReceived, Receiving, Ended
<1>3. f \in Frames
  BY <1>1, <1>2 DEF Typed
<1>4. PICK later \in BOOLEAN :
        Unheard(n, m, ReceivePacketFromPhy(e, n, f, hears[n] = {m}, later))
  BY DEF FrameReceived
<1>5. PICK idle \in BOOLEAN : idle = (hears[n] = {m})
  <2>1. (hears[n] = {m}) \in BOOLEAN
    BY SMT
  <2> QED
    BY Zenon, <2>1
<1> DEFINE r == ReceivePacketFromPhy(e, n, f, idle, later)
<1>6. Unheard(n, m, r)
  BY Zenon, <1>4, <1>5
<1>7. /\ e \in Outcomes /\ e.s = mac[n] /\ e.send = None /\ e.up = <<>> /\ e.ok = {}
  BY <1>1, OutcomeIs, OutcomeSays
<1>8. mac[n].state \notin Transmitting \cup Contending /\ tx[n] = None
  BY <1>1, <1>2 DEF RadioSound
<1> HIDE DEF e
<1>9. Listening(e)
  BY <1>1, <1>7, <1>8 DEF Listening
<1>10. Answers(n, e, f, r, idle)
  BY <1>3, <1>7, <1>9, ReceivePacketFromPhyIs
<1>11. Replies(n, e, f, r)
  BY <1>3, <1>7, <1>9, ReceivePacketFromPhyReplies
<1> HIDE DEF r
<1>12. r \in Outcomes /\ Takes(e, f, r) /\ Ready(n, r, idle)
  BY <1>10 DEF Answers
<1>13. /\ Done(n, r) /\ Sends(n, r)
       /\ tx'[n] = IF r.send = None THEN tx[n] ELSE r.send
       /\ hears'[n] = hears[n] \ {m}
       /\ \A k \in Nodes \ {n} : tx'[k] = tx[k] /\ hears'[k] = hears[k]
       /\ fresh' = IF r.send = None THEN fresh ELSE fresh \cup Reaches(n)
  BY <1>1, <1>6, <1>12, UnheardIs DEF Unheard
<1>14. lock'[n] = None /\ \A k \in Nodes \ {n} : lock'[k] = lock[k]
  BY <1>1, <1>2, LockGone
<1>15. /\ mac'[n] = r.s /\ handed'[n] = handed[n] \o r.up
       /\ r.up = <<>> => handed'[n] = handed[n]
       /\ \A k \in Nodes \ {n} : mac'[k] = mac[k] /\ handed'[k] = handed[k]
  BY <1>1, <1>12, <1>13, DoneIs
<1>16. /\ acked' \in [Nodes -> SUBSET (Nat \X (Nodes \cup {Everyone}))]
       /\ acked'[n] = acked[n] \cup r.ok
       /\ \A k \in Nodes \ {n} : acked'[k] = acked[k]
       /\ r.ok = {} => acked'[n] = acked[n]
  BY <1>12, <1>13, DoneReports
<1>17. Alone(n)
  BY <1>13, <1>14, <1>15, <1>16 DEF Alone
<1>18. SendsOrNot(n)
  <2>1. CASE r.send = None
    BY <1>13, <2>1 DEF Sends, SendsOrNot
  <2>2. CASE r.send # None
    <3>1. sooner' = sooner \cup Earlier(n)
      BY <1>13, <2>2 DEF Sends
    <3>2. ASSUME NEW k \in Nodes PROVE ~Ended(k, n)
      <4>1. m # n
        BY <1>2 DEF AInv, Sensed
      <4> QED
        BY <4>1 DEF AInv, OneEnds
    <3> QED
      BY <1>8, <1>13, <1>14, <2>2, <3>1, <3>2 DEF SendsOrNot
  <2> QED
    BY <2>1, <2>2
<1>19. Picks(n)
  BY <1>13, <1>14 DEF Picks
<1>20. r.up = <<f>> => GotNow(n, f.id) /\ \A x : Got(n, x) => GotNow(n, x)
  <2> SUFFICES ASSUME r.up = <<f>>
               PROVE  GotNow(n, f.id) /\ \A x : Got(n, x) => GotNow(n, x)
    OBVIOUS
  <2>1. handed[n] \in Seq(Frames)
    BY <1>1 DEF Typed
  <2>2. handed'[n] = Append(handed[n], f)
    BY <1>3, <1>15, <2>1
  <2>3. /\ Len(handed'[n]) = Len(handed[n]) + 1 /\ Len(handed[n]) \in Nat
        /\ handed'[n][Len(handed[n]) + 1] = f
        /\ \A i \in 1 .. Len(handed[n]) : handed'[n][i] = handed[n][i]
    BY <1>3, <2>1, <2>2
  <2>4. Len(handed[n]) + 1 \in 1 .. Len(handed'[n])
        /\ 1 .. Len(handed[n]) \subseteq 1 .. Len(handed'[n])
    BY <2>3
  <2> QED
    BY <2>3, <2>4 DEF Got, GotNow
<1>21. \A x : Got(n, x) => GotNow(n, x)
  BY <1>12, <1>15, <1>20 DEF Takes, Got, GotNow
<1>22. Gets(n)
  <2>1. CASE r.s.lastSeq = mac[n].lastSeq
    BY <1>15, <1>21, <2>1 DEF Gets
  <2>2. CASE r.up = <<f>> /\ r.s.lastSeq = [mac[n].lastSeq EXCEPT ![f.from] = f.id]
    <3>1. mac[n].lastSeq \in [Nodes -> Nat]
      BY <1>1 DEF Typed, Stations
    <3> QED
      BY <1>15, <1>20, <1>21, <2>2, <3>1 DEF Gets
  <2> QED
    BY <1>7, <1>12, <2>1, <2>2 DEF Takes
<1>23. Waits(n)
  <2>1. r.s.state = "X_UNICAST" => r.send # None
    BY <1>12 DEF Ready, Sends1, Transmitting
  <2> QED
    BY <1>7, <1>11, <1>13, <1>15, <2>1 DEF Replies, Waits
<1>24. Tallies(n)
  BY <1>2, <1>7, <1>11, <1>16 DEF Replies, Tallies
<1>25. Acknowledges(n)
  <2> SUFFICES ASSUME tx'[n] # None, tx'[n].kind = "ack"
               PROVE  /\ f.to = n /\ tx'[n].to = f.from
                      /\ tx[f.from] = None /\ GotNow(n, f.id)
    BY <1>2 DEF Acknowledges
  <2>1. r.send = tx'[n]
    BY <1>8, <1>13
  <2>2. /\ f.to = n /\ r.send.to = f.from
        /\ \/ r.up = <<f>> \/ Known(n, f)
           \/ f.id # 0 /\ mac[n].lastSeq[f.from] = f.id
    BY <1>7, <1>11, <2>1 DEF Replies
  <2>3. Known(n, f) => Got(n, f.id)
    BY DEF Known, Got
  <2>4. f.id # 0 /\ mac[n].lastSeq[f.from] = f.id => Got(n, f.id)
    BY <1>2 DEF AInv, Numbers
  <2>5. GotNow(n, f.id)
    BY <1>20, <1>21, <2>2, <2>3, <2>4
  <2> QED
    BY <1>2, <2>1, <2>2, <2>5
<1> QED
  BY <1>16, <1>17, <1>18, <1>19, <1>22, <1>23, <1>24, <1>25 DEF Grows

-----------------------------------------------------------------------------
(* Every step, and the start.                                               *)

LEMMA AckNextKeeps ==
    ASSUME IInv, AInv, Next
    PROVE  AInv'
<1>1. CASE BeaconFallsDue
  <2>1. Ap \in Nodes
    BY DcfAssumption DEF DcfAssumption
  <2> QED
    BY <1>1, <2>1, BeaconFallsDueGrows, GrowsKeeps
<1>2. ASSUME NEW n \in Nodes, Station(n) PROVE AInv'
  <2>1. Grows(n)
    BY <1>2, ContentionEndsGrows, NoResponseGrows, NoDataGrows, NavTimeoutGrows,
       SendBeaconGrows, HeaderReceivedGrows, NavEndsGrows DEF Station
  <2> QED
    BY <2>1, GrowsKeeps
<1>3. ASSUME NEW n \in Nodes, Upper(n) PROVE AInv'
  <2>1. Grows(n)
    BY <1>3, NetworkHasPacketGrows, DataQueueEnqueueGrows, ManagementRequestGrows
    DEF Upper
  <2> QED
    BY <2>1, GrowsKeeps
<1>4. ASSUME NEW n \in Nodes, Radio(n) PROVE AInv'
  <2>1. CASE TransmissionEnds(n)
    BY <2>1, TransmissionEndsIsOver, OverKeeps
  <2>2. ASSUME NEW m \in Nodes, SignalArrives(n, m) PROVE Grows(n)
    BY <2>2, TooWeakGrows, ReceivedGrows, DrownedGrows DEF SignalArrives
  <2>3. ASSUME NEW m \in Nodes, SignalEnds(n, m) PROVE Grows(n)
    BY <2>3, FrameReceivedGrows, FrameSpoiltGrows, SignalGoneGrows DEF SignalEnds
  <2> QED
    BY <1>4, <2>1, <2>2, <2>3, GrowsKeeps DEF Radio
<1> QED
  BY <1>1, <1>2, <1>3, <1>4 DEF Next

LEMMA AckStutterKeeps ==
    ASSUME AInv, UNCHANGED vars
    PROVE  AInv'
<1>1. /\ mac' = mac /\ tx' = tx /\ handed' = handed /\ fresh' = fresh
      /\ hears' = hears /\ lock' = lock /\ acked' = acked /\ sooner' = sooner
  BY DEF vars, air
<1>2. Reports' /\ Early' /\ Sensed' /\ OneEnds'
  BY <1>1 DEF AInv, Reports, Early, Sensed, OneEnds, Ended
<1>3. Numbers' /\ Sending' /\ AckedIsHanded'
  BY <1>1 DEF AInv, Numbers, Sending, AckedIsHanded, Got
<1>4. Locked' /\ InOrder'
  BY <1>1 DEF AInv, Locked, LockedTo, InOrder, Acks
<1>5. Truth'
  BY <1>1 DEF AInv, Truth, Acks, Got
<1> QED
  BY <1>2, <1>3, <1>4, <1>5 DEF AInv

LEMMA AckInitHolds ==
    ASSUME Init
    PROVE  AInv
<1>1. \A n \in Nodes :
         /\ mac[n].state = "IDLE" /\ tx[n] = None /\ lock[n] = None
         /\ hears[n] = {} /\ handed[n] = <<>> /\ acked[n] = {}
         /\ \A m \in Nodes : mac[n].lastSeq[m] = 0
  BY DEF Init, Idle
<1>2. fresh = {} /\ acked \in [Nodes -> SUBSET (Nat \X Nodes)]
  BY DEF Init
<1>3. Reports /\ Early /\ Sensed /\ OneEnds
  BY <1>1, <1>2 DEF Reports, Early, Sensed, OneEnds, Ended
<1>4. Numbers /\ Sending /\ AckedIsHanded
  BY <1>1 DEF Numbers, Sending, AckedIsHanded
<1>5. Locked /\ InOrder /\ Truth
  BY <1>1 DEF Locked, LockedTo, InOrder, Truth, Acks
<1> QED
  BY <1>3, <1>4, <1>5 DEF AInv

-----------------------------------------------------------------------------
(* The theorem.                                                             *)

(* What MacDot11StationProcessAck reports to the layers above as             *)
(* acknowledged has reached the layers above of the station it was sent to:  *)
(* an acknowledgement that answers an earlier frame, or comes late, is never *)
(* taken for that of the frame a station waits for.                          *)
THEOREM AcknowledgedIsHanded == Spec => []AckedIsHanded
<1>1. Init => AInv
  BY AckInitHolds
<1>2. IInv /\ AInv /\ [Next]_vars => AInv'
  BY AckNextKeeps, AckStutterKeeps
<1>3. AInv => AckedIsHanded
  BY DEF AInv
<1> QED
  BY <1>1, <1>2, <1>3, Inductive, PTL DEF Spec
=============================================================================
