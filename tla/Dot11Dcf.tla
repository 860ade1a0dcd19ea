------------------------------ MODULE Dot11Dcf ------------------------------
(***************************************************************************)
(* The distributed coordination function of the 802.11 MAC                 *)
(* (mac_dot11.cpp) in every station of a cell: what a station does with a  *)
(* frame it receives, with a change of its radio's status and with its     *)
(* timer, while the frames of the others are on the air.  An access point  *)
(* and its stations are joined; power saving, the point and hybrid         *)
(* coordination functions, 802.11n, mesh points and directional antennas   *)
(* are off.  The radio and the MacDot11Station... helpers are not in the   *)
(* repository: they are the external operators.                            *)
(***************************************************************************)
EXTENDS Integers, Sequences, FiniteSets

CONSTANTS Nodes,        \* the access point and the stations
          Ap,           \* the access point
          None,
          InRange,      \* pairs <<m, n>>: n hears what m sends
          Loads,        \* what the stations may be asked to send: for each a
                        \*   sequence of records [id, kind, to, via, rts]
          StopAfterHeader,  \* dot11->stopReceivingAfterHeaderMode
          RetryLimit,   \* dot11->shortRetryLimit, longRetryLimit
          MaxBeacons,   \* bound: beacons that fall due
          MaxAnswers    \* bound: answers in a management queue

Everyone == "everyone"  \* ANY_MAC802
Kinds == {"data", "mgmt", "resp"}

(* What a station has to send, and what is on the air. *)
Messages == [id : Nat \ {0}, kind : Kinds, to : Nodes \cup {Everyone},
             via : {"network", "data", "mgmt"}, rts : BOOLEAN]
Frames == [kind : Kinds, from : Nodes, to : Nodes \cup {Everyone}, id : Nat \ {0}]
          \cup [kind : {"rts", "cts", "ack", "beacon"}, from : Nodes,
                to : Nodes \cup {Everyone}, id : {0}]

(* The data queue is used by mesh points only, for all their data, and what  *)
(* is for the management queue is not data.                                  *)
ASSUME DcfAssumption ==
    /\ Ap \in Nodes /\ Everyone \notin Nodes
    /\ None \notin Nodes \cup Messages \cup Frames
    /\ InRange \subseteq Nodes \X Nodes
    /\ StopAfterHeader \in BOOLEAN /\ RetryLimit \in Nat \ {0}
    /\ MaxBeacons \in Nat /\ MaxAnswers \in Nat
    /\ Loads \subseteq [Nodes -> Seq(Messages)]
    /\ \A load \in Loads, n \in Nodes :
          \E path \in {"network", "data"} : \A i \in 1 .. Len(load[n]) :
             /\ <<load[n][i].kind, load[n][i].via>>
                   \in {<<"data", path>>, <<"mgmt", "mgmt">>}
             /\ \A j \in 1 .. i - 1 : load[n][j].id < load[n][i].id

VARIABLES
    mac,        \* each station's MacDataDot11, see Idle
    offered,    \* the frames the layers above have yet to hand to the MAC
    network,    \* the output queue of the network layer
    tx,         \* the frame each station's radio is sending
    fresh,      \* <<m, n>>: what m sends has not reached n yet
    hears,      \* the stations whose signal each radio senses
    lock,       \* the frame each radio is receiving
    spoilt,     \* it will be received with an error
    quiet,      \* the station whose signal's end each station's
                \*   noOutgoingPacketsUntilTime is
    sooner,     \* <<k, n>>: k's CTS or ACK ends before what n does, sending
                \*   or waiting for a response, as it began before it
    beacons,    \* beacons that have fallen due
    handed,     \* frames handed to the layers above by each station, in order
    acked       \* <<id, to>> each station's MAC has reported as acknowledged

air  == <<fresh, hears, lock, spoilt, quiet>>
vars == <<mac, offered, network, tx, air, sooner, beacons, handed, acked>>

(* MacDot11IsWaitingForResponseState, as the order of the states gives it. *)
WaitingForResponse == {"WFCTS", "WFDATA", "WFACK", "WFBEACON"}
Transmitting == {"X_RTS", "X_CTS", "X_UNICAST", "X_BROADCAST", "X_ACK",
                 "X_BEACON"}

(* The fields of a station: timer says that the last timer started is alive, *)
(* nav that dot11->NAV lies ahead, cut that a beacon stopped the timer of a  *)
(* wait.                                                                     *)
Idle == [state |-> "IDLE", timer |-> FALSE, nav |-> FALSE, cut |-> FALSE,
         currentMessage |-> None, SSRC |-> 0, SLRC |-> 0, beaconIsDue |-> FALSE,
         mgmtSendResponse |-> FALSE, mngmtQueue |-> <<>>, dataQueue |-> <<>>,
         lastSeq |-> [m \in Nodes |-> 0]]

Init ==
    /\ mac = [n \in Nodes |-> Idle]
    /\ offered \in Loads
    /\ network = [n \in Nodes |-> <<>>]
    /\ tx = [n \in Nodes |-> None]
    /\ fresh = {} /\ sooner = {}
    /\ hears = [n \in Nodes |-> {}]
    /\ lock = [n \in Nodes |-> None]
    /\ spoilt = [n \in Nodes |-> FALSE]
    /\ quiet = [n \in Nodes |-> None]
    /\ beacons = 0
    /\ handed = [n \in Nodes |-> <<>>]
    /\ acked = [n \in Nodes |-> {}]

-----------------------------------------------------------------------------
(* A handler turns an outcome into another: the station's fields, what its   *)
(* radio starts to send, what it hands up and what it reports acknowledged.  *)

Outcome(n) == [s |-> mac[n], send |-> None, up |-> <<>>, ok |-> {}, net |-> network[n]]

With(o, s) == [o EXCEPT !.s = s]
SetState(o, x) == [o EXCEPT !.s.state = x]
StartTimer(o) == [o EXCEPT !.s.timer = TRUE, !.s.cut = FALSE]
CancelTimer(o) == [o EXCEPT !.s.timer = FALSE]

Frame(k, from, to, id) == [kind |-> k, from |-> from, to |-> to, id |-> id]

(* MacDot11StationStartTransmittingPacket, in the state x. *)
Transmit(o, x, frame) ==
    [o EXCEPT !.s.state = x, !.s.timer = FALSE, !.s.cut = FALSE,
              !.send = frame]

TransmitAck(o, n, to) == Transmit(o, "X_ACK", Frame("ack", n, to, 0))

(* MacDot11StationAttemptToGoIntoWaitForDifsOrEifsState: contend for the     *)
(* channel, or wait for it to be free.                                       *)
AttemptToContend(o, idle) ==
    IF ~idle THEN CancelTimer(SetState(o, "IDLE"))
    ELSE StartTimer(SetState(o, IF o.s.nav THEN "WFNAV" ELSE "CONTENDING"))

(* MacDot11StationCanHandleDueBeacon, for the access point. *)
CanHandleDueBeacon(s, idle) ==
    /\ s.beaconIsDue /\ idle
    /\ s.state \in {"IDLE", "CONTENDING", "WFNAV"}
WaitForBeacon(o) == StartTimer(SetState(o, "WFBEACON"))

(* MacDot11MgmtQueue_DequeuePacket, MacDot11DataQueue_DequeuePacket and the  *)
(* dequeue from the network layer, each into the local buffer.               *)
MgmtQueueDequeue(o) ==
    [o EXCEPT !.s.currentMessage = Head(o.s.mngmtQueue),
              !.s.mngmtQueue = Tail(o.s.mngmtQueue)]
DataQueueDequeue(o) ==
    [o EXCEPT !.s.currentMessage = Head(o.s.dataQueue),
              !.s.dataQueue = Tail(o.s.dataQueue)]
NetworkDequeue(o) ==
    [o EXCEPT !.s.currentMessage = Head(o.net), !.net = Tail(o.net)]

(* Where the next frame comes from: the management queue first. *)
MoveAPacketToTheLocalBuffer(o) ==
    CASE o.s.currentMessage # None -> o
      [] o.s.currentMessage = None /\ o.s.mngmtQueue # <<>> -> MgmtQueueDequeue(o)
      [] o.s.currentMessage = None /\ o.s.mngmtQueue = <<>>
            /\ o.s.dataQueue # <<>> -> DataQueueDequeue(o)
      [] o.s.currentMessage = None /\ o.s.mngmtQueue = <<>>
            /\ o.s.dataQueue = <<>> /\ o.net # <<>> -> NetworkDequeue(o)
      [] OTHER -> o

(* MacDot11StationCheckForOutgoingPacket *)
CheckForOutgoingPacket(o, idle) ==
    LET ready == MoveAPacketToTheLocalBuffer(CancelTimer(SetState(o, "IDLE")))
    IN  IF CanHandleDueBeacon(ready.s, idle) THEN WaitForBeacon(ready)
        ELSE IF ready.s.currentMessage = None THEN ready
        ELSE AttemptToContend(ready, idle)

(* MacDot11StationPhyStatusIsNowIdleStartSendTimers *)
StartSendTimers(o) ==
    IF o.s.state = "IDLE" THEN CheckForOutgoingPacket(o, TRUE) ELSE o

(* MacDot11StationCancelSomeTimersBecauseChannelHasBecomeBusy *)
CancelSomeTimers(o) ==
    IF o.s.state \in {"CONTENDING", "WFNAV", "WFBEACON"}
    THEN CancelTimer(SetState(o, "IDLE")) ELSE o

(* MacDot11StationProcessAck and, after the last retry, the drop. *)
Finished(o) ==
    [o EXCEPT !.s.currentMessage = None, !.s.SSRC = 0, !.s.SLRC = 0]
ProcessAck(o, idle) ==
    CheckForOutgoingPacket(
        Finished([o EXCEPT !.ok = {<<o.s.currentMessage.id, o.s.currentMessage.to>>}]), idle)

(* MacDot11StationRetransmit: the wait that failed has its own counter. *)
Retransmit(o, idle) ==
    LET tried == IF o.s.state = "WFCTS" THEN o.s.SSRC ELSE o.s.SLRC
        again == IF o.s.state = "WFCTS" THEN [o EXCEPT !.s.SSRC = @ + 1]
                 ELSE [o EXCEPT !.s.SLRC = @ + 1]
    IN  IF tried < RetryLimit THEN AttemptToContend(again, idle)
        ELSE CheckForOutgoingPacket(Finished(o), idle)

-----------------------------------------------------------------------------
(* Frames received.  idle: the radio's status is PHY_IDLE by then. *)

(* MacDot11StationCorrectSeqenceNumber *)
CorrectSequenceNumber(s, f) == s.lastSeq[f.from] # f.id
HandOff(o, f) == [o EXCEPT !.up = <<f>>]

ProcessBroadcast(o, f, idle) ==
    IF o.s.state = "IDLE" THEN CheckForOutgoingPacket(HandOff(o, f), idle)
    ELSE HandOff(o, f)

(* A slip: the sequence number of a retransmission is not looked at. *)
SlipProcessUnicast(o, f) ==
    HandOff(TransmitAck(CancelTimer(o), f.to, f.from), f)
ProcessUnicast(o, f) ==
    LET answered == TransmitAck(CancelTimer(o), f.to, f.from)
    IN  IF CorrectSequenceNumber(o.s, f)
        THEN HandOff([answered EXCEPT !.s.lastSeq[f.from] = f.id], f)
        ELSE answered

(* A slip: what is dropped during a wait is acknowledged all the same. *)
SlipProcessFrame(o, f, idle) ==
    IF o.s.state # "WFDATA" /\ o.s.state \in WaitingForResponse /\ f.to # Everyone
    THEN TransmitAck(o, f.to, f.from)
    ELSE IF f.to = Everyone THEN ProcessBroadcast(o, f, idle)
    ELSE ProcessUnicast(o, f)

(* MacDot11ProcessFrame *)
ProcessFrame(o, f, idle) ==
    IF o.s.state # "WFDATA" /\ o.s.state \in WaitingForResponse THEN o
    ELSE IF f.to = Everyone THEN ProcessBroadcast(o, f, idle)
    ELSE ProcessUnicast(o, f)

(* A slip: the wait for the NAV starts no timer. *)
SlipProcessNotMyFrame(o, idle, later) ==
    LET marked == [o EXCEPT !.s.nav = TRUE]
        toSend == o.s.currentMessage # None \/ o.s.mngmtQueue # <<>>
    IN  IF (~o.s.nav \/ later) /\ idle /\ toSend THEN SetState(marked, "WFNAV")
        ELSE marked

(* MacDot11ProcessNotMyFrame; later: its NAV ends after the present one. *)
ProcessNotMyFrame(o, idle, later) ==
    LET changed == ~o.s.nav \/ later
        marked  == [o EXCEPT !.s.nav = TRUE]
        toSend  == o.s.currentMessage # None \/ o.s.mngmtQueue # <<>>
    IN  IF changed /\ idle /\ toSend THEN StartTimer(SetState(marked, "WFNAV"))
        ELSE marked

(* MacDot11ProcessBeacon, of a cell without contention-free periods: the NAV *)
(* it sets is the present time.                                              *)
ProcessBeacon(o) ==
    IF o.s.nav THEN o
    ELSE [CancelTimer(o) EXCEPT !.s.cut = o.s.state \in WaitingForResponse]

(* MacDot11ProcessAnyFrame *)
ProcessAnyFrame(o, f, idle) ==
    IF f.kind = "beacon" THEN ProcessBeacon(o) ELSE ProcessFrame(o, f, idle)

ProcessRts(o, f, idle) ==
    IF o.s.state \notin WaitingForResponse /\ ~o.s.nav /\ idle
    THEN Transmit(CancelTimer(o), "X_CTS", Frame("cts", f.to, f.from, 0))
    ELSE o

ProcessCts(o, f, idle) ==
    IF o.s.state = "WFCTS" /\ idle
    THEN LET m == o.s.currentMessage
         IN  Transmit([CancelTimer(o) EXCEPT !.s.SSRC = 0], "X_UNICAST",
                      Frame(m.kind, f.to, m.to, m.id))
    ELSE o

ProcessAckFrame(o, idle) ==
    IF o.s.state = "WFACK" THEN ProcessAck(CancelTimer(o), idle) ELSE o

(* MacDot11MngmtQueueHasPacketToSend *)
MngmtQueueHasPacketToSend(o, idle) ==
    IF o.s.state = "IDLE" THEN CheckForOutgoingPacket(o, idle) ELSE o

(* MacDot11MgmtQueue_EnqueuePacket: an answer acknowledges what it answers. *)
MgmtQueueEnqueue(o, n, frame, idle) ==
    LET queued == [o EXCEPT !.s.mngmtQueue = Append(@, frame)]
        told   == IF queued.s.mgmtSendResponse
                  THEN TransmitAck(queued, n, frame.to) ELSE queued
    IN  IF Len(told.s.mngmtQueue) = 1 THEN MngmtQueueHasPacketToSend(told, idle)
        ELSE told

(* Requests and answers have no sequence number to be recognised by: of each *)
(* the history of what was handed up keeps the first.                        *)
Known(n, f) == \E i \in 1 .. Len(handed[n]) : handed[n][i] = f
HandOffManagement(o, n, f) == IF Known(n, f) THEN o ELSE HandOff(o, f)

(* MacDot11ManagementProcessAuthenticate and the association requests, as    *)
(* far as the MAC sees them: an access point queues an answer, a station     *)
(* acknowledges it.                                                          *)
Answer(f) == [id |-> f.id, kind |-> "resp", to |-> f.from, via |-> "mgmt",
              rts |-> FALSE]
ProcessManagement(o, n, f, idle) ==
    IF f.kind = "mgmt"
    THEN HandOffManagement(
            MgmtQueueEnqueue([o EXCEPT !.s.mgmtSendResponse = TRUE], n,
                             Answer(f), idle), n, f)
    ELSE HandOffManagement(TransmitAck(o, n, f.from), n, f)

(* A data frame to this station, which is joined to who sent it. *)
ProcessDataFrame(o, f, idle) == ProcessFrame(o, f, idle)

(* MacDot11ProcessMyFrame *)
ProcessMyFrame(o, n, f, idle) ==
    CASE f.kind = "rts"  -> ProcessRts(o, f, idle)
      [] f.kind = "cts"  -> ProcessCts(o, f, idle)
      [] f.kind = "ack"  -> ProcessAckFrame(o, idle)
      [] f.kind = "data" -> ProcessDataFrame(o, f, idle)
      [] OTHER           -> ProcessManagement(o, n, f, idle)

-----------------------------------------------------------------------------
(* The radio's status, and what the MAC is told of its changes. *)

PhyStatus(n) ==
    IF tx[n] # None THEN "TRANSMITTING"
    ELSE IF lock[n] # None THEN "RECEIVING"
    ELSE IF hears[n] # {} THEN "SENSING" ELSE "IDLE"
PhyIdle(n) == PhyStatus(n) = "IDLE"

(* MacDot11StationExaminePotentialIncomingMessage: look at the header first. *)
Examine(o, f) ==
    IF o.s.state \notin {"IDLE", "HEADER_CHECK_MODE"} THEN o
    ELSE IF StopAfterHeader /\ f.kind \notin {"cts", "ack"}
    THEN StartTimer(SetState(o, "HEADER_CHECK_MODE"))
    ELSE CancelTimer(SetState(o, "IDLE"))

(* MacDot11StationTransmissionHasFinished *)
TransmissionHasFinished(o, idle) ==
    CASE o.s.state = "X_RTS"     -> StartTimer(SetState(o, "WFCTS"))
      [] o.s.state = "X_CTS"     -> StartTimer(SetState(o, "WFDATA"))
      [] o.s.state = "X_UNICAST" -> StartTimer(SetState(o, "WFACK"))
      [] o.s.state = "X_BROADCAST" -> CheckForOutgoingPacket(Finished(o), idle)
      [] OTHER                   -> CheckForOutgoingPacket(o, idle)

(* A slip: a signal that is only sensed does not stop the contention. *)
SlipStatusChange(o, old, new, f) ==
    CASE old \in {"IDLE", "SENSING"} /\ new = "SENSING" -> o
      [] old = "IDLE" /\ new = "RECEIVING"      -> Examine(CancelSomeTimers(o), f)
      [] old = "SENSING" /\ new = "RECEIVING"   -> Examine(o, f)
      [] old = "RECEIVING" /\ new = "RECEIVING" -> Examine(o, f)
      [] old = "RECEIVING" /\ new = "SENSING"   ->
            IF o.s.state = "HEADER_CHECK_MODE"
            THEN CancelTimer(SetState(o, "IDLE")) ELSE o
      [] old = "TRANSMITTING" -> TransmissionHasFinished(o, new = "IDLE")
      [] OTHER -> StartSendTimers(o)

(* MacDot11ReceivePhyStatusChangeNotification; f: what is being received. *)
StatusChange(o, old, new, f) ==
    CASE old = "IDLE" /\ new = "SENSING"        -> CancelSomeTimers(o)
      [] old = "IDLE" /\ new = "RECEIVING"      -> Examine(CancelSomeTimers(o), f)
      [] old = "SENSING" /\ new = "RECEIVING"   -> Examine(o, f)
      [] old = "RECEIVING" /\ new = "RECEIVING" -> Examine(o, f)
      [] old = "RECEIVING" /\ new = "SENSING"   ->
            IF o.s.state = "HEADER_CHECK_MODE"
            THEN CancelTimer(SetState(o, "IDLE")) ELSE o
      [] old = "TRANSMITTING" -> TransmissionHasFinished(o, new = "IDLE")
      [] OTHER -> StartSendTimers(o)

(* The radio does not tell of the end of a frame received well: the MAC      *)
(* looks for itself, and takes up what there is to send.                     *)
AfterReception(o, idle) == IF idle THEN StartSendTimers(o) ELSE o

(* MacDot11ReceivePacketFromPhy *)
ReceivePacketFromPhy(o, n, f, idle, later) ==
    AfterReception(IF f.to = n THEN ProcessMyFrame(o, n, f, idle)
                   ELSE IF f.to = Everyone THEN ProcessAnyFrame(o, f, idle)
                   ELSE ProcessNotMyFrame(o, idle, later),
                   idle)

(* The handler of n ends with outcome o: a radio that starts to send loses   *)
(* what it was receiving.                                                    *)
Reaches(n) == {<<n, k>> : k \in {k \in Nodes \ {n} : <<n, k>> \in InRange}}
Done(n, o) ==
    /\ mac' = [mac EXCEPT ![n] = o.s]
    /\ network' = [network EXCEPT ![n] = o.net]
    /\ handed' = [handed EXCEPT ![n] = @ \o o.up]
    /\ acked' = [acked EXCEPT ![n] = @ \cup o.ok]

(* A CTS or an ACK is shorter than anything else, a response wait included.  *)
Short == {k \in Nodes : tx[k] # None /\ tx[k].kind \in {"cts", "ack"}}
Earlier(n) == {<<k, n>> : k \in Short \ {n}}
InTurn(n) == \A k \in Nodes : <<k, n>> \notin sooner

Sends(n, o) ==
    IF o.send = None THEN UNCHANGED <<tx, sooner>>
    ELSE /\ tx' = [tx EXCEPT ![n] = o.send]
         /\ sooner' = sooner \cup Earlier(n)

(* A handler that the radio did not call. *)
Handled(n, o) ==
    /\ Done(n, o) /\ Sends(n, o)
    /\ fresh' = IF o.send = None THEN fresh ELSE fresh \cup Reaches(n)
    /\ lock' = IF o.send = None THEN lock ELSE [lock EXCEPT ![n] = None]
    /\ spoilt' = IF o.send = None THEN spoilt ELSE [spoilt EXCEPT ![n] = FALSE]
    /\ UNCHANGED <<hears, quiet, beacons>>

Receiving(n, m) == lock[n] # None /\ lock[n].from = m

(* The end of a signal reaches every radio before anything else happens. *)
Ended(n, m) == m \in hears[n] /\ tx[m] = None
SignalsEnded == \E n \in Nodes, m \in Nodes : Ended(n, m)

-----------------------------------------------------------------------------
(* What comes from the layers above. *)

Offer(n, via) ==
    /\ ~SignalsEnded /\ fresh = {}
    /\ offered[n] # <<>> /\ Head(offered[n]).via = via
    /\ offered' = [offered EXCEPT ![n] = Tail(@)]

(* MacDot11NetworkLayerHasPacketToSend *)
MoveFromTheNetworkLayer(o, idle) ==
    IF o.s.currentMessage # None THEN o
    ELSE LET moved == NetworkDequeue(o)
         IN  IF o.s.state = "IDLE" THEN AttemptToContend(moved, idle) ELSE moved
NetworkLayerHasPacketToSend(n) ==
    /\ Offer(n, "network")
    /\ LET o == [Outcome(n) EXCEPT !.net = Append(@, Head(offered[n]))]
       IN  Handled(n, MoveFromTheNetworkLayer(o, PhyIdle(n)))

(* MacDot11DataQueueHasPacketToSend *)
DataQueueHasPacketToSend(o, idle) ==
    IF o.s.currentMessage # None THEN o
    ELSE LET moved == DataQueueDequeue(o)
         IN  IF o.s.state = "IDLE" THEN AttemptToContend(moved, idle) ELSE moved

(* MacDot11DataQueue_EnqueuePacket *)
DataQueueEnqueue(n) ==
    /\ Offer(n, "data")
    /\ LET o == [Outcome(n) EXCEPT !.s.dataQueue = Append(@, Head(offered[n]))]
       IN  Handled(n, IF Len(o.s.dataQueue) = 1
                      THEN DataQueueHasPacketToSend(o, PhyIdle(n)) ELSE o)

(* MacDot11ManagementAuthenticate, ...AssociateRequest: a request. *)
ManagementRequest(n) ==
    /\ Offer(n, "mgmt")
    /\ LET o == [Outcome(n) EXCEPT !.s.mgmtSendResponse = FALSE]
       IN  Handled(n, MgmtQueueEnqueue(o, n, Head(offered[n]), PhyIdle(n)))

(* MacDot11Layer, MSG_MAC_DOT11_Beacon *)
BeaconFallsDue ==
    /\ ~SignalsEnded /\ fresh = {}
    /\ beacons < MaxBeacons /\ beacons' = beacons + 1
    /\ LET due == [Outcome(Ap) EXCEPT !.s.beaconIsDue = TRUE]
       IN  Done(Ap, IF CanHandleDueBeacon(due.s, PhyIdle(Ap))
                    THEN WaitForBeacon(due) ELSE due)
    /\ UNCHANGED <<offered, tx, sooner, air>>

-----------------------------------------------------------------------------
(* MacDot11HandleTimeout, when the timer that is alive fires (MacDot11Layer, *)
(* MSG_MAC_TimerExpired: an older one has another sequence number).          *)

Fires(n, states) ==
    /\ ~SignalsEnded
    /\ mac[n].timer /\ mac[n].state \in states
    /\ UNCHANGED offered

(* The first thing it does; the timer itself is spent. *)
Timeout(n, handler) ==
    Handled(n, IF CanHandleDueBeacon(mac[n], PhyIdle(n))
               THEN WaitForBeacon(Outcome(n)) ELSE handler)
Spent(n) == CancelTimer(Outcome(n))

(* The timer of the access category: the channel is won.  After a wait for   *)
(* the NAV with an empty local buffer the next frame is fetched now.         *)
StartSending(n) ==
    LET o == MoveAPacketToTheLocalBuffer(Spent(n))
        m == o.s.currentMessage
    IN  IF m.to = Everyone
        THEN Transmit(o, "X_BROADCAST", Frame(m.kind, n, m.to, m.id))
        ELSE IF m.rts THEN Transmit(o, "X_RTS", Frame("rts", n, m.to, 0))
        ELSE Transmit(o, "X_UNICAST", Frame(m.kind, n, m.to, m.id))
ContentionEnds(n) ==
    /\ Fires(n, {"CONTENDING"}) /\ PhyIdle(n) /\ quiet[n] = None
    /\ Timeout(n, StartSending(n))

(* A response that comes at all comes before the timer. *)
AnswerOnTheAir(n) ==
    \E m \in Nodes : /\ tx[m] # None /\ tx[m].to = n
                     /\ tx[m].kind \in CASE mac[n].state = "WFCTS" -> {"cts"}
                                         [] mac[n].state = "WFACK" -> {"ack"}
                                         [] OTHER -> Kinds
NoResponse(n) ==
    /\ Fires(n, {"WFCTS", "WFACK"}) /\ ~AnswerOnTheAir(n) /\ InTurn(n)
    /\ Timeout(n, Retransmit(Spent(n), PhyIdle(n)))

NoData(n) ==
    /\ Fires(n, {"WFDATA"}) /\ ~AnswerOnTheAir(n)
    /\ Timeout(n, CheckForOutgoingPacket(Spent(n), PhyIdle(n)))

NavTimeout(n) ==
    /\ Fires(n, {"WFNAV"})
    /\ Timeout(n, AttemptToContend([Spent(n) EXCEPT !.s.nav = FALSE], PhyIdle(n)))

(* MacDot11ApAttemptToTransmitBeacon *)
SendBeacon(n) ==
    /\ Fires(n, {"WFBEACON"})
    /\ Handled(n, Transmit([Spent(n) EXCEPT !.s.beaconIsDue = FALSE], "X_BEACON",
                           Frame("beacon", n, Everyone, 0)))

(* The header has been received: a frame for this station without error is   *)
(* received to its end, any other one is left (PHY_TerminateCurrentReceive); *)
(* whether it is still sensed depends on its power.                          *)
GoOnReceiving(n) ==
    /\ Done(n, SetState(Spent(n), "IDLE"))
    /\ UNCHANGED <<tx, sooner, air>>
LeaveTheFrame(n, idle, later) ==
    LET o == IF spoilt[n] THEN Spent(n) ELSE ProcessNotMyFrame(Spent(n), idle, later)
    IN  /\ Done(n, CheckForOutgoingPacket(o, idle))
        /\ lock' = [lock EXCEPT ![n] = None]
        /\ spoilt' = [spoilt EXCEPT ![n] = FALSE]
        /\ quiet' = [quiet EXCEPT ![n] = lock[n].from]
        /\ hears' = IF idle THEN [hears EXCEPT ![n] = {}] ELSE hears
        /\ UNCHANGED <<tx, sooner, fresh>>
HeaderReceived(n) ==
    /\ Fires(n, {"HEADER_CHECK_MODE"}) /\ lock[n] # None
    /\ IF lock[n].to \in {n, Everyone} /\ ~spoilt[n] THEN GoOnReceiving(n)
       ELSE \E idle \in {FALSE, hears[n] = {lock[n].from}}, later \in BOOLEAN :
               LeaveTheFrame(n, idle, later)
    /\ UNCHANGED beacons

(* Time passes the end of the NAV. *)
NavEnds(n) ==
    /\ ~SignalsEnded /\ fresh = {}
    /\ mac[n].nav /\ mac[n].state # "WFNAV"
    /\ mac' = [mac EXCEPT ![n].nav = FALSE]
    /\ UNCHANGED <<offered, network, tx, sooner, air, beacons, handed, acked>>

-----------------------------------------------------------------------------
(* The radios.  Nothing is sent while a signal has not reached everybody,    *)
(* but what is sent in that very moment, which it collides with.             *)

(* n senses what m sends; a radio that sends is told nothing. *)
Senses(n, m) ==
    /\ fresh' = fresh \ {<<m, n>>}
    /\ hears' = [hears EXCEPT ![n] = @ \cup {m}]
    /\ UNCHANGED <<offered, tx, sooner, quiet, beacons>>

TooWeak(n, m) ==
    /\ Senses(n, m)
    /\ Done(n, IF PhyIdle(n) THEN StatusChange(Outcome(n), "IDLE", "SENSING", None)
               ELSE Outcome(n))
    /\ spoilt' = [spoilt EXCEPT ![n] = lock[n] # None]
    /\ UNCHANGED lock
Received(n, m) ==
    /\ tx[n] = None
    /\ tx[m].kind = "mgmt" => Len(mac[n].mngmtQueue) < MaxAnswers
    /\ Senses(n, m)
    /\ Done(n, StatusChange(Outcome(n), PhyStatus(n), "RECEIVING", tx[m]))
    /\ lock' = [lock EXCEPT ![n] = tx[m]]
    /\ spoilt' = [spoilt EXCEPT ![n] = FALSE]
Drowned(n, m) ==
    /\ lock[n] # None
    /\ Senses(n, m)
    /\ Done(n, StatusChange(Outcome(n), "RECEIVING", "SENSING", None))
    /\ lock' = [lock EXCEPT ![n] = None]
    /\ spoilt' = [spoilt EXCEPT ![n] = FALSE]
SignalArrives(n, m) ==
    /\ ~SignalsEnded /\ <<m, n>> \in fresh
    /\ TooWeak(n, m) \/ Received(n, m) \/ Drowned(n, m)

(* The header of a frame is over before the frame is. *)
HeaderPending(n, m) ==
    Receiving(n, m) /\ mac[n].state = "HEADER_CHECK_MODE"

TransmissionEnds(m) ==
    /\ ~SignalsEnded /\ tx[m] # None /\ InTurn(m)
    /\ \A n \in Nodes : <<m, n>> \notin fresh /\ ~HeaderPending(n, m)
    /\ Done(m, StatusChange(Outcome(m), "TRANSMITTING",
                            IF hears[m] = {} THEN "IDLE" ELSE "SENSING", None))
    /\ tx' = [tx EXCEPT ![m] = None]
    /\ sooner' = {p \in sooner : p[1] # m} \cup Earlier(m)
    /\ quiet' = [n \in Nodes |-> IF quiet[n] = m THEN None ELSE quiet[n]]
    /\ UNCHANGED <<offered, fresh, hears, lock, spoilt, beacons>>

(* The end of m's signal at n, by what n's radio was doing with it. *)
Unheard(n, m, o) ==
    /\ Done(n, o) /\ Sends(n, o)
    /\ hears' = [hears EXCEPT ![n] = @ \ {m}]
    /\ fresh' = IF o.send = None THEN fresh ELSE fresh \cup Reaches(n)
    /\ UNCHANGED <<offered, quiet, beacons>>
FrameReceived(n, m) ==
    /\ Receiving(n, m) /\ ~spoilt[n]
    /\ \E later \in BOOLEAN :
          \E o \in {ReceivePacketFromPhy(Outcome(n), n, lock[n], hears[n] = {m}, later)} :
             Unheard(n, m, o)
    /\ lock' = [lock EXCEPT ![n] = None] /\ UNCHANGED spoilt
FrameSpoilt(n, m) ==
    /\ Receiving(n, m) /\ spoilt[n]
    /\ Unheard(n, m, StatusChange(Outcome(n), "RECEIVING",
                         IF hears[n] = {m} THEN "IDLE" ELSE "SENSING", None))
    /\ lock' = [lock EXCEPT ![n] = None]
    /\ spoilt' = [spoilt EXCEPT ![n] = FALSE]
SignalGone(n, m) ==
    /\ ~Receiving(n, m)
    /\ Unheard(n, m, IF PhyStatus(n) = "SENSING" /\ hears[n] = {m}
                     THEN StatusChange(Outcome(n), "SENSING", "IDLE", None)
                     ELSE Outcome(n))
    /\ UNCHANGED <<lock, spoilt>>
SignalEnds(n, m) ==
    /\ Ended(n, m)
    /\ FrameReceived(n, m) \/ FrameSpoilt(n, m) \/ SignalGone(n, m)

-----------------------------------------------------------------------------

Station(n) ==
    \/ ContentionEnds(n) \/ NoResponse(n) \/ NoData(n) \/ NavTimeout(n)
    \/ SendBeacon(n) \/ HeaderReceived(n) \/ NavEnds(n)
Upper(n) == NetworkLayerHasPacketToSend(n) \/ DataQueueEnqueue(n)
            \/ ManagementRequest(n)
Radio(n) == TransmissionEnds(n)
            \/ \E m \in Nodes : SignalArrives(n, m) \/ SignalEnds(n, m)

Next == \/ BeaconFallsDue
        \/ \E n \in Nodes : Station(n) \/ Upper(n) \/ Radio(n)

Spec == Init /\ [][Next]_vars

-----------------------------------------------------------------------------
TypeOK ==
    /\ \A n \in Nodes :
          /\ mac[n].state \in WaitingForResponse \cup Transmitting
                \cup {"IDLE", "CONTENDING", "WFNAV", "HEADER_CHECK_MODE"}
          /\ mac[n].SSRC \in 0 .. RetryLimit /\ mac[n].SLRC \in 0 .. RetryLimit
          /\ hears[n] \subseteq Nodes
    /\ fresh \subseteq InRange

(* MacDot11ProcessNotMyFrame and MacDot11ReceivePacketFromPhy assert that a  *)
(* station that receives a frame is neither waiting for the channel nor      *)
(* sending: whatever order signals came in.                                  *)
ReadyToReceive ==
    \A n \in Nodes : lock[n] # None =>
        mac[n].state \notin {"WFNAV", "CONTENDING"} \cup Transmitting

(* A data frame is handed to the layers above at most once and in the order  *)
(* it was offered, whatever frames and acknowledgements are lost.            *)
HandedOnce ==
    \A n \in Nodes : \A i, j \in 1 .. Len(handed[n]) :
        /\ i < j /\ handed[n][i].from = handed[n][j].from
        /\ handed[n][i].kind = "data" /\ handed[n][j].kind = "data"
        => handed[n][i].id < handed[n][j].id

(* What a MAC reports as acknowledged has reached the layers above of the    *)
(* station it was for: no acknowledgement answers another frame.             *)
AckedIsHanded ==
    \A n \in Nodes : \A p \in acked[n] :
        \E i \in 1 .. Len(handed[p[2]]) : handed[p[2]][i].id = p[1]

(* A station that waits for a response has a timer running that ends the     *)
(* wait, but for the wait in which a beacon came: MacDot11ProcessBeacon      *)
(* cancels the timer and leaves the state.                                   *)
WaitsEnd ==
    \A n \in Nodes :
        mac[n].state \in WaitingForResponse \cup {"CONTENDING", "WFNAV"} =>
            mac[n].timer \/ mac[n].cut
=============================================================================
