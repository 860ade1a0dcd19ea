----------------------------- MODULE Dot11Join -----------------------------
(***************************************************************************)
(* How an 802.11 station of the data collector finds an access point, asks *)
(* it for authentication and association, and tells the UP client daemon   *)
(* the address it joined (MacDot11Management*, mac_dot11-mgmt.cpp), with   *)
(* the access points' side of the exchange.  The radio, the MAC's sending  *)
(* of the queued requests, the station list of an access point and the     *)
(* trigger of a handover scan are not in the repository: they are the      *)
(* external actions, as free as the code that calls them allows.           *)
(***************************************************************************)
EXTENDS Integers, Sequences, FiniteSets

CONSTANTS Aps,          \* the access points
          OwnSsid,      \* those whose SSID is the station's dot11DesiredSSID
          QosAps,       \* those that, like the station, use QoS (802.11e)
          NChannels,    \* PROP_NumberChannels: channels 0 .. NChannels - 1
          Listenable,   \* the channels PHY_CanListenToChannel allows
          Home,         \* Home[a]: the channel of access point a
          None,         \* no access point: INVALID_802ADDRESS, a NULL pointer
          Configured,   \* the values MAC-DOT11-SCAN-TYPE may have, "" for none
          MaxAnswers,   \* bound: answers queued at the access points
          MaxOut        \* bound: requests queued when a handover scan starts

ASSUME JoinAssumption ==
    /\ OwnSsid \subseteq Aps /\ QosAps \subseteq Aps /\ None \notin Aps
    /\ NChannels \in Nat \ {0}
    /\ Listenable \subseteq 0 .. NChannels - 1 /\ Listenable # {}
    /\ Home \in [Aps -> Listenable]
    /\ Configured \subseteq STRING
    /\ MaxAnswers \in Nat \ {0} /\ MaxOut \in Nat

VARIABLES
    scanType,       \* mngmtVars->scanType, fixed by the configuration
    state,          \* mngmtVars->state; "error" after an ERROR_ReportError
    authenticated,  \* dot11->stationAuthenticated
    associated,     \* dot11->stationAssociated
    timer,          \* the management timer whose number is
                    \*   managementSequenceNumber: an older one is dead
    channel,        \* mngmtVars->currentChannel
    numResults,     \* channelInfo->numResults: channels scanned, and one
    visited,        \* the channels listened to since the scan started
    heard,          \* access points measured above the threshold since
                    \*   scanStartTime
    mayReceive,     \* dot11->MayReceiveProbeResponce
    scanStarted,    \* dot11->ScanStarted
    proposed,       \* mngmtVars->PraposedAPInfo
    apAddr,         \* mngmtVars->apAddr
    associatedAp,   \* dot11->associatedAP
    bssAddr,        \* dot11->bssAddr ("self" while scanning)
    told,           \* the address last sent in MSG_APP_UP_FromMacJoinCompleted
    out,            \* dot11->mngmtQueue, its head being sent if sending
    sending,        \* the head of out is dot11->currentMessage
    resetPending,   \* dot11->ManagementResetPending
    answers,        \* answers queued at the access points
    listed          \* the station in each apStationList: "never", "listed",
                    \*   or "struck" for having been silent too long

progress == <<state, authenticated, associated, scanStarted>>
scan     == <<channel, numResults, visited, heard, mayReceive>>
chosen   == <<proposed, apAddr>>
joined   == <<associatedAp, bssAddr, told>>
mac      == <<out, sending, resetPending>>
air      == <<answers, listed>>
vars == <<scanType, timer, progress, scan, chosen, joined, mac, air>>

(* MacDot11IsStationJoined, as JoinCompleted's own message words it. *)
IsStationJoined == authenticated /\ associated

Request(k, a) == [kind |-> k, ap |-> a]
Answer(k, a, good) == [kind |-> k, ap |-> a, good |-> good]

(* numChannels: a disabled scan sets it to 1. *)
NumChannels == IF scanType = "disabled" THEN 1 ELSE NChannels

(* MacDot11ManagementInit at a station: what is not a scan type disables it. *)
ScanTypeOf(configured) ==
    IF configured = "PASSIVE" THEN "passive"
    ELSE IF configured = "ACTIVE" THEN "active"
    ELSE "disabled"

(* The channel a station starts on: the one of MAC-DOT11-STA-CHANNEL if there *)
(* is such a channel (that it can be listened to is not checked, and left to  *)
(* the radio), otherwise the first one the radio listens to, or can listen to.*)
FirstListening(listening) ==
    LET first == IF listening # {} THEN listening ELSE Listenable
    IN  CHOOSE c \in first : \A d \in first : c <= d
StartChannel(configured, listening) ==
    IF configured < NChannels THEN configured ELSE FirstListening(listening)

Init ==
    /\ \E configured \in Configured : scanType = ScanTypeOf(configured)
    /\ state = "idle" /\ authenticated = FALSE /\ associated = FALSE
    /\ scanStarted = FALSE /\ sending = FALSE /\ resetPending = FALSE
    /\ timer = "enable"
    /\ \E sta \in Listenable \cup {NChannels}, listening \in SUBSET Listenable :
          channel = StartChannel(sta, listening)
    /\ numResults = 0 /\ visited = {}
    /\ heard = {} /\ mayReceive = FALSE
    /\ proposed = None /\ apAddr = None
    /\ associatedAp = None /\ bssAddr = "self" /\ told = None
    /\ out = <<>>
    /\ answers = {} /\ listed = [a \in Aps |-> "never"]

-----------------------------------------------------------------------------
(* The scan. *)

(* MacDot11ManagementChangeToChannel: to stay is no change. *)
ChangeToChannel(c) == channel' = c

(* MacDot11TransmitProbeRequestFrame: nothing is timed until it is sent. *)
EnqueueProbe(queue) == out' = Append(queue, Request("probe", None))

(* MacDot11ManagementScanStart, per scan type. *)
ScanDisabled(queue) ==
    /\ scanType = "disabled"
    /\ timer' = "beaconWait" /\ out' = queue
    /\ UNCHANGED bssAddr
ScanPassive(queue) ==
    /\ scanType = "passive"
    /\ bssAddr' = "self" /\ timer' = "beaconWait" /\ out' = queue
ScanActive(queue, live) ==
    /\ scanType = "active"
    /\ bssAddr' = "self" /\ timer' = live /\ EnqueueProbe(queue)

(* queue is what the management queue holds, live the timer still alive. *)
ScanStart(queue, live) ==
    /\ numResults' = 1 /\ heard' = {} /\ visited' = {channel}
    /\ \/ ScanDisabled(queue)
       \/ ScanPassive(queue)
       \/ ScanActive(queue, live)
    /\ UNCHANGED <<channel, mayReceive>>

(* MacDot11ManagementStartJoin *)
StartJoin(queue, live) ==
    /\ state' = "wfscan" /\ scanStarted' = TRUE
    /\ ScanStart(queue, live)

(* A management timer does something only if it is the last one started:     *)
(* MacDot11Layer compares its number with managementSequenceNumber.          *)
Expires(kinds) == timer \in kinds

(* MacDot11ManagementEnable, with dynamic association. *)
Enable ==
    /\ Expires({"enable"})
    /\ apAddr' = None
    /\ StartJoin(out, "none")
    /\ UNCHANGED <<scanType, authenticated, associated, proposed, associatedAp,
                   told, sending, resetPending, air>>

(* MacDot11ManagementReset: at once when the MAC is idle and sends nothing,   *)
(* otherwise it only sets the flag.  The queue is left, live the timer.       *)
ResetNow(live) ==
    /\ authenticated' = FALSE /\ associated' = FALSE
    /\ apAddr' = None
    /\ StartJoin(<<>>, live)
    /\ UNCHANGED <<proposed, associatedAp, told>>

ResetLater(live) ==
    /\ resetPending' = TRUE /\ timer' = live
    /\ UNCHANGED <<progress, scan, chosen, joined>>

(* The best access point heard is whichever has the highest rssMean, and a   *)
(* handover also asks for HANDOVER_RSS_MARGIN over the present one: which    *)
(* one that is, and whether it has the margin, is left open.                 *)
NoApFound ==
    /\ heard = {}
    /\ associated' = FALSE /\ timer' = "scanStart"
    /\ UNCHANGED <<channel, chosen, bssAddr>>

Propose(best) ==
    /\ associated' = FALSE
    /\ proposed' = best /\ apAddr' = best /\ ChangeToChannel(Home[best])
    /\ UNCHANGED bssAddr

ProposeFirst(best) ==
    /\ ~associated
    /\ Propose(best) /\ timer' = "authStart"

ProposeHandover(best) ==
    /\ associated /\ best # associatedAp
    /\ Propose(best) /\ timer' = "reassocStart"

SlipKeepAp ==
    /\ associated
    /\ bssAddr' = associatedAp /\ timer' = "none"
    /\ UNCHANGED <<channel, associated, chosen>>
KeepAp ==
    /\ associated
    /\ ChangeToChannel(Home[associatedAp]) /\ bssAddr' = associatedAp
    /\ timer' = "none"
    /\ UNCHANGED <<associated, chosen>>

SlipScanCompleted ==
    /\ scanStarted' = FALSE
    /\ \/ heard = {} /\ associated' = FALSE /\ timer' = "none"
          /\ UNCHANGED <<channel, chosen, bssAddr>>
       \/ \E best \in heard : ProposeFirst(best) \/ ProposeHandover(best) \/ KeepAp
    /\ numResults' = 1
    /\ UNCHANGED <<visited, mayReceive, out>>
ScanCompleted ==
    /\ scanStarted' = FALSE
    /\ \/ NoApFound
       \/ \E best \in heard : ProposeFirst(best) \/ ProposeHandover(best) \/ KeepAp
    /\ numResults' = 1
    /\ UNCHANGED <<visited, mayReceive, out>>

(* The distance to the next channel the interface can listen to. *)
SlipNextDistance == 1
NextDistance ==
    CHOOSE k \in 1 .. NChannels :
        /\ (channel + k) % NChannels \in Listenable
        /\ \A j \in 1 .. k - 1 : (channel + j) % NChannels \notin Listenable

ChangeToNext ==
    /\ ChangeToChannel((channel + NextDistance) % NChannels)
    /\ visited' = visited \cup {channel'}
    /\ numResults' = numResults + NextDistance
    /\ IF scanType = "active"
       THEN mayReceive' = FALSE /\ timer' = "none" /\ EnqueueProbe(out)
       ELSE timer' = "beaconWait" /\ UNCHANGED <<mayReceive, out>>
    /\ UNCHANGED <<associated, scanStarted, chosen, bssAddr>>

(* MacDot11ManagementScanNextChannel: a channel that is skipped counts too.  *)
SlipScanNextChannel ==
    IF NumChannels <= numResults + NextDistance
    THEN ScanCompleted
    ELSE ChangeToNext
ScanNextChannel ==
    IF NumChannels <= numResults \/ NumChannels <= numResults + NextDistance - 1
    THEN ScanCompleted
    ELSE ChangeToNext

(* Active_Scan_Short_Timer: stay for the long timer if an answer may come.   *)
ShortTimerExpires ==
    /\ Expires({"short"})
    /\ IF mayReceive
       THEN /\ timer' = "long"
            /\ UNCHANGED <<scan, associated, scanStarted, chosen, bssAddr, out>>
       ELSE ScanNextChannel /\ UNCHANGED heard
    /\ UNCHANGED <<scanType, state, authenticated, associatedAp, told, sending,
                   resetPending, air>>

(* Active_Scan_Long_Timer and Beacon_Wait_Timer. *)
WaitTimerExpires ==
    /\ Expires({"long", "beaconWait"})
    /\ ScanNextChannel
    /\ UNCHANGED <<scanType, state, authenticated, heard, associatedAp, told,
                   sending, resetPending, air>>

(* A beacon in the air: MacDot11ProcessBeacon hands it on while the station  *)
(* is not joined or scans.                                                   *)
BeaconHandedOn == ~IsStationJoined \/ scanStarted

(* MacDot11ManagementGetAPInfo: the list holds each access point once. *)
WithApInfo(a) == heard \cup {a}

(* What a beacon says of its access point, and how strong it is. *)
BeaconMeasured(a) ==
    /\ heard' = WithApInfo(a)
    /\ UNCHANGED <<channel, numResults, visited, mayReceive>>

(* MacDot11ManagementProcessBeacon while scanning: only the own network's.   *)
SlipProcessBeacon(a) == state = "wfscan" /\ BeaconMeasured(a)
ProcessBeacon(a) == state = "wfscan" /\ a \in OwnSsid /\ BeaconMeasured(a)

HearBeacon(a) ==
    /\ channel = Home[a] /\ BeaconHandedOn
    /\ ProcessBeacon(a)
    /\ UNCHANGED <<scanType, timer, progress, chosen, joined, mac, air>>

-----------------------------------------------------------------------------
(* Authentication and association: the station's requests. *)

(* MacDot11ManagementAuthenticate, from the authentication start timer. *)
Authenticate ==
    /\ Expires({"authStart"}) /\ timer' = "none"
    /\ scanStarted' = FALSE /\ state' = "wfauth"
    /\ out' = Append(out, Request("auth", apAddr))
    /\ UNCHANGED <<scanType, authenticated, associated, scan, chosen, joined,
                   sending, resetPending, air>>

(* MacDot11ManagementBuildAssociateRequestFrame and its sibling: addressed   *)
(* to the access point proposed, with the station's own SSID.                *)
AssociateRequestFrame   == Request("assoc", apAddr)
ReassociateRequestFrame == Request("reassoc", apAddr)

(* MacDot11ManagementAssociateRequest *)
SlipAssociateRequest ==
    /\ out' = Append(out, AssociateRequestFrame)
    /\ UNCHANGED state
AssociateRequest ==
    /\ state' = "wfassoc"
    /\ out' = Append(out, AssociateRequestFrame)

(* MacDot11ManagementReassociateRequest, from the reassociation start timer. *)
ReassociateRequest ==
    /\ Expires({"reassocStart"}) /\ timer' = "none"
    /\ state' = "wfreassoc"
    /\ out' = Append(out, ReassociateRequestFrame)
    /\ UNCHANGED <<scanType, authenticated, associated, scanStarted, scan,
                   chosen, joined, sending, resetPending, air>>

(* MacDot11ManagementJoinCompleted; the daemon is told the address it joins. *)
SlipJoinCompleted ==
    /\ associatedAp' = proposed
    /\ told' = associatedAp /\ bssAddr' = proposed
    /\ state' = "joined"
JoinCompleted ==
    /\ associatedAp' = proposed
    /\ bssAddr' = proposed /\ told' = proposed
    /\ state' = "joined"

(* MacDot11AssociationCompleted: a join without both flags is an error. *)
AssociationCompleted ==
    /\ associated' = TRUE
    /\ IF authenticated
       THEN JoinCompleted
       ELSE state' = "error" /\ UNCHANGED joined
    /\ UNCHANGED <<authenticated, out>>

(* MacDot11AuthenticationCompleted; a station that is already associated    *)
(* asks for nothing more.                                                   *)
AuthenticationCompleted ==
    /\ authenticated' = TRUE
    /\ IF associated
       THEN state' = "authFinished" /\ UNCHANGED out
       ELSE AssociateRequest
    /\ UNCHANGED <<associated, joined>>

-----------------------------------------------------------------------------
(* The access point's side. *)

(* MaxAnswers is a bound of the model: what is too much loses the older ones. *)
Queue(new) ==
    answers' = new \cup IF Cardinality(answers \cup new) <= MaxAnswers
                        THEN answers ELSE {}

(* MacDot11ManagementBuildAuthenticateFrame: always successful. *)
AuthenticateAnswer(a) ==
    /\ Queue({Answer("auth", a, TRUE)})
    /\ UNCHANGED listed

(* The station list is external: a full one gives no association id. *)
Lists(a, kind, answered) ==
    \/ /\ listed' = [listed EXCEPT ![a] = "listed"]
       /\ Queue({Answer(kind, a, TRUE)})
    \/ /\ answered
       /\ Queue({Answer(kind, a, FALSE)})
       /\ UNCHANGED listed
    \/ ~answered /\ UNCHANGED <<answers, listed>>

Refuses(a, kind) ==
    /\ Queue({Answer(kind, a, FALSE)})
    /\ UNCHANGED listed

(* MacDot11ManagementBuildAssociateResponseFrame: a station already in the   *)
(* list keeps its id; a full list gives no answer at all.                    *)
SlipAssociateAnswer(a) ==
    IF a \notin OwnSsid THEN Refuses(a, "assoc")
    ELSE /\ Queue({Answer("assoc", a, TRUE)})
         /\ listed' \in {listed, [listed EXCEPT ![a] = "listed"]}
AssociateAnswer(a) ==
    IF a \notin OwnSsid THEN Refuses(a, "assoc")
    ELSE IF listed[a] = "listed"
         THEN /\ Queue({Answer("assoc", a, TRUE)})
              /\ UNCHANGED listed
         ELSE Lists(a, "assoc", FALSE)

(* MacDot11eManagementBuildAssociateResponseFrame: lists without looking.    *)
EAddStation(a) == Lists(a, "assoc", FALSE)
EAssociateAnswer(a) ==
    IF a \in OwnSsid THEN EAddStation(a) ELSE Refuses(a, "assoc")

(* MacDot11ManagementBuildReassociateResponseFrame: id 0 is sent as success, *)
(* and the station, which wants an id above 0, ignores it.                   *)
ReassociateAnswer(a) ==
    IF a \notin OwnSsid THEN Refuses(a, "reassoc") ELSE Lists(a, "reassoc", TRUE)

(* MacDot11eManagementBuildReassociateResponseFrame *)
EReaddStation(a) == Lists(a, "reassoc", TRUE)
EReassociateAnswer(a) ==
    IF a \in OwnSsid THEN EReaddStation(a) ELSE Refuses(a, "reassoc")

(* MacDot11ManagementBuildProbeResponseFrame: a probe for another SSID is    *)
(* answered all the same; good says whether the SSIDs agree.                 *)
ProbeAnswer(a)  == Answer("probe", a, a \in OwnSsid)
EProbeAnswer(a) == Answer("probe", a, a \in OwnSsid)

(* MacDot11ManagementProcessAssociateRequest and its siblings. *)
ProcessAssociateRequest(a) ==
    IF a \in QosAps THEN EAssociateAnswer(a) ELSE AssociateAnswer(a)
ProcessReassociateRequest(a) ==
    IF a \in QosAps THEN EReassociateAnswer(a) ELSE ReassociateAnswer(a)
ProcessProbeRequest(a) ==
    IF a \in QosAps THEN EProbeAnswer(a) ELSE ProbeAnswer(a)

(* MacDot11ManagementProcessFrame at an access point. *)
ApProcessFrame(request) ==
    \/ request.kind = "auth" /\ AuthenticateAnswer(request.ap)
    \/ request.kind = "assoc" /\ ProcessAssociateRequest(request.ap)
    \/ request.kind = "reassoc" /\ ProcessReassociateRequest(request.ap)

(* MacDot11DeleteAssociationId *)
DeleteAssociationId(a) == listed' = [listed EXCEPT ![a] = "struck"]

(* Station_Inactive_Timer: silent for longer than the timeout, and struck    *)
(* off without being told.                                                   *)
StrikeInactive(a) ==
    /\ listed[a] = "listed"
    /\ DeleteAssociationId(a)
    /\ UNCHANGED <<scanType, timer, progress, scan, chosen, joined, mac, answers>>

-----------------------------------------------------------------------------
(* The station's answers. *)

(* MacDot11ManagementProcessProbeResponse: the SSID is not looked at. *)
ProbeMeasured(answer) == heard' = WithApInfo(answer.ap)
ProcessProbeResponse(answer) ==
    /\ ProbeMeasured(answer)
    /\ UNCHANGED <<progress, joined, out>>

ProcessAuthenticate ==
    /\ AuthenticationCompleted
    /\ UNCHANGED <<heard, scanStarted>>

(* A refusal is only warned about: the timer of the wait will see to it. *)
AssociationRefused == UNCHANGED <<state, authenticated, associated, joined, out>>

ProcessAssociateResponse(answer) ==
    /\ IF answer.good THEN AssociationCompleted ELSE AssociationRefused
    /\ UNCHANGED <<heard, scanStarted>>

ProcessReassociateResponse(answer) ==
    /\ IF answer.good THEN AssociationCompleted ELSE AssociationRefused
    /\ UNCHANGED <<heard, scanStarted>>

(* MacDot11ManagementProcessFrame at the station: an answer nobody waits for *)
(* changes nothing, and whose answer it is is not looked at.                 *)
Awaited(answer) ==
    \/ answer.kind = "auth" /\ state = "wfauth"
    \/ answer.kind = "assoc" /\ state = "wfassoc"
    \/ answer.kind = "reassoc" /\ state = "wfreassoc"

SlipProcessFrame(answer) ==
    \/ answer.kind = "probe" /\ ProcessProbeResponse(answer)
    \/ answer.kind = "auth" /\ state = "wfauth" /\ ProcessAuthenticate
    \/ answer.kind = "assoc" /\ ProcessAssociateResponse(answer)
    \/ answer.kind = "reassoc" /\ ProcessReassociateResponse(answer)
ProcessFrame(answer) ==
    \/ answer.kind = "probe" /\ ProcessProbeResponse(answer)
    \/ answer.kind = "auth" /\ Awaited(answer) /\ ProcessAuthenticate
    \/ answer.kind = "assoc" /\ Awaited(answer) /\ ProcessAssociateResponse(answer)
    \/ answer.kind = "reassoc" /\ Awaited(answer) /\ ProcessReassociateResponse(answer)

(* An answer reaches the station; it comes again if the ACK is lost. *)
HearAnswer(answer) ==
    /\ channel = Home[answer.ap]
    /\ ProcessFrame(answer)
    /\ answers' \in {answers, answers \ {answer}}
    /\ UNCHANGED <<scanType, timer, channel, numResults, visited, mayReceive,
                   chosen, sending, resetPending, listed>>

(* An answer is heard in vain, or given up by the access point. *)
LoseAnswer(answer) ==
    /\ answers' = answers \ {answer}
    /\ UNCHANGED <<scanType, timer, progress, scan, chosen, joined, mac, listed>>

-----------------------------------------------------------------------------
(* Timeouts and resets. *)

(* The wait for the answer to a request that was acknowledged. *)
ResponseExpires ==
    /\ \/ Expires({"auth"}) /\ ~authenticated
       \/ Expires({"assoc", "reassoc"}) /\ ~associated
    /\ \/ ~sending /\ ResetNow("none") /\ UNCHANGED resetPending
       \/ ResetLater("none") /\ UNCHANGED out
    /\ UNCHANGED <<scanType, sending, air>>

ResponseExpiresLate ==
    /\ \/ Expires({"auth"}) /\ authenticated
       \/ Expires({"assoc", "reassoc"}) /\ associated
    /\ timer' = "none"
    /\ UNCHANGED <<scanType, progress, scan, chosen, joined, mac, air>>

(* Scan_Start_Timer: no access point was found, scan again. *)
ScanStartExpires ==
    /\ Expires({"scanStart"})
    /\ \/ ~sending /\ ResetNow("none") /\ UNCHANGED resetPending
       \/ ResetLater("none") /\ UNCHANGED out
    /\ UNCHANGED <<scanType, sending, air>>

(* MacDot11StationInformManagementOfPktDrop: a request was sent in vain as   *)
(* often as the retry limit allows.                                          *)
DropRequest ==
    /\ sending /\ Head(out).kind # "probe"
    /\ sending' = FALSE
    /\ \/ ResetNow(timer) /\ UNCHANGED resetPending
       \/ ResetLater(timer) /\ out' = Tail(out)
    /\ UNCHANGED <<scanType, air>>

(* External: the reset that was put off. *)
PendingReset ==
    /\ resetPending /\ ~sending
    /\ resetPending' = FALSE
    /\ ResetNow(timer)
    /\ UNCHANGED <<scanType, sending, air>>

-----------------------------------------------------------------------------
(* External: the MAC below sends the queued requests, and makes a reset that *)
(* was put off before it takes the next one.                                 *)

TakeRequest ==
    /\ ~sending /\ out # <<>> /\ ~resetPending
    /\ sending' = TRUE
    /\ UNCHANGED <<scanType, timer, progress, scan, chosen, joined, out,
                   resetPending, air>>

(* A broadcast probe reaches some of the access points of the channel. *)
SendProbe(reached) ==
    /\ sending /\ Head(out).kind = "probe"
    /\ Cardinality(reached) <= MaxAnswers
    /\ Queue({ProcessProbeRequest(a) : a \in reached})
    /\ out' = Tail(out) /\ sending' = FALSE
    /\ timer' = "short"
    /\ UNCHANGED <<scanType, progress, scan, chosen, joined, resetPending, listed>>

(* A request reaches its access point, if that listens to the channel.  When *)
(* the ACK comes back, the wait for the answer is timed; when it is lost,    *)
(* the request is sent again.                                                *)
Reaches(request) ==
    /\ request.ap \in Aps /\ channel = Home[request.ap]
    /\ ApProcessFrame(request)

SendAcked ==
    /\ sending /\ Head(out).kind # "probe"
    /\ Reaches(Head(out))
    /\ out' = Tail(out) /\ sending' = FALSE
    /\ timer' = Head(out).kind
    /\ UNCHANGED <<scanType, progress, scan, chosen, joined, resetPending>>

SendUnacked ==
    /\ sending /\ Head(out).kind # "probe"
    /\ Reaches(Head(out))
    /\ UNCHANGED <<scanType, timer, progress, scan, chosen, joined, mac>>

(* External: a busy channel during the short timer. *)
SenseBusy ==
    /\ timer = "short" /\ ~mayReceive /\ mayReceive' = TRUE
    /\ UNCHANGED <<scanType, timer, progress, channel, numResults, visited,
                   heard, chosen, joined, mac, air>>

(* External: the signal of the present access point becomes weak. *)
HandoverScan ==
    /\ IsStationJoined /\ ~scanStarted
    /\ Len(out) < MaxOut
    /\ StartJoin(out, timer)
    /\ UNCHANGED <<scanType, authenticated, associated, chosen, associatedAp,
                   told, sending, resetPending, air>>

-----------------------------------------------------------------------------
Station ==
    \/ Enable \/ ShortTimerExpires \/ WaitTimerExpires
    \/ Authenticate \/ ReassociateRequest
    \/ ResponseExpires \/ ResponseExpiresLate \/ ScanStartExpires

Environment ==
    \/ TakeRequest \/ SendAcked \/ SendUnacked \/ DropRequest \/ PendingReset
    \/ \E reached \in SUBSET {a \in Aps : Home[a] = channel} : SendProbe(reached)
    \/ \E a \in Aps : HearBeacon(a) \/ StrikeInactive(a)
    \/ \E answer \in answers : HearAnswer(answer) \/ LoseAnswer(answer)
    \/ SenseBusy \/ HandoverScan

(* An ERROR_ReportError ends the simulation. *)
Next == state # "error" /\ (Station \/ Environment)

(* Timers expire, the MAC takes what is queued, and a reset that was put off *)
(* is made.  Of the radio: a beacon of the own network, a request and an     *)
(* answer in time (to a request that is over, before the wait for it has put *)
(* off a reset) come through in the end if they can again and again.         *)
NewBeacon == scanStarted /\ \E a \in OwnSsid : HearBeacon(a) /\ heard' # heard
HeardRequest(kind) ==
    /\ ~resetPending
    /\ SendAcked /\ Head(out).kind = kind
    /\ \E answer \in answers' : answer.kind = kind /\ answer.good
AnswerInTime(kind) ==
    /\ ~resetPending /\ out = <<>>
    /\ \E answer \in answers :
        answer.kind = kind /\ Awaited(answer) /\ answer.good /\ HearAnswer(answer)

Fairness ==
    /\ WF_vars(Station) /\ WF_vars(TakeRequest) /\ WF_vars(PendingReset)
    /\ WF_vars(DropRequest) /\ WF_vars(\E answer \in answers : LoseAnswer(answer))
    /\ SF_vars(NewBeacon)
    /\ \A kind \in {"auth", "assoc"} :
        SF_vars(HeardRequest(kind)) /\ SF_vars(AnswerInTime(kind))

Spec == Init /\ [][Next]_vars /\ Fairness

-----------------------------------------------------------------------------
Timers == {"none", "enable", "short", "long", "beaconWait", "authStart",
           "reassocStart", "scanStart", "auth", "assoc", "reassoc"}

TypeOK ==
    /\ scanType \in {"disabled", "passive", "active"}
    /\ state \in {"idle", "wfscan", "wfauth", "authFinished", "wfassoc",
                  "wfreassoc", "joined", "error"}
    /\ authenticated \in BOOLEAN /\ associated \in BOOLEAN
    /\ scanStarted \in BOOLEAN /\ mayReceive \in BOOLEAN
    /\ sending \in BOOLEAN /\ resetPending \in BOOLEAN
    /\ timer \in Timers
    /\ channel \in Listenable /\ visited \subseteq Listenable
    /\ numResults \in 0 .. NChannels
    /\ heard \subseteq Aps
    /\ proposed \in Aps \cup {None} /\ apAddr \in Aps \cup {None}
    /\ associatedAp \in Aps \cup {None} /\ told \in Aps \cup {None}
    /\ bssAddr \in Aps \cup {"self"}
    /\ out \in Seq([kind : {"probe"}, ap : {None}]
                   \cup [kind : {"auth", "assoc", "reassoc"}, ap : Aps \cup {None}])
    /\ sending => out # <<>>
    /\ answers \subseteq [kind : {"probe", "auth", "assoc", "reassoc"},
                          ap : Aps, good : BOOLEAN]
    /\ listed \in [Aps -> {"never", "listed", "struck"}]

(* An active scan starts no timer of its own until its probe has been sent,  *)
(* so one that follows a reset leaves the timer of what the reset cut short  *)
(* alive: that timer may later end a scan, ask or start over under a station *)
(* that waits for an answer or has joined.  What the exchange promises is    *)
(* therefore stated without an active scan, as in OnItsChannel below.        *)

(* The check of MacDot11ManagementJoinCompleted never fails: whatever comes  *)
(* late or twice, a station joins only when it is authenticated as well.     *)
NoRefusedJoin == scanType # "active" => state # "error"

(* A joined station has been in the station list of an access point of its   *)
(* own network, without an active scan of one on the channel of the one it   *)
(* calls its own; which one is open, for an answer's source is not compared. *)
ServedWhenJoined ==
    IsStationJoined =>
        \E a \in OwnSsid :
            /\ listed[a] # "never"
            /\ scanType # "active" => Home[a] = Home[associatedAp]

(* The radio is on the channel of the access point the station asks, and,    *)
(* unless it scans, of the one it has joined: a scan that ends brings it     *)
(* back.                                                                     *)
OnItsChannel ==
    scanType # "active" =>
        /\ state \in {"wfauth", "wfassoc", "wfreassoc"} => channel = Home[apAddr]
        /\ IsStationJoined /\ ~scanStarted => channel = Home[associatedAp]

(* A scan is over only when every channel the interface can listen to has    *)
(* been listened to, whichever it started on and however many were skipped.  *)
ScanCovers ==
    ~scanStarted /\ scanType # "disabled"
        /\ timer \in {"authStart", "reassocStart", "scanStart"}
    => visited = Listenable

(* A station that is not joined is never forgotten: a timer is alive, a      *)
(* request is queued, or a reset is put off.                                 *)
NeverForgotten ==
    scanType # "active" /\ ~IsStationJoined
    => timer # "none" \/ out # <<>> \/ resetPending

(* What the daemon was told last is the access point the MAC is joined to.   *)
DaemonKnowsAp ==
    IsStationJoined /\ ~scanStarted
    => /\ told = associatedAp
       /\ scanType # "active" => bssAddr = associatedAp

(* Without an active scan, only the own network's access points are asked.   *)
PassiveAsksOwnNetwork ==
    scanType # "active" => proposed \in OwnSsid \cup {None}

(* A station that scans passively joins in the end, and again after every    *)
(* reset, however often a timeout races the answer it waits for.             *)
JoinsInTheEnd == scanType = "passive" => []<>IsStationJoined
=============================================================================
